---------------------------- MODULE SessionSafety ----------------------------
(***************************************************************************)
(* While a Participant's Scopes follow one another, no turn runs in a      *)
(* session that misses part of its snapshot: for any number of Scopes,     *)
(* changes of the context, rebuilds and turns.  Where two Scopes of the    *)
(* Participant overlap, the second may find the record of the first and    *)
(* take its own session for the one described there.                       *)
(***************************************************************************)
EXTENDS ParticipantSession, TLAPS

InUse(s) == scopes[s] \in {"active", "closing"}

\* At most one Scope of the Participant is open or closing.
Apart == \A s, t \in ScopeIds : InUse(s) /\ InUse(t) => s = t

\* The record speaks of the generation the driver is in.
Current(driver, rec) == rec # None /\ rec.epoch = driver.epoch

\* A rebuild moves the driver past the record, and a session that is gone was rebuilt.
Generations(scope, driver, rec) ==
  scope = "active" /\ rec # None =>
    /\ rec.epoch <= driver.epoch
    /\ driver.session = None => rec.epoch # driver.epoch

\* A record of the current generation says no more than the session was told.
RecordIsTold(scope, driver, rec) ==
  LET session == driver.session IN
  scope = "active" /\ session # None /\ Current(driver, rec) =>
    \/ session.replayed
    \/ 1 .. rec.items \subseteq session.told /\ session.topic = rec.topic

\* A prompt on its way starts where the record of the session ends, or at the first item.
PromptFits(driver, turn, rec) ==
  turn # None /\ turn.state = "written" /\ ~ turn.retried =>
    \/ /\ Current(driver, rec)
       /\ turn.from = rec.items /\ rec.items <= turn.snapshot.items
       /\ turn.snapshot.topic = rec.topic
    \/ ~ Current(driver, rec) /\ turn.from = 0

TurnHolds(scope, driver, turn) ==
  LET session == driver.session IN
  /\ turn # None =>
       /\ scope = "active"
       /\ turn.state = "retrying" => turn.retried
       /\ turn.state # "retrying" => session # None
       /\ turn.state = "running" =>
            \/ session.replayed
            \/ /\ 1 .. turn.snapshot.items \subseteq session.told
               /\ session.topic = turn.snapshot.topic
  /\ driver.respawning => session = None

SessionRules(scope, driver, turn, rec) ==
  /\ Generations(scope, driver, rec) /\ RecordIsTold(scope, driver, rec)
  /\ PromptFits(driver, turn, rec) /\ TurnHolds(scope, driver, turn)

SessionInv == /\ SessionTypeOK /\ history # <<>>
              /\ \A s \in ScopeIds : SessionRules(scopes[s], drivers[s], turns[s], record)
              /\ record # None => \E s \in ScopeIds : InUse(s)

-----------------------------------------------------------------------------
(* A step of one Scope.                                                    *)

ScopeStates == {"unused", "active", "closing", "closed"}

\* A step of one Scope need only keep that Scope's rules: the others are not in use.
LEMMA ScopeStep ==
  ASSUME SessionInv, Apart, Apart', NEW s \in ScopeIds,
         NEW scope \in ScopeStates, NEW driver \in Drivers, NEW turn \in Turns \cup {None},
         scopes' = [scopes EXCEPT ![s] = scope] \/ (scopes' = scopes /\ scope = scopes[s]),
         drivers' = [drivers EXCEPT ![s] = driver] \/ (drivers' = drivers /\ driver = drivers[s]),
         turns' = [turns EXCEPT ![s] = turn] \/ (turns' = turns /\ turn = turns[s]),
         record' \in Records \cup {None}, UNCHANGED history,
         InUse(s) \/ scope = "active",
         record' # None => scope \in {"active", "closing"},
         SessionRules(scope, driver, turn, record')
  PROVE  SessionInv'
<1>1. /\ scopes \in [ScopeIds -> ScopeStates] /\ drivers \in [ScopeIds -> Drivers]
      /\ turns \in [ScopeIds -> Turns \cup {None}]
  BY DEF SessionInv, SessionTypeOK, ScopeStates
<1>2. /\ scopes'[s] = scope /\ scopes' \in [ScopeIds -> ScopeStates]
      /\ \A t \in ScopeIds \ {s} : scopes'[t] = scopes[t]
  BY <1>1
<1>3. /\ drivers'[s] = driver /\ drivers' \in [ScopeIds -> Drivers]
      /\ \A t \in ScopeIds \ {s} : drivers'[t] = drivers[t]
  BY <1>1
<1>4. /\ turns'[s] = turn /\ turns' \in [ScopeIds -> Turns \cup {None}]
      /\ \A t \in ScopeIds \ {s} : turns'[t] = turns[t]
  BY <1>1
<1>5. SessionTypeOK' /\ history' # <<>>
  BY <1>2, <1>3, <1>4 DEF SessionInv, SessionTypeOK, ScopeStates
<1>6. ASSUME NEW t \in ScopeIds
      PROVE  SessionRules(scopes'[t], drivers'[t], turns'[t], record')
  <2>1. CASE t = s
    BY <1>2, <1>3, <1>4, <2>1
  <2>2. CASE t # s
    <3>1. scopes[t] # "active" /\ scopes'[t] = scopes[t]
      BY <1>2, <2>2 DEF Apart, InUse
    <3>2. turns[t] = None /\ (drivers[t].respawning => drivers[t].session = None)
      BY <3>1 DEF SessionInv, SessionRules, TurnHolds
    <3>3. QED
      BY <1>3, <1>4, <2>2, <3>1, <3>2
      DEF SessionRules, Generations, RecordIsTold, PromptFits, TurnHolds
  <2>3. QED
    BY <2>1, <2>2
<1>7. record' # None => InUse(s)'
  BY <1>2 DEF InUse
<1>8. QED
  BY <1>5, <1>6, <1>7 DEF SessionInv

LEMMA ScopeFacts ==
  ASSUME SessionInv, NEW s \in ScopeIds
  PROVE  /\ scopes[s] \in ScopeStates /\ drivers[s] \in Drivers /\ turns[s] \in Turns \cup {None}
         /\ record \in Records \cup {None}
         /\ SessionRules(scopes[s], drivers[s], turns[s], record)
BY DEF SessionInv, SessionTypeOK, ScopeStates

\* What the steps of a driver leave of it.
LEMMA DriverFacts ==
  ASSUME NEW d \in Drivers
  PROVE  /\ Spawned(d) \in Drivers /\ Spawned(d).epoch = d.epoch
         /\ Spawned(d).session = FreshSession /\ FreshSession \in Sessions /\ FreshSession # None
         /\ ~ FreshSession.replayed /\ ~ Spawned(d).respawning
         /\ Failed(d) \in Drivers /\ Failed(d).epoch = d.epoch
         /\ Failed(d).session = None /\ ~ Failed(d).respawning
         /\ Rebuilt(d) \in Drivers /\ Rebuilt(d).epoch = d.epoch + 1
         /\ Rebuilt(d).session = None
<1>1. FreshSession \in Sessions /\ FreshSession # None /\ ~ FreshSession.replayed
  <2>1. FreshSession \in Sessions
    BY DEF FreshSession, Sessions
  <2>2. ~ FreshSession.replayed
    BY DEF FreshSession
  <2>3. QED
    BY <2>1, <2>2, NoneIsNoSession
<1>2. /\ Spawned(d) \in Drivers /\ Spawned(d).epoch = d.epoch
      /\ Spawned(d).session = FreshSession /\ ~ Spawned(d).respawning
  BY <1>1 DEF Spawned, Drivers
<1>3. /\ Failed(d) \in Drivers /\ Failed(d).epoch = d.epoch
      /\ Failed(d).session = None /\ ~ Failed(d).respawning
  BY DEF Failed, Drivers
<1>4. Rebuilt(d) \in Drivers /\ Rebuilt(d).epoch = d.epoch + 1 /\ Rebuilt(d).session = None
  <2>1. d.epoch + 1 \in Nat
    BY DEF Drivers
  <2>2. QED
    BY <2>1 DEF Rebuilt, Drivers
<1>5. QED
  BY <1>1, <1>2, <1>3, <1>4

\* A driver that has lost its session, a generation on: no record is current.
LEMMA RebuiltRules ==
  ASSUME SessionInv, NEW s \in ScopeIds, scopes[s] = "active",
         NEW driver \in Drivers, driver.epoch = drivers[s].epoch + 1,
         driver.respawning => driver.session = None,
         NEW turn \in Turns \cup {None},
         \/ turn = None
         \/ turn.state = "retrying" /\ turn.retried
         \/ turn.state = "written" /\ turn.retried /\ driver.session # None
  PROVE  SessionRules("active", driver, turn, record)
<1>1. record # None => record.epoch \in Nat /\ record.epoch <= drivers[s].epoch
  BY ScopeFacts DEF SessionRules, Generations, Records
<1>2. drivers[s].epoch \in Nat
  BY ScopeFacts DEF Drivers
<1>3. record # None => record.epoch <= driver.epoch /\ record.epoch # driver.epoch
  BY <1>1, <1>2
<1>4. QED
  BY <1>3 DEF SessionRules, Generations, RecordIsTold, PromptFits, TurnHolds, Current

-----------------------------------------------------------------------------
(* The steps of a Scope, one by one.                                       *)

LEMMA OpenScopeStep ==
  ASSUME SessionInv, Apart, Apart', NEW s \in ScopeIds, OpenScope(s)
  PROVE  SessionInv'
<1>1. PICK id \in DriverIds : drivers' = [drivers EXCEPT ![s] = Spawned([@ EXCEPT !.id = id])]
  BY DEF OpenScope
<1> DEFINE named == [drivers[s] EXCEPT !.id = id]
<1>2. /\ drivers \in [ScopeIds -> Drivers] /\ scopes \in [ScopeIds -> ScopeStates]
      /\ scopes[s] = "unused" /\ UNCHANGED <<history, record, turns>>
      /\ scopes' = [scopes EXCEPT ![s] = "active"]
  BY DEF SessionInv, SessionTypeOK, ScopeStates, OpenScope
<1>3. named \in Drivers
  BY <1>2 DEF Drivers
<1>4. drivers' = [drivers EXCEPT ![s] = Spawned(named)]
  BY <1>1, <1>2
<1> HIDE DEF named
<1>5. turns[s] = None
  BY <1>2, ScopeFacts DEF SessionRules, TurnHolds
<1>6. record = None
  <2>1. SUFFICES ASSUME record # None
                 PROVE  FALSE
    OBVIOUS
  <2>2. PICK t \in ScopeIds : InUse(t)
    BY <2>1 DEF SessionInv
  <2>3. t # s
    BY <1>2, <2>2 DEF InUse
  <2>4. InUse(s)' /\ InUse(t)'
    BY <1>2, <2>2, <2>3 DEF InUse
  <2>5. QED
    BY <2>3, <2>4 DEF Apart
<1>7. SessionRules("active", Spawned(named), None, record)
  BY <1>3, <1>6, DriverFacts
  DEF SessionRules, Generations, RecordIsTold, PromptFits, TurnHolds, Current
<1>8. QED
  BY <1>2, <1>3, <1>4, <1>5, <1>6, <1>7, DriverFacts, ScopeStep DEF ScopeStates

LEMMA CloseSteps ==
  ASSUME SessionInv, Apart, Apart', NEW s \in ScopeIds,
         CloseBegins(s) \/ ClosingExit(s) \/ CloseEnds(s)
  PROVE  SessionInv'
<1> DEFINE d == drivers[s]
<1>1. /\ d \in Drivers /\ turns[s] \in Turns \cup {None} /\ record \in Records \cup {None}
      /\ SessionRules(scopes[s], d, turns[s], record)
      /\ InUse(s) /\ UNCHANGED history
  BY ScopeFacts DEF CloseBegins, ClosingExit, CloseEnds, InUse
<1>2. /\ SessionRules("closing", d, None, record) /\ SessionRules("closed", d, None, None)
      /\ Failed(d) \in Drivers /\ SessionRules("closing", Failed(d), None, record)
  BY <1>1, DriverFacts DEF SessionRules, Generations, RecordIsTold, PromptFits, TurnHolds
<1>3. CASE CloseBegins(s)
  BY <1>1, <1>2, <1>3, ScopeStep DEF CloseBegins, ScopeStates
<1>4. CASE ClosingExit(s)
  <2>1. turns[s] = None
    BY <1>1, <1>4 DEF ClosingExit, SessionRules, TurnHolds
  <2>2. /\ scopes' = scopes /\ scopes[s] = "closing" /\ record' = record /\ turns' = turns
        /\ drivers' = [drivers EXCEPT ![s] = Failed(d)]
    BY <1>4 DEF ClosingExit, SessionInv, SessionTypeOK
  <2>3. QED
    BY <1>1, <1>2, <2>1, <2>2, ScopeStep DEF ScopeStates
<1>5. CASE CloseEnds(s)
  <2>1. turns[s] = None
    BY <1>1, <1>5 DEF CloseEnds, SessionRules, TurnHolds
  <2>2. QED
    BY <1>1, <1>2, <1>5, <2>1, ScopeStep DEF CloseEnds, ScopeStates
<1>6. QED
  BY <1>3, <1>4, <1>5

\* The prompt is rendered against the record: it starts where the record ends if that is of
\* the driver's generation, at the first item otherwise.
LEMMA ExecuteStep ==
  ASSUME SessionInv, Apart, Apart', NEW s \in ScopeIds, NEW r \in DOMAIN history, Execute(s, r)
  PROVE  SessionInv'
<1> DEFINE d        == drivers[s]
           snapshot == Snapshot(r)
           from     == IF reconcile(snapshot, d.epoch) = "full" THEN 0 ELSE record.items
           turn     == [snapshot |-> snapshot, from |-> from, retried |-> d.session = None,
                        state |-> IF d.session = None THEN "retrying" ELSE "written"]
<1>1. /\ d \in Drivers /\ record \in Records \cup {None}
      /\ SessionRules(scopes[s], d, turns[s], record)
      /\ scopes[s] = "active" /\ InUse(s) /\ UNCHANGED <<history, record, scopes, drivers>>
  BY ScopeFacts DEF Execute, InUse
<1>2. turns' = [turns EXCEPT ![s] = turn] /\ reconcile(snapshot, d.epoch) # "needs_rebase"
  BY DEF Execute
<1>3. snapshot \in Snapshots
  <2>1. history[r] \in Contexts /\ r \in Nat
    BY DEF SessionInv, SessionTypeOK
  <2>2. QED
    BY <2>1 DEF Contexts, Snapshots, Snapshot
<1> HIDE DEF snapshot
<1>4. \/ ~ Current(d, record) /\ from = 0
      \/ /\ Current(d, record) /\ from = record.items /\ record.items \in Nat
         /\ ~ snapshot.items < record.items /\ snapshot.topic = record.topic
  BY <1>1, <1>2 DEF reconcile, Current, Records
<1>5. from \in Nat
  BY <1>4
<1>6. /\ turn \in Turns /\ turn.from = from /\ turn.snapshot = snapshot
      /\ (turn.retried <=> d.session = None)
      /\ turn.state = IF d.session = None THEN "retrying" ELSE "written"
  BY <1>3, <1>5 DEF Turns
<1> HIDE DEF turn, from
<1>7. PromptFits(d, turn, record)
  BY <1>3, <1>4, <1>6 DEF PromptFits, Snapshots
<1>8. SessionRules(scopes[s], d, turn, record)
  BY <1>1, <1>6, <1>7 DEF SessionRules, TurnHolds
<1>9. QED
  BY <1>1, <1>2, <1>6, <1>8, ScopeStep DEF ScopeStates

\* The session hears what the prompt holds, which closes the gap to the snapshot.
LEMMA DeliverStep ==
  ASSUME SessionInv, Apart, Apart', NEW s \in ScopeIds, Deliver(s)
  PROVE  SessionInv'
<1> DEFINE d       == drivers[s]
           turn    == turns[s]
           session == d.session
           heard   == [told     |-> session.told \cup (turn.from + 1 .. turn.snapshot.items),
                       topic    |-> IF turn.from = 0 THEN turn.snapshot.topic ELSE session.topic,
                       replayed |-> session.replayed \/ turn.retried]
           driver  == [d EXCEPT !.session = heard]
           running == [turn EXCEPT !.state = "running"]
<1>1. /\ d \in Drivers /\ turn \in Turns /\ session \in Sessions
      /\ record \in Records \cup {None} /\ SessionRules(scopes[s], d, turn, record)
      /\ turn # None /\ turn.state = "written" /\ scopes[s] = "active" /\ InUse(s)
      /\ UNCHANGED <<history, record, scopes>>
  <2>1. turn # None /\ turn.state = "written" /\ session # None /\ UNCHANGED <<history, record, scopes>>
    BY DEF Deliver
  <2>2. scopes[s] = "active"
    BY <2>1, ScopeFacts DEF SessionRules, TurnHolds
  <2>3. QED
    BY <2>1, <2>2, ScopeFacts DEF InUse, Drivers
<1>2. drivers' = [drivers EXCEPT ![s] = driver] /\ turns' = [turns EXCEPT ![s] = running]
  BY DEF Deliver, SessionInv, SessionTypeOK
<1>3. /\ turn.from \in Nat /\ turn.snapshot \in Snapshots /\ turn.snapshot.items \in Nat
      /\ turn.snapshot.topic \in Topics
  BY <1>1 DEF Turns, Snapshots
<1>4. heard \in Sessions /\ heard # None
  <2>1. session.told \cup (turn.from + 1 .. turn.snapshot.items) \in SUBSET Nat
    BY <1>1, <1>3 DEF Sessions
  <2>2. heard \in Sessions
    BY <1>1, <1>3, <2>1 DEF Sessions, Turns
  <2>3. QED
    BY <2>2, NoneIsNoSession
<1>5. /\ heard.told = session.told \cup (turn.from + 1 .. turn.snapshot.items)
      /\ heard.topic = IF turn.from = 0 THEN turn.snapshot.topic ELSE session.topic
      /\ heard.replayed <=> session.replayed \/ turn.retried
  OBVIOUS
<1> HIDE DEF heard
<1>6. /\ driver \in Drivers /\ driver.session = heard /\ driver.epoch = d.epoch
      /\ driver.respawning = d.respawning
  BY <1>1, <1>4 DEF Drivers
<1>7. /\ running \in Turns /\ running.snapshot = turn.snapshot /\ running.state = "running"
  BY <1>1 DEF Turns
<1> HIDE DEF driver, running
<1>8. ~ d.respawning
  BY <1>1, NoneIsNoSession DEF SessionRules, TurnHolds
<1>9. heard.replayed
      \/ /\ 1 .. turn.snapshot.items \subseteq heard.told /\ heard.topic = turn.snapshot.topic
         /\ Current(d, record) => /\ 1 .. record.items \subseteq heard.told
                                  /\ heard.topic = record.topic
  <2>1. SUFFICES ASSUME ~ session.replayed, ~ turn.retried
                 PROVE  /\ 1 .. turn.snapshot.items \subseteq heard.told
                        /\ heard.topic = turn.snapshot.topic
                        /\ Current(d, record) => /\ 1 .. record.items \subseteq heard.told
                                                 /\ heard.topic = record.topic
    BY <1>5
  <2>2. CASE ~ Current(d, record)
    <3>1. turn.from = 0
      BY <1>1, <2>1, <2>2 DEF SessionRules, PromptFits
    <3>2. 1 .. turn.snapshot.items \subseteq heard.told
      BY <1>3, <1>5, <3>1
    <3>3. QED
      BY <1>5, <2>2, <3>1, <3>2
  <2>3. CASE Current(d, record)
    <3>1. /\ turn.from = record.items /\ record.items <= turn.snapshot.items
          /\ turn.snapshot.topic = record.topic
      BY <1>1, <2>1, <2>3 DEF SessionRules, PromptFits
    <3>2. 1 .. record.items \subseteq session.told /\ session.topic = record.topic
      BY <1>1, <2>1, <2>3, NoneIsNoSession DEF SessionRules, RecordIsTold
    <3>3. 1 .. turn.snapshot.items \subseteq heard.told
      <4>1. ASSUME NEW i \in 1 .. turn.snapshot.items
            PROVE  i \in 1 .. record.items \/ i \in turn.from + 1 .. turn.snapshot.items
        BY <1>3, <3>1
      <4>2. QED
        BY <1>5, <3>2, <4>1
    <3>4. QED
      BY <1>5, <3>1, <3>2, <3>3
  <2>4. QED
    BY <2>2, <2>3
<1>10. SessionRules(scopes[s], driver, running, record)
  BY <1>1, <1>4, <1>6, <1>7, <1>8, <1>9
  DEF SessionRules, Generations, RecordIsTold, PromptFits, TurnHolds, Current
<1>11. QED
  <2>1. /\ scopes[s] \in ScopeStates
        /\ record' \in Records \cup {None} /\ (record' # None => scopes[s] = "active")
        /\ SessionRules(scopes[s], driver, running, record')
    BY <1>1, <1>10, ScopeFacts
  <2>2. QED
    BY <1>1, <1>2, <1>6, <1>7, <2>1, ScopeStep

\* The record that is made of a turn says what its session was told.
LEMMA CompleteStep ==
  ASSUME SessionInv, Apart, Apart', NEW s \in ScopeIds, NEW over \in BOOLEAN, Complete(s, over)
  PROVE  SessionInv'
<1> DEFINE d    == drivers[s]
           turn == turns[s]
           rec  == recordApplied(turn.snapshot, d.epoch, over)
<1>1. /\ d \in Drivers /\ turn \in Turns
      /\ record \in Records \cup {None} /\ SessionRules(scopes[s], d, turn, record)
      /\ turn # None /\ turn.state = "running" /\ scopes[s] = "active" /\ InUse(s)
      /\ UNCHANGED <<history, scopes, drivers>>
      /\ record' = rec /\ turns' = [turns EXCEPT ![s] = None]
  <2>1. turn # None /\ turn.state = "running"
    BY DEF Complete
  <2>2. scopes[s] = "active"
    BY <2>1, ScopeFacts DEF SessionRules, TurnHolds
  <2>3. QED
    BY <2>1, <2>2, ScopeFacts DEF InUse, Complete
<1>2. rec \in Records
  <2>1. turn.snapshot \in Snapshots /\ d.epoch \in Nat
    BY <1>1 DEF Turns, Drivers
  <2>2. record # None => record.executions + 1 \in Nat /\ record.overWindow \in BOOLEAN
    BY <1>1 DEF Records
  <2>3. QED
    BY <2>1, <2>2 DEF Records, Snapshots, recordApplied
<1>3. rec.epoch = d.epoch /\ rec.items = turn.snapshot.items /\ rec.topic = turn.snapshot.topic
  BY DEF recordApplied
<1> HIDE DEF rec
<1>4. d.session # None /\ d.epoch \in Nat
  BY <1>1 DEF SessionRules, TurnHolds, Drivers
<1>5. SessionRules(scopes[s], d, None, rec)
  BY <1>1, <1>3, <1>4 DEF SessionRules, Generations, RecordIsTold, PromptFits, TurnHolds, Current
<1>6. QED
  BY <1>1, <1>2, <1>5, ScopeStep DEF ScopeStates

LEMMA EndSteps ==
  ASSUME SessionInv, Apart, Apart', NEW s \in ScopeIds, EndUnrecorded(s) \/ EndAndRespawn(s)
  PROVE  SessionInv'
<1> DEFINE d == drivers[s]
<1>1. /\ d \in Drivers /\ record \in Records \cup {None}
      /\ SessionRules(scopes[s], d, turns[s], record)
      /\ scopes[s] = "active" /\ scopes[s] \in ScopeStates /\ InUse(s)
      /\ UNCHANGED <<history, record, scopes>>
      /\ turns' = [turns EXCEPT ![s] = None]
  <2>1. turns[s] # None /\ UNCHANGED <<history, record, scopes>>
        /\ turns' = [turns EXCEPT ![s] = None]
    BY DEF EndUnrecorded, EndAndRespawn
  <2>2. scopes[s] = "active"
    BY <2>1, ScopeFacts DEF SessionRules, TurnHolds
  <2>3. QED
    BY <2>1, <2>2, ScopeFacts DEF InUse
<1>2. CASE EndUnrecorded(s)
  <2>1. SessionRules(scopes[s], d, None, record)
    BY <1>1 DEF SessionRules, PromptFits, TurnHolds
  <2>2. drivers' = drivers
    BY <1>2 DEF EndUnrecorded
  <2>3. QED
    BY <1>1, <2>1, <2>2, ScopeStep DEF ScopeStates
<1>3. CASE EndAndRespawn(s)
  <2>1. [Rebuilt(d) EXCEPT !.respawning = TRUE] \in Drivers
    BY <1>1, DriverFacts DEF Drivers
  <2>2. PICK driver \in Drivers : /\ driver = [Rebuilt(d) EXCEPT !.respawning = TRUE]
                                  /\ drivers' = [drivers EXCEPT ![s] = driver]
    BY <1>3, <2>1 DEF EndAndRespawn, SessionInv, SessionTypeOK
  <2>3. driver.epoch = d.epoch + 1 /\ driver.session = None
    BY <1>1, <2>2, DriverFacts DEF Drivers
  <2>4. SessionRules(scopes[s], driver, None, record)
    BY <1>1, <2>3, RebuiltRules
  <2>5. QED
    BY <1>1, <2>2, <2>4, ScopeStep
<1>4. QED
  BY <1>2, <1>3

LEMMA RespawnLandsStep ==
  ASSUME SessionInv, Apart, Apart', NEW s \in ScopeIds, RespawnLands(s)
  PROVE  SessionInv'
<1> DEFINE d == drivers[s]
<1>1. /\ d \in Drivers /\ record \in Records \cup {None} /\ turns[s] \in Turns \cup {None}
      /\ SessionRules(scopes[s], d, turns[s], record)
      /\ scopes[s] = "active" /\ InUse(s) /\ d.respawning
      /\ UNCHANGED <<history, record, scopes, turns>>
  BY ScopeFacts DEF RespawnLands, InUse
<1>2. PICK driver \in {Spawned(d), Failed(d)} : drivers' = [drivers EXCEPT ![s] = driver]
  BY DEF RespawnLands, SessionInv, SessionTypeOK
<1>3. /\ driver \in Drivers /\ driver.epoch = d.epoch /\ ~ driver.respawning
  BY <1>1, <1>2, DriverFacts
<1>4. d.session = None /\ ~ Current(d, record)
  BY <1>1 DEF SessionRules, TurnHolds, Generations, Current
<1>5. turns[s] # None => turns[s].state = "retrying" /\ turns[s].retried
  BY <1>1, <1>4 DEF SessionRules, TurnHolds
<1>6. SessionRules(scopes[s], driver, turns[s], record)
  BY <1>1, <1>3, <1>4, <1>5
  DEF SessionRules, Generations, RecordIsTold, PromptFits, TurnHolds, Current
<1>7. QED
  BY <1>1, <1>2, <1>3, <1>6, ScopeStep DEF ScopeStates

LEMMA LossSteps ==
  ASSUME SessionInv, Apart, Apart', NEW s \in ScopeIds, ThreadCompacted(s) \/ ProcessExits(s)
  PROVE  SessionInv'
<1> DEFINE d == drivers[s]
<1>1. /\ d \in Drivers /\ record \in Records \cup {None} /\ turns[s] \in Turns \cup {None}
      /\ SessionRules(scopes[s], d, turns[s], record)
      /\ scopes[s] = "active" /\ InUse(s) /\ UNCHANGED <<history, record, scopes>>
  BY ScopeFacts DEF ThreadCompacted, ProcessExits, InUse
<1>2. CASE ThreadCompacted(s)
  <2>1. /\ drivers' = [drivers EXCEPT ![s] = Rebuilt(d)] /\ turns' = [turns EXCEPT ![s] = None]
    BY <1>2 DEF ThreadCompacted, SessionInv, SessionTypeOK
  <2>2. PICK driver \in Drivers : /\ driver = Rebuilt(d)
                                  /\ driver.epoch = d.epoch + 1 /\ driver.session = None
    BY <1>1, DriverFacts
  <2>3. SessionRules(scopes[s], driver, None, record)
    BY <1>1, <2>2, RebuiltRules
  <2>4. scopes[s] \in ScopeStates /\ drivers' = [drivers EXCEPT ![s] = driver]
    BY <2>1, <2>2, ScopeFacts
  <2>5. QED
    BY <1>1, <2>1, <2>3, <2>4, ScopeStep
<1>3. CASE ProcessExits(s)
  <2> DEFINE retried == [turns[s] EXCEPT !.state = "retrying", !.retried = TRUE]
             turn    == IF turns[s] = None \/ turns[s].state = "retrying" THEN turns[s]
                       ELSE IF turns[s].state = "written" /\ ~ turns[s].retried /\ RetriesInPlace(d)
                            THEN retried ELSE None
  <2>1. turns' = [turns EXCEPT ![s] = turn]
    BY <1>3 DEF ProcessExits, SessionInv, SessionTypeOK
  <2>2. PICK driver \in Drivers : /\ drivers' = [drivers EXCEPT ![s] = driver]
                                  /\ driver.epoch = d.epoch + 1 /\ driver.session = None
    <3>1. [Rebuilt(d) EXCEPT !.live = FALSE] \in Drivers
      BY <1>1, DriverFacts DEF Drivers
    <3>2. drivers' = [drivers EXCEPT ![s] = [Rebuilt(d) EXCEPT !.live = FALSE]]
      BY <1>3 DEF ProcessExits, SessionInv, SessionTypeOK
    <3>3. /\ [Rebuilt(d) EXCEPT !.live = FALSE].epoch = d.epoch + 1
          /\ [Rebuilt(d) EXCEPT !.live = FALSE].session = None
      BY <1>1, DriverFacts DEF Drivers
    <3>4. QED
      BY <3>1, <3>2, <3>3
  <2>3. turns[s] # None => retried \in Turns /\ retried.state = "retrying" /\ retried.retried
    BY <1>1 DEF Turns
  <2>4. turns[s] # None /\ turns[s].state = "retrying" => turns[s].retried
    BY <1>1 DEF SessionRules, TurnHolds
  <2>5. PICK after \in Turns \cup {None} :
          after = turn /\ (after = None \/ (after.state = "retrying" /\ after.retried))
    <3> HIDE DEF retried
    <3>1. CASE turns[s] = None \/ turns[s].state = "retrying"
      <4>1. turn = turns[s]
        BY <1>1, <3>1 DEF Turns
      <4>2. QED
        BY <1>1, <2>4, <3>1, <4>1
    <3>2. CASE turns[s] # None /\ turns[s].state # "retrying"
      <4>1. turn \in {retried, None}
        BY <3>2
      <4>2. QED
        BY <2>3, <3>2, <4>1
    <3>3. QED
      BY <3>1, <3>2
  <2> HIDE DEF turn
  <2>6. SessionRules(scopes[s], driver, after, record)
    BY <1>1, <2>2, <2>5, RebuiltRules
  <2>7. turns' = [turns EXCEPT ![s] = after] /\ scopes[s] \in ScopeStates
    BY <2>1, <2>5, ScopeFacts
  <2>8. QED
    BY <1>1, <2>2, <2>6, <2>7, ScopeStep
<1>4. QED
  BY <1>2, <1>3

LEMMA RetrySteps ==
  ASSUME SessionInv, Apart, Apart', NEW s \in ScopeIds, Retry(s) \/ RetryOnRespawned(s)
  PROVE  SessionInv'
<1> DEFINE d == drivers[s]  written == [turns[s] EXCEPT !.state = "written"]
<1>1. /\ d \in Drivers /\ record \in Records \cup {None} /\ turns[s] \in Turns
      /\ SessionRules(scopes[s], d, turns[s], record)
      /\ scopes[s] = "active" /\ scopes[s] \in ScopeStates /\ InUse(s)
      /\ UNCHANGED <<history, record, scopes>>
      /\ turns[s] # None /\ turns[s].state = "retrying" /\ turns[s].retried
  <2>1. /\ turns[s] # None /\ turns[s].state = "retrying" /\ scopes[s] = "active"
        /\ UNCHANGED <<history, record, scopes>>
    BY DEF Retry, RetryOnRespawned
  <2>2. QED
    BY <2>1, ScopeFacts DEF SessionRules, TurnHolds, InUse
<1>2. written \in Turns /\ written.state = "written" /\ written.retried
  BY <1>1 DEF Turns
<1>3. CASE /\ drivers' = [drivers EXCEPT ![s] = Spawned(Rebuilt(@))]
           /\ turns' = [turns EXCEPT ![s].state = "written"]
  <2> DEFINE driver == Spawned(Rebuilt(d))
  <2>1. /\ driver \in Drivers /\ driver.epoch = d.epoch + 1
        /\ driver.session # None /\ ~ driver.respawning
    BY <1>1, DriverFacts
  <2>2. drivers' = [drivers EXCEPT ![s] = driver] /\ turns' = [turns EXCEPT ![s] = written]
    BY <1>3 DEF SessionInv, SessionTypeOK
  <2> HIDE DEF driver, written
  <2>3. SessionRules(scopes[s], driver, written, record)
    BY <1>1, <1>2, <2>1, RebuiltRules
  <2>4. QED
    BY <1>1, <1>2, <2>1, <2>2, <2>3, ScopeStep DEF ScopeStates
<1>4. CASE /\ drivers' = [drivers EXCEPT ![s].epoch = @ + 1] /\ d.session = None
           /\ turns' = [turns EXCEPT ![s] = None]
  <2>1. d.epoch + 1 \in Nat
    BY <1>1 DEF Drivers
  <2>2. PICK driver \in Drivers : /\ driver = [d EXCEPT !.epoch = @ + 1]
                                  /\ drivers' = [drivers EXCEPT ![s] = driver]
    BY <1>1, <1>4, <2>1 DEF Drivers, SessionInv, SessionTypeOK
  <2>3. driver.epoch = d.epoch + 1 /\ driver.session = None
    BY <1>1, <1>4, <2>2 DEF Drivers
  <2>4. SessionRules(scopes[s], driver, None, record)
    BY <1>1, <2>3, RebuiltRules
  <2>5. turns' = [turns EXCEPT ![s] = None]
    BY <1>4
  <2>6. QED
    BY <1>1, <2>2, <2>4, <2>5, ScopeStep
<1>5. CASE RetryOnRespawned(s)
  <2>1. drivers' = drivers /\ turns' = [turns EXCEPT ![s] = written] /\ d.session # None
    BY <1>5 DEF RetryOnRespawned, SessionInv, SessionTypeOK
  <2> HIDE DEF written
  <2>2. SessionRules(scopes[s], d, written, record)
    BY <1>1, <1>2, <2>1 DEF SessionRules, PromptFits, TurnHolds
  <2>3. QED
    BY <1>1, <1>2, <2>1, <2>2, ScopeStep DEF ScopeStates
<1>6. QED
  BY <1>3, <1>4, <1>5 DEF Retry

-----------------------------------------------------------------------------
(* The invariant, and what it promises.                                    *)

LEMMA SessionInit == Init => SessionInv
<1> SUFFICES ASSUME Init
             PROVE  SessionInv
  OBVIOUS
<1>1. PICK t \in Topics : history = <<[items |-> 0, topic |-> t]>>
  BY DEF Init
<1>2. history \in Seq(Contexts) /\ history # <<>>
  BY <1>1 DEF Contexts
<1>3. NoDriver \in Drivers /\ ~ NoDriver.respawning
  BY DEF NoDriver, Drivers
<1>4. SessionTypeOK
  BY <1>2, <1>3 DEF Init, SessionTypeOK
<1>5. ASSUME NEW s \in ScopeIds
      PROVE  SessionRules(scopes[s], drivers[s], turns[s], record)
  BY <1>3 DEF Init, SessionRules, Generations, RecordIsTold, PromptFits, TurnHolds, Current
<1>6. QED
  BY <1>2, <1>4, <1>5 DEF Init, SessionInv

LEMMA ContextStep ==
  ASSUME SessionInv, AppendItem \/ EditTopic
  PROVE  SessionInv'
<1>1. history \in Seq(Contexts) /\ Now \in Contexts
  <2>1. history \in Seq(Contexts) /\ history # <<>>
    BY DEF SessionInv, SessionTypeOK
  <2>2. Len(history) \in 1 .. Len(history)
    BY <2>1
  <2>3. QED
    BY <2>1, <2>2 DEF Now
<1>2. PICK context \in Contexts : Change(context)
  <2>1. [Now EXCEPT !.items = @ + 1] \in Contexts
    BY <1>1 DEF Contexts
  <2>2. \A t \in Topics : [Now EXCEPT !.topic = t] \in Contexts
    BY <1>1 DEF Contexts
  <2>3. QED
    BY <2>1, <2>2 DEF AppendItem, EditTopic
<1>3. history' \in Seq(Contexts) /\ history' # <<>>
  BY <1>1, <1>2 DEF Change
<1>4. QED
  BY <1>2, <1>3 DEF Change, SessionInv, SessionTypeOK, InUse

LEMMA SessionNext == SessionInv /\ Apart /\ Apart' /\ [Next]_vars => SessionInv'
<1> SUFFICES ASSUME SessionInv, Apart, Apart', [Next]_vars
             PROVE  SessionInv'
  OBVIOUS
<1>1. CASE AppendItem \/ EditTopic
  BY <1>1, ContextStep
<1>2. ASSUME NEW s \in ScopeIds,
             \/ OpenScope(s) \/ CloseBegins(s) \/ ClosingExit(s) \/ CloseEnds(s)
             \/ \E r \in DOMAIN history : Execute(s, r)
      PROVE  SessionInv'
  BY <1>2, OpenScopeStep, CloseSteps, ExecuteStep
<1>3. ASSUME NEW s \in ScopeIds,
             \/ Deliver(s) \/ EndUnrecorded(s) \/ EndAndRespawn(s)
             \/ \E over \in BOOLEAN : Complete(s, over)
      PROVE  SessionInv'
  BY <1>3, DeliverStep, EndSteps, CompleteStep
<1>4. ASSUME NEW s \in ScopeIds,
             \/ RespawnLands(s) \/ ThreadCompacted(s) \/ ProcessExits(s)
             \/ Retry(s) \/ RetryOnRespawned(s)
      PROVE  SessionInv'
  BY <1>4, RespawnLandsStep, LossSteps, RetrySteps
<1>5. CASE UNCHANGED vars
  BY <1>5 DEF vars, SessionInv, SessionTypeOK, InUse
<1>6. QED
  BY <1>1, <1>2, <1>3, <1>4, <1>5 DEF Next

\* As long as no two Scopes of the Participant overlap, a turn that runs has a session that
\* was told all its snapshot holds, under its topic, or was given a prompt again
\* (reconcile, recordApplied and the epochs of the drivers).
THEOREM NothingMissed == Spec /\ []Apart => []SessionMissesNothing
<1>1. SessionInv => SessionMissesNothing
  BY ScopeFacts DEF SessionMissesNothing, Told, SessionRules, TurnHolds
<1>2. QED
  BY <1>1, SessionInit, SessionNext, PTL DEF Spec

\* A Participant that only ever has one Scope, as the run's, misses nothing.
THEOREM NothingMissedInOneScope ==
  ASSUME \A s, t \in ScopeIds : s = t
  PROVE  Spec => []SessionMissesNothing
<1>1. Apart
  BY DEF Apart
<1>2. Spec => []Apart
  BY <1>1, PTL
<1>3. QED
  BY <1>2, NothingMissed, PTL
===============================================================================
