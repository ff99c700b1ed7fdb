----------------------------- MODULE ScopeSafety -----------------------------
(***************************************************************************)
(* What the scope manager keeps true while prewarms, turns and closes are  *)
(* in flight at once, for any number of scopes, participants and           *)
(* executions and any quotas.                                              *)
(*                                                                         *)
(* A seat is one Participant of one scope: its entry, its driver and what  *)
(* is awaited for it.  SeatRules relate the three.  What a close promises  *)
(* is made there: once closeScopeInternal is past a driver, that driver    *)
(* holds no process, and no call of it is about to start one.              *)
(***************************************************************************)
EXTENDS ScopeProperties, TLAPS

\* The stages of a turn whose execution has no terminal yet.
Active == {"starting", "spawning", "handshake", "running"}

\* The three calls that may await a process, and who holds one: it is being spawned for a
\* call, or the call shakes hands with it.
Stages(call) == {call.prewarm, call.turn, call.respawn}
Holds(stage) == stage \in {"spawning", "handshake"}

\* Nobody is seated who is no member.
Vacant(entry, driver, call) ==
  /\ entry.busy = None /\ driver.process = "none" /\ Stages(call) = {"none"}
  /\ call.close["scope"] = "none" /\ call.close["create"] = "none" /\ ~ call.closed

\* What the awaits of one seat say of its entry and of each other.
CallRules(entry, call) ==
  /\ call.prewarm # "none" => entry.runtime # "ready" /\ call.turn = "none"
  /\ call.turn # "none" <=> entry.busy # None
  /\ call.turn # "none" => entry.runtime \notin {"ready", "prewarming"}
  /\ Holds(call.prewarm) \/ Holds(call.turn) => ~ Holds(call.respawn)
  /\ call.turn = "running" => call.respawn = "none"
  /\ call.close["create"] # "none" => call.turn = "none" /\ entry.runtime \notin {"ready", "prewarming"}

\* What they say of the process: whose it is, and who takes down one that is leaving.
ProcessRules(driver, call) ==
  /\ "spawning" \in Stages(call) => driver.process = "pending"
  /\ "handshake" \in Stages(call) \/ call.turn = "running" => driver.process \in {"live", "leaving"}
  /\ driver.process = "leaving" => \/ call.respawn = "shutdown"
                                   \/ "shutting" \in {call.close["scope"], call.close["create"]}
  /\ call.turn = "running" /\ driver.process = "leaving" => call.close["scope"] = "shutting"
  /\ "shutting" \in {call.close["scope"], call.close["create"]} =>
       driver.process \in {"none", "leaving"}

\* A driver that nobody closes is not ready while a restart of it is under way, so no turn
\* gets in between.
RestartRules(closing, driver, call) ==
  /\ ~ closing /\ call.respawn \in {"starting", "spawning", "handshake"} =>
       driver.state \notin {"ready", "busy"}
  /\ ~ closing /\ call.respawn = "shutdown" /\ driver.process # "leaving" =>
       driver.state \notin {"ready", "busy"}

\* A driver that is closed may be ready once more when a handshake answers late; but then
\* nobody is about to start a process for it.
CloseRules(closing, driver, call) ==
  /\ call.close["scope"] # "none" \/ call.close["create"] # "none" \/ call.closed => closing
  /\ closing /\ driver.state \notin {"closing", "closed"} =>
       /\ driver.process \in {"none", "leaving"} /\ "starting" \notin Stages(call)
       /\ call.turn # "running" /\ call.respawn # "shutdown"
  /\ closing /\ driver.process = "live" => "handshake" \notin Stages(call)
  /\ call.closed => /\ call.close["scope"] = "none" /\ call.turn # "running"
                    /\ driver.process \in {"none", "leaving"}

SeatRules(member, closing, entry, driver, call) ==
  /\ ~ member => Vacant(entry, driver, call)
  /\ CallRules(entry, call)
  /\ ProcessRules(driver, call)
  /\ RestartRules(closing, driver, call)
  /\ CloseRules(closing, driver, call)

SeatOK(s, p) ==
  SeatRules(p \in scopes[s].members, Closing(s), entries[s][p], drivers[s][p], calls[s][p])

\* A seat that is busy is busy with an execution of its own, which runs for as long as its
\* turn does: only a turn that lost its process to a restart, or was about to start one,
\* is left behind by the release of its scope.
BusyOK(s, p) ==
  LET e == entries[s][p].busy IN
  e # None => /\ executions[e].state # "absent"
              /\ executions[e].scope = s /\ executions[e].participant = p
              /\ calls[s][p].turn \in Active /\ ~ calls[s][p].closed
                   => executions[e].state = "running"

RunningOK(e) ==
  executions[e].state = "running" =>
    /\ executions[e].scope \in ScopeIds /\ executions[e].participant \in Participants
    /\ LET s == executions[e].scope  p == executions[e].participant
       IN entries[s][p].busy = e /\ calls[s][p].turn \in Active

ScopeOK(s) ==
  /\ scopes[s].state = "unused" => scopes[s].request = None /\ scopes[s].members = {}
  /\ scopes[s].state \in {"creating", "active", "closing"} =>
       scopes[s].request \in RequestIds /\ index[scopes[s].request] = s
  /\ scopes[s].state = "closed" => \A p \in scopes[s].members : calls[s][p].closed

SeatsInv == /\ ScopeTypeOK
            /\ \A s \in ScopeIds : ScopeOK(s)
            /\ \A s \in ScopeIds, p \in Participants : SeatOK(s, p) /\ BusyOK(s, p)
            /\ \A e \in ExecutionIds : RunningOK(e)

-----------------------------------------------------------------------------
(* A step of one seat.                                                     *)

\* What a write to one seat leaves: a value there and every other seat as it was.
LEMMA SeatWritten ==
  ASSUME NEW R, NEW f \in [ScopeIds -> [Participants -> R]], NEW s \in ScopeIds,
         NEW p \in Participants, NEW v, NEW g, g = [f EXCEPT ![s][p] = v]
  PROVE  /\ g[s][p] = v
         /\ \A t \in ScopeIds, q \in Participants : t # s \/ q # p => g[t][q] = f[t][q]
         /\ v \in R => g \in [ScopeIds -> [Participants -> R]]
OBVIOUS

OtherSeats(s, p) ==
  \A t \in ScopeIds, q \in Participants : t # s \/ q # p =>
    /\ entries'[t][q] = entries[t][q]
    /\ drivers'[t][q] = drivers[t][q]
    /\ calls'[t][q] = calls[t][q]

SameScopes == \A t \in ScopeIds : /\ scopes'[t].state = scopes[t].state
                                 /\ scopes'[t].members = scopes[t].members
                                 /\ scopes'[t].request = scopes[t].request

\* What becomes of the turn and its record when entry and call are written: the turn goes
\* on, is over already, or gets its terminal.
TurnGoesOn(s, p, entry, call) ==
  /\ executions' = executions /\ entry.busy = entries[s][p].busy
  /\ calls[s][p].turn \in Active <=> call.turn \in Active
TurnIsOver(s, p, entry, call) ==
  /\ executions' = executions /\ entry.busy = None
  /\ calls[s][p].turn \notin Active /\ call.turn \notin Active
TurnGetsTerminal(s, p, entry, call) ==
  /\ Terminal(entries[s][p].busy) /\ entry.busy = entries[s][p].busy
  /\ calls[s][p].turn \in Active /\ call.turn \notin Active
TurnMoves(s, p, entry, call) ==
  \/ TurnGoesOn(s, p, entry, call) \/ TurnIsOver(s, p, entry, call)
  \/ TurnGetsTerminal(s, p, entry, call)

\* A step of one seat leaves the rules of every other seat and of every scope alone.
LEMMA OneSeatMoves ==
  ASSUME SeatsInv, NEW s \in ScopeIds, NEW p \in Participants,
         OtherSeats(s, p), SameScopes, UNCHANGED index, SeatOK(s, p)',
         calls[s][p].closed => calls'[s][p].closed
  PROVE  /\ \A t \in ScopeIds, q \in Participants : SeatOK(t, q)'
         /\ \A t \in ScopeIds : ScopeOK(t)'
<1> USE DEF SeatsInv
<1>1. \A t \in ScopeIds, q \in Participants : SeatOK(t, q)'
  <2>1. ASSUME NEW t \in ScopeIds, NEW q \in Participants, t # s \/ q # p
        PROVE  SeatOK(t, q)'
    BY <2>1 DEF OtherSeats, SameScopes, SeatOK, Closing
  <2>2. QED
    BY <2>1
<1>2. \A t \in ScopeIds : ScopeOK(t)'
  <2>1. \A t \in ScopeIds, q \in Participants : calls[t][q].closed => calls'[t][q].closed
    BY DEF OtherSeats
  <2>2. \A t \in ScopeIds : scopes[t].members \subseteq Participants
    BY DEF ScopeTypeOK, Scopes
  <2>3. ASSUME NEW t \in ScopeIds
        PROVE  ScopeOK(t)'
    <3>1. ScopeOK(t)
      OBVIOUS
    <3>2. QED
      BY <2>1, <2>2, <3>1 DEF ScopeOK, SameScopes
  <2>4. QED
    BY <2>3
<1>3. QED
  BY <1>1, <1>2

LEMMA SeatStep ==
  ASSUME SeatsInv, ScopeTypeOK', NEW s \in ScopeIds, NEW p \in Participants,
         OtherSeats(s, p), SameScopes, UNCHANGED index, SeatOK(s, p)',
         calls[s][p].closed => calls'[s][p].closed,
         TurnMoves(s, p, entries'[s][p], calls'[s][p])
  PROVE  SeatsInv'
<1> USE DEF SeatsInv
<1>1. \A t \in ScopeIds, q \in Participants : SeatOK(t, q)'
  BY OneSeatMoves
<1>2. \A t \in ScopeIds : ScopeOK(t)'
  BY OneSeatMoves
<1>3. /\ \A e \in ExecutionIds : /\ executions'[e].scope = executions[e].scope
                                 /\ executions'[e].participant = executions[e].participant
                                 /\ executions[e].state # "absent" => executions'[e].state # "absent"
                                 /\ executions'[e].state = "running" => executions[e].state = "running"
      /\ \A t \in ScopeIds, q \in Participants : entries[t][q].busy \in ExecutionIds \cup {None}
  <2>1. \A t \in ScopeIds, q \in Participants : entries[t][q].busy \in ExecutionIds \cup {None}
    BY DEF ScopeTypeOK, Entries
  <2>2. CASE executions' = executions
    BY <2>1, <2>2
  <2>3. CASE Terminal(entries[s][p].busy)
    BY <2>1, <2>3 DEF Terminal, ScopeTypeOK, Executions
  <2>4. QED
    BY <2>2, <2>3 DEF TurnMoves, TurnGoesOn, TurnIsOver, TurnGetsTerminal
<1>4. CASE \/ TurnGoesOn(s, p, entries'[s][p], calls'[s][p])
           \/ TurnIsOver(s, p, entries'[s][p], calls'[s][p])
  <2>1. \A t \in ScopeIds, q \in Participants : BusyOK(t, q)'
    <3>1. ASSUME NEW t \in ScopeIds, NEW q \in Participants, t # s \/ q # p
          PROVE  BusyOK(t, q)'
      BY <1>4, <3>1 DEF BusyOK, OtherSeats, TurnGoesOn, TurnIsOver
    <3>2. BusyOK(s, p)'
      BY <1>4, NoneIsNoId DEF BusyOK, TurnGoesOn, TurnIsOver, Active
    <3>3. QED
      BY <3>1, <3>2
  <2>2. \A e \in ExecutionIds : RunningOK(e)'
    BY <1>4 DEF RunningOK, OtherSeats, TurnGoesOn, TurnIsOver
  <2>3. QED
    BY <1>1, <1>2, <2>1, <2>2
<1>5. CASE TurnGetsTerminal(s, p, entries'[s][p], calls'[s][p])
  <2> DEFINE b == entries[s][p].busy
  <2>1. b # None /\ b \in ExecutionIds /\ executions[b].scope = s /\ executions[b].participant = p
    BY <1>3, <1>5 DEF TurnGetsTerminal, SeatOK, SeatRules, CallRules, BusyOK, Active
  <2>2. /\ executions'[b].state # "running"
        /\ \A e \in ExecutionIds \ {b} : executions'[e] = executions[e]
    BY <1>5, <2>1 DEF TurnGetsTerminal, Terminal, ScopeTypeOK, Executions
  <2>3. \A t \in ScopeIds, q \in Participants : BusyOK(t, q)'
    <3>1. ASSUME NEW t \in ScopeIds, NEW q \in Participants, t # s \/ q # p
          PROVE  BusyOK(t, q)'
      <4>1. entries[t][q].busy # b
        BY <2>1, <3>1 DEF BusyOK
      <4>2. QED
        BY <1>3, <2>2, <3>1, <4>1 DEF BusyOK, OtherSeats
    <3>2. BusyOK(s, p)'
      BY <1>3, <1>5, <2>1 DEF BusyOK, TurnGetsTerminal, Active
    <3>3. QED
      BY <3>1, <3>2
  <2>4. \A e \in ExecutionIds : RunningOK(e)'
    <3>1. ASSUME NEW e \in ExecutionIds, executions'[e].state = "running"
          PROVE  RunningOK(e)'
      <4>1. e # b /\ executions[e].state = "running" /\ executions'[e] = executions[e]
        BY <2>2, <3>1
      <4>2. executions[e].scope # s \/ executions[e].participant # p
        BY <4>1 DEF RunningOK
      <4>3. QED
        BY <4>1, <4>2 DEF RunningOK, OtherSeats
    <3>2. QED
      BY <3>1 DEF RunningOK
  <2>5. QED
    BY <1>1, <1>2, <2>3, <2>4
<1>6. QED
  BY <1>4, <1>5 DEF TurnMoves

\* The step writes entry, driver and call to the seat, or leaves what it does not write.
Writes(s, p, entry, driver, call) ==
  /\ SetEntry(s, p, entry) \/ (entries' = entries /\ entry = entries[s][p])
  /\ SetDriver(s, p, driver) \/ (drivers' = drivers /\ driver = drivers[s][p])
  /\ SetCall(s, p, call) \/ (calls' = calls /\ call = calls[s][p])

LEMMA WritesFacts ==
  ASSUME SeatsInv, NEW s \in ScopeIds, NEW p \in Participants,
         NEW entry \in Entries, NEW driver \in Drivers, NEW call \in Calls,
         Writes(s, p, entry, driver, call)
  PROVE  /\ entries'[s][p] = entry /\ drivers'[s][p] = driver /\ calls'[s][p] = call
         /\ OtherSeats(s, p)
         /\ entries' \in [ScopeIds -> [Participants -> Entries]]
         /\ drivers' \in [ScopeIds -> [Participants -> Drivers]]
         /\ calls' \in [ScopeIds -> [Participants -> Calls]]
<1>1. /\ entries'[s][p] = entry
      /\ entries' \in [ScopeIds -> [Participants -> Entries]]
      /\ \A t \in ScopeIds, q \in Participants : t # s \/ q # p => entries'[t][q] = entries[t][q]
  <2>1. entries \in [ScopeIds -> [Participants -> Entries]]
    BY DEF SeatsInv, ScopeTypeOK
  <2>2. CASE SetEntry(s, p, entry)
    BY <2>1, <2>2, SeatWritten DEF SetEntry
  <2>3. CASE entries' = entries /\ entry = entries[s][p]
    BY <2>1, <2>3
  <2>4. QED
    BY <2>2, <2>3 DEF Writes
<1>2. /\ drivers'[s][p] = driver
      /\ drivers' \in [ScopeIds -> [Participants -> Drivers]]
      /\ \A t \in ScopeIds, q \in Participants : t # s \/ q # p => drivers'[t][q] = drivers[t][q]
  <2>1. drivers \in [ScopeIds -> [Participants -> Drivers]]
    BY DEF SeatsInv, ScopeTypeOK
  <2>2. CASE SetDriver(s, p, driver)
    BY <2>1, <2>2, SeatWritten DEF SetDriver
  <2>3. CASE drivers' = drivers /\ driver = drivers[s][p]
    BY <2>1, <2>3
  <2>4. QED
    BY <2>2, <2>3 DEF Writes
<1>3. /\ calls'[s][p] = call
      /\ calls' \in [ScopeIds -> [Participants -> Calls]]
      /\ \A t \in ScopeIds, q \in Participants : t # s \/ q # p => calls'[t][q] = calls[t][q]
  <2>1. calls \in [ScopeIds -> [Participants -> Calls]]
    BY DEF SeatsInv, ScopeTypeOK
  <2>2. CASE SetCall(s, p, call)
    BY <2>1, <2>2, SeatWritten DEF SetCall
  <2>3. CASE calls' = calls /\ call = calls[s][p]
    BY <2>1, <2>3
  <2>4. QED
    BY <2>2, <2>3 DEF Writes
<1>4. QED
  BY <1>1, <1>2, <1>3 DEF OtherSeats

LEMMA SweepFacts ==
  ASSUME SeatsInv, NEW s \in ScopeIds,
         \/ scopes' = scopes \/ scopes' = scheduleIdleSweep(s)
         \/ scopes' = [scopes EXCEPT ![s].idleTimer = TRUE]
  PROVE  SameScopes /\ scopes' \in [ScopeIds -> Scopes]
<1>1. scopes \in [ScopeIds -> Scopes]
  BY DEF SeatsInv, ScopeTypeOK
<1>2. CASE scopes' = [scopes EXCEPT ![s].idleTimer = TRUE]
  <2>1. [scopes[s] EXCEPT !.idleTimer = TRUE] \in Scopes
    BY <1>1 DEF Scopes
  <2>2. scopes' \in [ScopeIds -> Scopes]
    BY <1>1, <1>2, <2>1
  <2>3. SameScopes
    BY <1>1, <1>2 DEF SameScopes, Scopes
  <2>4. QED
    BY <2>2, <2>3
<1>3. QED
  BY <1>1, <1>2 DEF scheduleIdleSweep, SameScopes

LEMMA SeatAction ==
  ASSUME SeatsInv, NEW s \in ScopeIds, NEW p \in Participants,
         NEW entry \in Entries, NEW driver \in Drivers, NEW call \in Calls,
         Writes(s, p, entry, driver, call),
         scopes' = scopes \/ scopes' = scheduleIdleSweep(s), UNCHANGED index,
         SeatRules(p \in scopes[s].members, Closing(s), entry, driver, call),
         calls[s][p].closed => call.closed,
         TurnMoves(s, p, entry, call)
  PROVE  SeatsInv'
<1>1. ScopeTypeOK
  BY DEF SeatsInv
<1>2. /\ entries'[s][p] = entry /\ drivers'[s][p] = driver /\ calls'[s][p] = call
      /\ OtherSeats(s, p)
      /\ entries' \in [ScopeIds -> [Participants -> Entries]]
      /\ drivers' \in [ScopeIds -> [Participants -> Drivers]]
      /\ calls' \in [ScopeIds -> [Participants -> Calls]]
  BY WritesFacts
<1>3. SameScopes /\ scopes' \in [ScopeIds -> Scopes]
  BY SweepFacts
<1>4. executions' \in [ExecutionIds -> Executions]
  <2>1. executions \in [ExecutionIds -> Executions]
    BY <1>1 DEF ScopeTypeOK
  <2>2. Terminal(entries[s][p].busy) => executions' \in [ExecutionIds -> Executions]
    <3>1. \A e \in ExecutionIds : [executions[e] EXCEPT !.state = "terminal"] \in Executions
      BY <2>1 DEF Executions
    <3>2. QED
      BY <2>1, <3>1 DEF Terminal
  <2>3. QED
    BY <2>1, <2>2 DEF TurnMoves, TurnGoesOn, TurnIsOver, TurnGetsTerminal
<1>5. ScopeTypeOK'
  BY <1>1, <1>2, <1>3, <1>4 DEF ScopeTypeOK
<1>6. SeatOK(s, p)'
  BY <1>2, <1>3 DEF SeatOK, SameScopes, Closing
<1>7. QED
  BY <1>2, <1>3, <1>5, <1>6, SeatStep

-----------------------------------------------------------------------------
(* The steps of a seat, one by one.                                        *)

LEMMA SeatFacts ==
  ASSUME SeatsInv, NEW s \in ScopeIds, NEW p \in Participants
  PROVE  /\ entries[s][p] \in Entries /\ drivers[s][p] \in Drivers /\ calls[s][p] \in Calls
         /\ SeatRules(p \in scopes[s].members, Closing(s), entries[s][p], drivers[s][p], calls[s][p])
         /\ BusyOK(s, p)
BY DEF SeatsInv, ScopeTypeOK, SeatOK

LEMMA AtStageFacts ==
  ASSUME NEW call \in Calls, NEW c \in Callers, NEW stage \in {"spawning", "handshake"}
  PROVE  /\ AtStage(call, c, stage) \in Calls
         /\ AtStage(call, c, stage).close = call.close
         /\ AtStage(call, c, stage).closed = call.closed
         /\ AtStage(call, c, stage).prewarm = IF c = "prewarm" THEN stage ELSE call.prewarm
         /\ AtStage(call, c, stage).turn = IF c = "turn" THEN stage ELSE call.turn
         /\ AtStage(call, c, stage).respawn = IF c = "respawn" THEN stage ELSE call.respawn
BY DEF AtStage, Calls, Callers

\* A Host that starts: its records and what the rules say of a seat nobody has.
FreshRecords ==
  /\ Unused \in Scopes /\ ColdEntry \in Entries /\ ColdDriver \in Drivers /\ NoCalls \in Calls
  /\ [state |-> "absent", scope |-> None, participant |-> None] \in Executions
  /\ SeatRules(FALSE, FALSE, ColdEntry, ColdDriver, NoCalls)

LEMMA FreshRecordsHold == FreshRecords
<1>1. /\ Unused \in Scopes /\ ColdEntry \in Entries /\ ColdDriver \in Drivers /\ NoCalls \in Calls
      /\ [state |-> "absent", scope |-> None, participant |-> None] \in Executions
  BY EpochAssumption
  DEF Unused, Scopes, ColdEntry, Entries, ColdDriver, Drivers, NoCalls, Calls, Executions
<1>2. /\ ColdEntry.busy = None /\ ColdEntry.runtime = "cold"
      /\ ColdDriver.process = "none" /\ ColdDriver.state = "cold"
      /\ NoCalls.prewarm = "none" /\ NoCalls.turn = "none" /\ NoCalls.respawn = "none"
      /\ NoCalls.close["scope"] = "none" /\ NoCalls.close["create"] = "none" /\ ~ NoCalls.closed
  BY DEF ColdEntry, ColdDriver, NoCalls
<1>3. SeatRules(FALSE, FALSE, ColdEntry, ColdDriver, NoCalls)
  BY <1>2
  DEF SeatRules, Vacant, CallRules, ProcessRules, RestartRules, CloseRules, Stages, Holds
<1>4. QED
  BY <1>1, <1>3 DEF FreshRecords

LEMMA SeatsInit == Init => SeatsInv
<1> SUFFICES ASSUME Init
             PROVE  SeatsInv
  OBVIOUS
<1>1. FreshRecords
  BY FreshRecordsHold
<1> USE DEF Init, FreshScopes, FreshIndex, FreshEntries, FreshDrivers, FreshCalls, FreshExecutions
<1>2. ScopeTypeOK
  BY <1>1 DEF ScopeTypeOK, FreshRecords
<1>3. ASSUME NEW s \in ScopeIds
      PROVE  ScopeOK(s)
  BY DEF Unused, ScopeOK
<1>4. ASSUME NEW s \in ScopeIds, NEW p \in Participants
      PROVE  SeatOK(s, p) /\ BusyOK(s, p)
  <2>1. /\ entries[s][p] = ColdEntry /\ drivers[s][p] = ColdDriver /\ calls[s][p] = NoCalls
        /\ p \notin scopes[s].members /\ ~ Closing(s) /\ ColdEntry.busy = None
    BY DEF Closing, Unused, ColdEntry
  <2>2. QED
    BY <1>1, <2>1 DEF FreshRecords, SeatOK, BusyOK, SeatRules, RestartRules, CloseRules
<1>5. \A e \in ExecutionIds : RunningOK(e)
  BY DEF RunningOK
<1>6. QED
  BY <1>2, <1>3, <1>4, <1>5 DEF SeatsInv

\* The Host of the next life is the one that Init describes.
LEMMA HostDiesStep == HostDies => SeatsInv'
<1>1. Init' => SeatsInv'
  BY SeatsInit, PTL
<1>2. HostDies => Init'
  BY DEF HostDies, Init
<1>3. QED
  BY <1>1, <1>2

\* What a rejected spawn or handshake may leave of the driver.
Leaves(driver, left, stage) ==
  /\ \/ left.state = driver.state
     \/ left.state = "cold" /\ driver.state \notin {"closing", "closed"}
  /\ \/ left.process = driver.process
     \/ /\ left.process = "none" /\ stage \in {"spawning", "handshake"}
        /\ left.state \notin {"ready", "busy"}

LEMMA RejectedStep ==
  ASSUME SeatsInv, NEW s \in ScopeIds, NEW p \in Participants, NEW c \in Callers,
         NEW runtime \in {"cold", "failed"}, NEW driver \in Drivers,
         Stage(calls[s][p], c) \in {"starting", "spawning", "handshake"},
         Rejected(s, p, c, runtime, driver),
         Leaves(drivers[s][p], driver, Stage(calls[s][p], c))
  PROVE  SeatsInv'
<1> DEFINE n == entries[s][p]  d == drivers[s][p]  k == calls[s][p]
<1>1. /\ n \in Entries /\ d \in Drivers /\ k \in Calls
      /\ SeatRules(p \in scopes[s].members, Closing(s), n, d, k)
  BY SeatFacts
<1>2. CASE c = "prewarm"
  <2> DEFINE entry == [n EXCEPT !.runtime = runtime,
                                !.bound = IF runtime = "cold" THEN FALSE ELSE @]
             call  == [k EXCEPT !.prewarm = "none"]
  <2>1. /\ SetEntry(s, p, entry) /\ SetCall(s, p, call) /\ SetDriver(s, p, driver)
        /\ UNCHANGED <<scopes, index, executions>>
        /\ k.prewarm \in {"starting", "spawning", "handshake"}
        /\ Stage(calls[s][p], c) = k.prewarm
    BY <1>2 DEF Rejected, Stage
  <2>2. /\ entry \in Entries /\ call \in Calls
        /\ entry.busy = n.busy /\ entry.runtime = runtime
        /\ call.prewarm = "none" /\ call.turn = k.turn /\ call.respawn = k.respawn
        /\ call.close = k.close /\ call.closed = k.closed
    BY <1>1 DEF Entries, Calls
  <2>3. Leaves(d, driver, k.prewarm)
    BY <2>1
  <2> HIDE DEF entry, call
  <2>4. SeatRules(p \in scopes[s].members, Closing(s), entry, driver, call)
    BY <1>1, <2>1, <2>2, <2>3
    DEF SeatRules, Vacant, CallRules, ProcessRules, RestartRules, CloseRules, Stages, Holds, Leaves
  <2>5. TurnMoves(s, p, entry, call)
    BY <2>1, <2>2 DEF TurnMoves, TurnGoesOn
  <2>6. Writes(s, p, entry, driver, call)
    BY <2>1 DEF Writes
  <2>7. QED
    BY <2>1, <2>2, <2>4, <2>5, <2>6, SeatAction
<1>3. CASE c = "turn"
  <2> DEFINE call == [k EXCEPT !.turn = "settled"]
  <2>1. /\ emitAndSweep(s, n.busy) /\ SetCall(s, p, call) /\ SetDriver(s, p, driver)
        /\ UNCHANGED <<index, entries>>
        /\ k.turn \in {"starting", "spawning", "handshake"}
        /\ Stage(calls[s][p], c) = k.turn
    BY <1>3 DEF Rejected, RetryFailed, Stage
  <2>2. /\ call \in Calls
        /\ call.prewarm = k.prewarm /\ call.turn = "settled" /\ call.respawn = k.respawn
        /\ call.close = k.close /\ call.closed = k.closed
    BY <1>1 DEF Calls
  <2>3. Leaves(d, driver, k.turn)
    BY <2>1
  <2> HIDE DEF call
  <2>4. SeatRules(p \in scopes[s].members, Closing(s), n, driver, call)
    BY <1>1, <2>1, <2>2, <2>3
    DEF SeatRules, Vacant, CallRules, ProcessRules, RestartRules, CloseRules, Stages, Holds, Leaves
  <2>5. TurnMoves(s, p, n, call)
    BY <2>1, <2>2 DEF TurnMoves, TurnGetsTerminal, Active, emitAndSweep
  <2>6. Writes(s, p, n, driver, call)
    BY <2>1 DEF Writes
  <2>7. scopes' = scopes \/ scopes' = scheduleIdleSweep(s)
    BY <2>1 DEF emitAndSweep
  <2>8. QED
    BY <1>1, <2>1, <2>2, <2>4, <2>5, <2>6, <2>7, SeatAction
<1>4. CASE c = "respawn" /\ ~ HostDies
  <2> DEFINE call == [k EXCEPT !.respawn = "none"]
  <2>1. /\ SetCall(s, p, call) /\ SetDriver(s, p, driver)
        /\ UNCHANGED <<scopes, index, entries, executions>>
        /\ k.respawn \in {"starting", "spawning", "handshake"}
        /\ Stage(calls[s][p], c) = k.respawn
    BY <1>4 DEF Rejected, Stage
  <2>2. /\ call \in Calls
        /\ call.prewarm = k.prewarm /\ call.turn = k.turn /\ call.respawn = "none"
        /\ call.close = k.close /\ call.closed = k.closed
    BY <1>1 DEF Calls
  <2>3. Leaves(d, driver, k.respawn)
    BY <2>1
  <2> HIDE DEF call
  <2>4. SeatRules(p \in scopes[s].members, Closing(s), n, driver, call)
    BY <1>1, <2>1, <2>2, <2>3
    DEF SeatRules, Vacant, CallRules, ProcessRules, RestartRules, CloseRules, Stages, Holds, Leaves
  <2>5. TurnMoves(s, p, n, call)
    BY <2>1, <2>2 DEF TurnMoves, TurnGoesOn
  <2>6. Writes(s, p, n, driver, call)
    BY <2>1 DEF Writes
  <2>7. QED
    BY <1>1, <2>1, <2>2, <2>4, <2>5, <2>6, SeatAction
<1>5. CASE HostDies
  BY <1>5, HostDiesStep
<1>6. QED
  BY <1>2, <1>3, <1>4, <1>5 DEF Callers

\* A driver whose prewarm failed is cold, and every other as it was.
LEMMA AfterFailureFacts ==
  ASSUME SeatsInv, NEW s \in ScopeIds, NEW p \in Participants, NEW c \in Callers, NEW stage
  PROVE  /\ AfterFailure(s, p, c) \in Drivers
         /\ Leaves(drivers[s][p], AfterFailure(s, p, c), stage)
BY SeatFacts DEF AfterFailure, isClosingOrClosed, Leaves, Drivers

LEMMA spawnBeginsStep ==
  ASSUME SeatsInv, NEW s \in ScopeIds, NEW p \in Participants, NEW c \in Callers,
         spawnBegins(s, p, c)
  PROVE  SeatsInv'
<1> DEFINE n == entries[s][p]  d == drivers[s][p]  k == calls[s][p]
<1>1. /\ n \in Entries /\ d \in Drivers /\ k \in Calls /\ Stage(k, c) = "starting"
      /\ SeatRules(p \in scopes[s].members, Closing(s), n, d, k)
  BY SeatFacts DEF spawnBegins
<1>2. CASE Rejected(s, p, c, "cold", d)
  BY <1>1, <1>2, RejectedStep DEF Leaves
<1>3. CASE Rejected(s, p, c, "failed", AfterFailure(s, p, c))
  BY <1>1, <1>3, RejectedStep, AfterFailureFacts
<1>4. CASE /\ CanSpawn(s, p) /\ ~ Duplicate(p)
           /\ SetDriver(s, p, [d EXCEPT !.process = "pending"])
           /\ SetCall(s, p, AtStage(k, c, "spawning"))
           /\ UNCHANGED <<scopes, index, entries, executions>>
  <2> DEFINE driver == [d EXCEPT !.process = "pending"]  call == AtStage(k, c, "spawning")
  <2>1. driver \in Drivers /\ driver.process = "pending" /\ driver.state = d.state
    BY <1>1 DEF Drivers
  <2>2. d.state \notin {"closing", "closed"} /\ d.process = "none"
    BY <1>4 DEF CanSpawn, isClosingOrClosed, Duplicate
  <2>3. "starting" \in Stages(k)
    BY <1>1 DEF Stage, Stages
  <2>4. /\ call \in Calls /\ call.close = k.close /\ call.closed = k.closed
        /\ call.prewarm = IF c = "prewarm" THEN "spawning" ELSE k.prewarm
        /\ call.turn = IF c = "turn" THEN "spawning" ELSE k.turn
        /\ call.respawn = IF c = "respawn" THEN "spawning" ELSE k.respawn
    BY <1>1, AtStageFacts
  <2>5. /\ c = "prewarm" => k.prewarm = "starting"
        /\ c = "turn" => k.turn = "starting"
        /\ c = "respawn" => k.respawn = "starting"
    BY <1>1 DEF Stage
  <2>6. Writes(s, p, n, driver, call)
    BY <1>4 DEF Writes
  <2> HIDE DEF driver, call
  <2>7. SeatRules(p \in scopes[s].members, Closing(s), n, driver, call)
    BY <1>1, <2>1, <2>2, <2>3, <2>4, <2>5
    DEF SeatRules, Vacant, CallRules, ProcessRules, RestartRules, CloseRules, Stages, Holds, Callers
  <2>8. TurnMoves(s, p, n, call)
    BY <1>4, <2>4, <2>5 DEF TurnMoves, TurnGoesOn, Active
  <2>9. QED
    BY <1>1, <1>4, <2>1, <2>4, <2>6, <2>7, <2>8, SeatAction
<1>5. QED
  BY <1>2, <1>3, <1>4 DEF spawnBegins

LEMMA spawnLandsStep ==
  ASSUME SeatsInv, NEW s \in ScopeIds, NEW p \in Participants, NEW c \in Callers,
         spawnLands(s, p, c)
  PROVE  SeatsInv'
<1> DEFINE n == entries[s][p]  d == drivers[s][p]  k == calls[s][p]
<1>1. /\ n \in Entries /\ d \in Drivers /\ k \in Calls /\ Stage(k, c) = "spawning"
      /\ SeatRules(p \in scopes[s].members, Closing(s), n, d, k)
  BY SeatFacts DEF spawnLands
<1>2. CASE /\ MayAdopt(s, p)
           /\ SetDriver(s, p, [d EXCEPT !.process = "live"])
           /\ SetCall(s, p, AtStage(k, c, "handshake"))
           /\ UNCHANGED <<scopes, index, entries, executions>>
  <2> DEFINE driver == [d EXCEPT !.process = "live"]  call == AtStage(k, c, "handshake")
  <2>1. driver \in Drivers /\ driver.process = "live" /\ driver.state = d.state
    BY <1>1 DEF Drivers
  <2>2. d.state \notin {"closing", "closed"}
    BY <1>2 DEF MayAdopt, isClosingOrClosed
  <2>3. /\ call \in Calls /\ call.close = k.close /\ call.closed = k.closed
        /\ call.prewarm = IF c = "prewarm" THEN "handshake" ELSE k.prewarm
        /\ call.turn = IF c = "turn" THEN "handshake" ELSE k.turn
        /\ call.respawn = IF c = "respawn" THEN "handshake" ELSE k.respawn
    BY <1>1, AtStageFacts
  <2>4. /\ c = "prewarm" => k.prewarm = "spawning"
        /\ c = "turn" => k.turn = "spawning"
        /\ c = "respawn" => k.respawn = "spawning"
        /\ "spawning" \in Stages(k)
    BY <1>1 DEF Stage, Stages
  <2>5. Writes(s, p, n, driver, call)
    BY <1>2 DEF Writes
  <2> HIDE DEF driver, call
  <2>6. SeatRules(p \in scopes[s].members, Closing(s), n, driver, call)
    BY <1>1, <2>1, <2>2, <2>3, <2>4
    DEF SeatRules, Vacant, CallRules, ProcessRules, RestartRules, CloseRules, Stages, Holds, Callers
  <2>7. TurnMoves(s, p, n, call)
    BY <1>2, <2>3, <2>4 DEF TurnMoves, TurnGoesOn, Active
  <2>8. QED
    BY <1>1, <1>2, <2>1, <2>3, <2>5, <2>6, <2>7, SeatAction
<1>3. CASE ~ MayAdopt(s, p) /\ Rejected(s, p, c, "cold", [d EXCEPT !.process = "none"])
  <2> DEFINE driver == [d EXCEPT !.process = "none"]
  <2>1. driver \in Drivers /\ driver.process = "none" /\ driver.state = d.state
    BY <1>1 DEF Drivers
  <2>2. d.state \in {"closing", "closed"}
    BY <1>3 DEF MayAdopt, isClosingOrClosed
  <2>3. Leaves(d, driver, "spawning")
    BY <2>1, <2>2 DEF Leaves
  <2> HIDE DEF driver
  <2>4. QED
    BY <1>1, <1>3, <2>1, <2>3, RejectedStep DEF driver
<1>4. QED
  BY <1>2, <1>3 DEF spawnLands

LEMMA handshakeFailsStep ==
  ASSUME SeatsInv, NEW s \in ScopeIds, NEW p \in Participants, NEW c \in Callers,
         handshakeFails(s, p, c)
  PROVE  SeatsInv'
BY RejectedStep, AfterFailureFacts DEF handshakeFails

LEMMA prewarmResolvesStep ==
  ASSUME SeatsInv, NEW s \in ScopeIds, NEW p \in Participants, prewarmResolves(s, p)
  PROVE  SeatsInv'
<1> DEFINE n == entries[s][p]  d == drivers[s][p]  k == calls[s][p]
           call == [k EXCEPT !.prewarm = "none"]
<1>1. /\ n \in Entries /\ d \in Drivers /\ k \in Calls
      /\ SeatRules(p \in scopes[s].members, Closing(s), n, d, k)
      /\ UNCHANGED <<scopes, index, executions>> /\ SetCall(s, p, call)
  BY SeatFacts DEF prewarmResolves
<1>2. /\ k.prewarm = "handshake" /\ k.turn # "starting" /\ k.respawn \notin {"starting", "shutdown"}
  BY DEF prewarmResolves, HandshakeAnswers, Stage, Callers
<1>3. /\ call \in Calls
      /\ call.prewarm = "none" /\ call.turn = k.turn /\ call.respawn = k.respawn
      /\ call.close = k.close /\ call.closed = k.closed
  BY <1>1 DEF Calls
<1> HIDE DEF call
<1>4. ASSUME NEW bound \in BOOLEAN, Open(s),
             SetEntry(s, p, [n EXCEPT !.bound = bound, !.runtime = Landed(bound)]),
             SetDriver(s, p, [d EXCEPT !.state = "ready"])
      PROVE  SeatsInv'
  <2> DEFINE entry  == [n EXCEPT !.bound = bound, !.runtime = Landed(bound)]
             driver == [d EXCEPT !.state = "ready"]
  <2>1. /\ entry \in Entries /\ driver \in Drivers
        /\ entry.busy = n.busy /\ driver.process = d.process /\ driver.state = "ready"
    BY <1>1 DEF Entries, Drivers, Landed
  <2>2. ~ Closing(s)
    BY <1>4 DEF Open, Closing
  <2>3. Writes(s, p, entry, driver, call)
    BY <1>1, <1>4 DEF Writes
  <2> HIDE DEF entry, driver
  <2>4. SeatRules(p \in scopes[s].members, Closing(s), entry, driver, call)
    BY <1>1, <1>2, <1>3, <2>1, <2>2
    DEF SeatRules, Vacant, CallRules, ProcessRules, RestartRules, CloseRules, Stages, Holds
  <2>5. TurnMoves(s, p, entry, call)
    BY <1>1, <1>3, <2>1 DEF TurnMoves, TurnGoesOn
  <2>6. QED
    BY <1>1, <1>3, <2>1, <2>3, <2>4, <2>5, SeatAction
<1>5. CASE /\ ~ Open(s)
           /\ SetEntry(s, p, [n EXCEPT !.runtime = "cold", !.bound = FALSE])
           /\ SetDriver(s, p, [d EXCEPT !.state = "closed"])
  <2> DEFINE entry  == [n EXCEPT !.runtime = "cold", !.bound = FALSE]
             driver == [d EXCEPT !.state = "closed"]
  <2>1. /\ entry \in Entries /\ driver \in Drivers
        /\ entry.busy = n.busy /\ entry.runtime = "cold"
        /\ driver.process = d.process /\ driver.state = "closed"
    BY <1>1 DEF Entries, Drivers
  <2>2. Writes(s, p, entry, driver, call)
    BY <1>1, <1>5 DEF Writes
  <2> HIDE DEF entry, driver
  <2>3. SeatRules(p \in scopes[s].members, Closing(s), entry, driver, call)
    BY <1>1, <1>2, <1>3, <2>1
    DEF SeatRules, Vacant, CallRules, ProcessRules, RestartRules, CloseRules, Stages, Holds
  <2>4. TurnMoves(s, p, entry, call)
    BY <1>1, <1>3, <2>1 DEF TurnMoves, TurnGoesOn
  <2>5. QED
    BY <1>1, <1>3, <2>1, <2>2, <2>3, <2>4, SeatAction
<1>6. QED
  BY <1>4, <1>5 DEF prewarmResolves


LEMMA respawnStartsStep ==
  ASSUME SeatsInv, NEW s \in ScopeIds, NEW p \in Participants, respawnStarts(s, p)
  PROVE  SeatsInv'
<1> DEFINE n == entries[s][p]  d == drivers[s][p]  k == calls[s][p]
<1>1. /\ n \in Entries /\ d \in Drivers /\ k \in Calls
      /\ SeatRules(p \in scopes[s].members, Closing(s), n, d, k)
      /\ UNCHANGED <<scopes, index, entries, executions>>
      /\ k.respawn = "shutdown" /\ d.process # "leaving"
  BY SeatFacts DEF respawnStarts
<1>2. PICK respawn \in {"none", "starting"}, state \in {d.state, "starting"} :
        /\ SetCall(s, p, [k EXCEPT !.respawn = respawn])
        /\ SetDriver(s, p, [d EXCEPT !.state = state]) \/ (drivers' = drivers /\ state = d.state)
        /\ respawn = "starting" => d.state \notin {"closing", "closed"} /\ state = "starting"
        /\ respawn = "none" => state = d.state
  BY DEF respawnStarts, isClosingOrClosed
<1> DEFINE driver == [d EXCEPT !.state = state]  call == [k EXCEPT !.respawn = respawn]
<1>3. driver \in Drivers /\ driver.process = d.process /\ driver.state = state
  BY <1>1, <1>2 DEF Drivers
<1>4. /\ call \in Calls
      /\ call.prewarm = k.prewarm /\ call.turn = k.turn /\ call.respawn = respawn
      /\ call.close = k.close /\ call.closed = k.closed
  BY <1>1, <1>2 DEF Calls
<1>5. Writes(s, p, n, driver, call)
  <2>1. state = d.state => driver = d
    BY <1>1 DEF Drivers
  <2>2. QED
    BY <1>1, <1>2, <2>1 DEF Writes
<1> HIDE DEF driver, call
<1>6. SeatRules(p \in scopes[s].members, Closing(s), n, driver, call)
  BY <1>1, <1>2, <1>3, <1>4
  DEF SeatRules, Vacant, CallRules, ProcessRules, RestartRules, CloseRules, Stages, Holds
<1>7. TurnMoves(s, p, n, call)
  BY <1>1, <1>4 DEF TurnMoves, TurnGoesOn
<1>8. QED
  BY <1>1, <1>3, <1>4, <1>5, <1>6, <1>7, SeatAction

LEMMA respawnEndsStep ==
  ASSUME SeatsInv, NEW s \in ScopeIds, NEW p \in Participants, respawnEnds(s, p)
  PROVE  SeatsInv'
<1> DEFINE n == entries[s][p]  d == drivers[s][p]  k == calls[s][p]
           driver == [d EXCEPT !.state = "ready"]  call == [k EXCEPT !.respawn = "none"]
<1>1. /\ n \in Entries /\ d \in Drivers /\ k \in Calls
      /\ SeatRules(p \in scopes[s].members, Closing(s), n, d, k)
      /\ UNCHANGED <<scopes, index, entries, executions>>
      /\ SetDriver(s, p, driver) /\ SetCall(s, p, call)
  BY SeatFacts DEF respawnEnds
<1>2. k.respawn = "handshake" /\ k.prewarm # "starting" /\ k.turn # "starting"
  BY DEF respawnEnds, HandshakeAnswers, Stage, Callers
<1>3. driver \in Drivers /\ driver.process = d.process /\ driver.state = "ready"
  BY <1>1 DEF Drivers
<1>4. /\ call \in Calls
      /\ call.prewarm = k.prewarm /\ call.turn = k.turn /\ call.respawn = "none"
      /\ call.close = k.close /\ call.closed = k.closed
  BY <1>1 DEF Calls
<1>5. Writes(s, p, n, driver, call)
  BY <1>1 DEF Writes
<1> HIDE DEF driver, call
<1>6. SeatRules(p \in scopes[s].members, Closing(s), n, driver, call)
  BY <1>1, <1>2, <1>3, <1>4
  DEF SeatRules, Vacant, CallRules, ProcessRules, RestartRules, CloseRules, Stages, Holds
<1>7. TurnMoves(s, p, n, call)
  BY <1>1, <1>4 DEF TurnMoves, TurnGoesOn
<1>8. QED
  BY <1>1, <1>3, <1>4, <1>5, <1>6, <1>7, SeatAction

LEMMA protocolLimitStep ==
  ASSUME SeatsInv, NEW s \in ScopeIds, NEW p \in Participants, protocolLimit(s, p)
  PROVE  SeatsInv'
<1> DEFINE n == entries[s][p]  d == drivers[s][p]  k == calls[s][p]
           driver == LetsGo(s, p)  call == [k EXCEPT !.respawn = "shutdown"]
<1>1. /\ n \in Entries /\ d \in Drivers /\ k \in Calls
      /\ SeatRules(p \in scopes[s].members, Closing(s), n, d, k)
      /\ d.process = "live" /\ k.turn # "running" /\ k.respawn \in {"none", "handshake"}
  BY SeatFacts DEF protocolLimit
<1>2. CASE /\ SetDriver(s, p, driver) /\ SetCall(s, p, call)
           /\ UNCHANGED <<scopes, index, entries, executions>>
  <2>1. driver \in Drivers /\ driver.process = "leaving" /\ driver.state = d.state
    BY <1>1 DEF Drivers, LetsGo
  <2>2. /\ call \in Calls
        /\ call.prewarm = k.prewarm /\ call.turn = k.turn /\ call.respawn = "shutdown"
        /\ call.close = k.close /\ call.closed = k.closed
    BY <1>1 DEF Calls
  <2>3. Writes(s, p, n, driver, call)
    BY <1>2 DEF Writes
  <2> HIDE DEF driver, call
  <2>4. SeatRules(p \in scopes[s].members, Closing(s), n, driver, call)
    BY <1>1, <2>1, <2>2
    DEF SeatRules, Vacant, CallRules, ProcessRules, RestartRules, CloseRules, Stages, Holds
  <2>5. TurnMoves(s, p, n, call)
    BY <1>2, <2>2 DEF TurnMoves, TurnGoesOn
  <2>6. QED
    BY <1>1, <1>2, <2>1, <2>2, <2>3, <2>4, <2>5, SeatAction
<1>3. QED
  BY <1>2, HostDiesStep DEF protocolLimit

LEMMA turnSettlesStep ==
  ASSUME SeatsInv, NEW s \in ScopeIds, NEW p \in Participants, turnSettles(s, p)
  PROVE  SeatsInv'
<1> DEFINE n == entries[s][p]  d == drivers[s][p]  k == calls[s][p]
           entry == [n EXCEPT !.busy = None, !.runtime = AfterTurn(@)]
           call  == [k EXCEPT !.turn = "none"]
<1>1. /\ n \in Entries /\ d \in Drivers /\ k \in Calls /\ k.turn = "settled"
      /\ SeatRules(p \in scopes[s].members, Closing(s), n, d, k)
      /\ UNCHANGED <<scopes, index, executions>>
  BY SeatFacts DEF turnSettles
<1>2. /\ entry \in Entries /\ entry.busy = None
      /\ call \in Calls
      /\ call.prewarm = k.prewarm /\ call.turn = "none" /\ call.respawn = k.respawn
      /\ call.close = k.close /\ call.closed = k.closed
  BY <1>1 DEF Entries, Calls, AfterTurn
<1>3. Writes(s, p, entry, d, call)
  BY DEF Writes, turnSettles
<1> HIDE DEF entry, call
<1>4. SeatRules(p \in scopes[s].members, Closing(s), entry, d, call)
  BY <1>1, <1>2
  DEF SeatRules, Vacant, CallRules, ProcessRules, RestartRules, CloseRules, Stages, Holds
<1>5. TurnMoves(s, p, entry, call)
  BY <1>1, <1>2 DEF TurnMoves, TurnIsOver, Active
<1>6. QED
  BY <1>1, <1>2, <1>3, <1>4, <1>5, SeatAction

\* A turn that had no terminal yet gets it and leaves its driver as the rules allow.
LEMMA TurnIsDone ==
  ASSUME SeatsInv, NEW s \in ScopeIds, NEW p \in Participants,
         NEW driver \in Drivers, NEW call \in Calls,
         calls[s][p].turn \in Active, call.turn = "settled", call.closed = calls[s][p].closed,
         emitAndSweep(s, entries[s][p].busy), SetCall(s, p, call), SetDriver(s, p, driver),
         UNCHANGED <<index, entries>>,
         SeatRules(p \in scopes[s].members, Closing(s), entries[s][p], driver, call)
  PROVE  SeatsInv'
<1>1. entries[s][p] \in Entries
  BY SeatFacts
<1>2. Writes(s, p, entries[s][p], driver, call)
  BY DEF Writes
<1>3. TurnMoves(s, p, entries[s][p], call)
  BY DEF TurnMoves, TurnGetsTerminal, Active, emitAndSweep
<1>4. QED
  BY <1>1, <1>2, <1>3, SeatAction DEF emitAndSweep

LEMMA turnEndsStep ==
  ASSUME SeatsInv, NEW s \in ScopeIds, NEW p \in Participants, turnEnds(s, p)
  PROVE  SeatsInv'
<1> DEFINE n == entries[s][p]  d == drivers[s][p]  k == calls[s][p]
<1>1. /\ n \in Entries /\ d \in Drivers /\ k \in Calls /\ k.turn = "running" /\ k.turn \in Active
      /\ SeatRules(p \in scopes[s].members, Closing(s), n, d, k)
      /\ emitAndSweep(s, n.busy) /\ UNCHANGED <<index, entries>>
  BY SeatFacts DEF turnEnds, Active
<1>2. CASE /\ SetDriver(s, p, [d EXCEPT !.state = Idle(@)])
           /\ SetCall(s, p, [k EXCEPT !.turn = "settled"])
  <2> DEFINE driver == [d EXCEPT !.state = Idle(@)]  call == [k EXCEPT !.turn = "settled"]
  <2>1. /\ driver \in Drivers /\ driver.process = d.process
        /\ driver.state = d.state \/ d.state = "busy"
    BY <1>1 DEF Drivers, Idle
  <2>2. /\ call \in Calls
        /\ call.prewarm = k.prewarm /\ call.turn = "settled" /\ call.respawn = k.respawn
        /\ call.close = k.close /\ call.closed = k.closed
    BY <1>1 DEF Calls
  <2>3. SetDriver(s, p, driver) /\ SetCall(s, p, call)
    BY <1>2
  <2> HIDE DEF driver, call
  <2>4. SeatRules(p \in scopes[s].members, Closing(s), n, driver, call)
    BY <1>1, <2>1, <2>2
    DEF SeatRules, Vacant, CallRules, ProcessRules, RestartRules, CloseRules, Stages, Holds
  <2>5. QED
    BY <1>1, <2>1, <2>2, <2>3, <2>4, TurnIsDone
<1>3. CASE /\ SetDriver(s, p, [LetsGo(s, p) EXCEPT !.state = Idle(@)])
           /\ SetCall(s, p, [k EXCEPT !.turn = "settled", !.respawn = Restarting(s, p)])
  <2> DEFINE driver == [LetsGo(s, p) EXCEPT !.state = Idle(@)]
             call   == [k EXCEPT !.turn = "settled", !.respawn = Restarting(s, p)]
  <2>1. /\ driver \in Drivers
        /\ driver.process = IF d.process = "live" THEN "leaving" ELSE d.process
        /\ driver.state = d.state \/ d.state = "busy"
    BY <1>1 DEF Drivers, Idle, LetsGo
  <2>2. /\ call \in Calls
        /\ call.prewarm = k.prewarm /\ call.turn = "settled"
        /\ call.respawn = IF d.process = "live" THEN "shutdown" ELSE k.respawn
        /\ call.close = k.close /\ call.closed = k.closed
    BY <1>1 DEF Calls, Restarting
  <2>3. SetDriver(s, p, driver) /\ SetCall(s, p, call)
    BY <1>3
  <2> HIDE DEF driver, call
  <2>4. SeatRules(p \in scopes[s].members, Closing(s), n, driver, call)
    BY <1>1, <2>1, <2>2
    DEF SeatRules, Vacant, CallRules, ProcessRules, RestartRules, CloseRules, Stages, Holds
  <2>5. QED
    BY <1>1, <2>1, <2>2, <2>3, <2>4, TurnIsDone
<1>4. QED
  BY <1>2, <1>3 DEF turnEnds

LEMMA retryRunsStep ==
  ASSUME SeatsInv, NEW s \in ScopeIds, NEW p \in Participants, retryRuns(s, p)
  PROVE  SeatsInv'
<1> DEFINE n == entries[s][p]  d == drivers[s][p]  k == calls[s][p]
<1>1. /\ n \in Entries /\ d \in Drivers /\ k \in Calls
      /\ SeatRules(p \in scopes[s].members, Closing(s), n, d, k)
      /\ UNCHANGED <<index, entries>>
  BY SeatFacts DEF retryRuns
<1>2. k.turn = "handshake" /\ k.turn \in Active /\ k.respawn \notin {"starting", "shutdown"}
  BY DEF retryRuns, HandshakeAnswers, Stage, Callers, Active
<1>3. CASE /\ d.process = "live"
           /\ SetDriver(s, p, [d EXCEPT !.state = "busy"])
           /\ SetCall(s, p, [k EXCEPT !.turn = "running"])
           /\ UNCHANGED <<scopes, executions>>
  <2> DEFINE driver == [d EXCEPT !.state = "busy"]  call == [k EXCEPT !.turn = "running"]
  <2>1. driver \in Drivers /\ driver.process = "live" /\ driver.state = "busy"
    BY <1>1, <1>3 DEF Drivers
  <2>2. /\ call \in Calls
        /\ call.prewarm = k.prewarm /\ call.turn = "running" /\ call.respawn = k.respawn
        /\ call.close = k.close /\ call.closed = k.closed
    BY <1>1 DEF Calls
  <2>3. Writes(s, p, n, driver, call)
    BY <1>1, <1>3 DEF Writes
  <2> HIDE DEF driver, call
  <2>4. k.respawn = "none"
    BY <1>1, <1>2 DEF SeatRules, CallRules, Holds, Calls
  <2>5. SeatRules(p \in scopes[s].members, Closing(s), n, driver, call)
    BY <1>1, <1>2, <1>3, <2>1, <2>2, <2>4
    DEF SeatRules, Vacant, CallRules, ProcessRules, RestartRules, CloseRules, Stages, Holds
  <2>6. TurnMoves(s, p, n, call)
    BY <1>1, <1>2, <1>3, <2>2 DEF TurnMoves, TurnGoesOn, Active
  <2>7. QED
    BY <1>1, <1>3, <2>1, <2>2, <2>3, <2>5, <2>6, SeatAction
<1>4. CASE /\ SetDriver(s, p, [d EXCEPT !.state = "ready"])
           /\ SetCall(s, p, [k EXCEPT !.turn = "settled"])
           /\ emitAndSweep(s, n.busy)
  <2> DEFINE driver == [d EXCEPT !.state = "ready"]  call == [k EXCEPT !.turn = "settled"]
  <2>1. driver \in Drivers /\ driver.process = d.process /\ driver.state = "ready"
    BY <1>1 DEF Drivers
  <2>2. /\ call \in Calls
        /\ call.prewarm = k.prewarm /\ call.turn = "settled" /\ call.respawn = k.respawn
        /\ call.close = k.close /\ call.closed = k.closed
    BY <1>1 DEF Calls
  <2>3. SetDriver(s, p, driver) /\ SetCall(s, p, call)
    BY <1>4
  <2> HIDE DEF driver, call
  <2>4. k.respawn = "none"
    BY <1>1, <1>2 DEF SeatRules, CallRules, Holds, Calls
  <2>5. SeatRules(p \in scopes[s].members, Closing(s), n, driver, call)
    BY <1>1, <1>2, <2>1, <2>2, <2>4
    DEF SeatRules, Vacant, CallRules, ProcessRules, RestartRules, CloseRules, Stages, Holds
  <2>6. QED
    BY <1>1, <1>2, <1>4, <2>1, <2>2, <2>3, <2>5, TurnIsDone
<1>5. QED
  BY <1>3, <1>4 DEF retryRuns

LEMMA processExitsStep ==
  ASSUME SeatsInv, NEW s \in ScopeIds, NEW p \in Participants,
         drivers[s][p].process \in {"live", "leaving"}, processExits(s, p)
  PROVE  SeatsInv'
<1> DEFINE n == entries[s][p]  d == drivers[s][p]  k == calls[s][p]
           closing == isClosingOrClosed(s, p)
           left == [state   |-> IF closing THEN d.state ELSE "cold",
                    process |-> "none"]
<1>1. /\ n \in Entries /\ d \in Drivers /\ k \in Calls
      /\ SeatRules(p \in scopes[s].members, Closing(s), n, d, k)
  BY SeatFacts
<1>2. /\ left \in Drivers /\ left.process = "none"
      /\ \/ left.state = d.state /\ d.state \in {"closing", "closed"}
         \/ left.state = "cold" /\ d.state \notin {"closing", "closed"}
  BY <1>1 DEF Drivers, isClosingOrClosed
<1>3. \/ \E c \in Callers : /\ Stage(k, c) = "handshake"
                            /\ Rejected(s, p, c, IF closing THEN "cold" ELSE "failed", left)
      \/ /\ k.turn = "running" /\ emitAndSweep(s, n.busy)
         /\ SetCall(s, p, [k EXCEPT !.turn = "settled"])
         /\ SetDriver(s, p, left) /\ UNCHANGED <<index, entries>>
      \/ /\ k.turn = "running" /\ ~ closing
         /\ SetCall(s, p, [k EXCEPT !.turn = "starting", !.retried = TRUE])
         /\ SetDriver(s, p, [left EXCEPT !.state = "starting"])
         /\ UNCHANGED <<scopes, index, entries, executions>>
      \/ /\ k.turn # "running" /\ \A c \in Callers : Stage(k, c) # "handshake"
         /\ SetDriver(s, p, left) /\ UNCHANGED <<scopes, index, entries, calls, executions>>
  BY DEF processExits
<1> HIDE DEF left
<1>4. ASSUME NEW c \in Callers, Stage(k, c) = "handshake",
             Rejected(s, p, c, IF closing THEN "cold" ELSE "failed", left)
      PROVE  SeatsInv'
  <2>1. Leaves(d, left, "handshake")
    BY <1>2 DEF Leaves
  <2>2. QED
    BY <1>2, <1>4, <2>1, RejectedStep
<1>5. CASE /\ k.turn = "running" /\ emitAndSweep(s, n.busy)
           /\ SetCall(s, p, [k EXCEPT !.turn = "settled"])
           /\ SetDriver(s, p, left) /\ UNCHANGED <<index, entries>>
  <2> DEFINE call == [k EXCEPT !.turn = "settled"]
  <2>1. /\ call \in Calls
        /\ call.prewarm = k.prewarm /\ call.turn = "settled" /\ call.respawn = k.respawn
        /\ call.close = k.close /\ call.closed = k.closed
    BY <1>1 DEF Calls
  <2>2. SetCall(s, p, call) /\ k.turn \in Active
    BY <1>5 DEF Active
  <2> HIDE DEF call
  <2>3. SeatRules(p \in scopes[s].members, Closing(s), n, left, call)
    BY <1>1, <1>2, <1>5, <2>1
    DEF SeatRules, Vacant, CallRules, ProcessRules, RestartRules, CloseRules, Stages, Holds
  <2>4. QED
    BY <1>2, <1>5, <2>1, <2>2, <2>3, TurnIsDone
<1>6. CASE /\ k.turn = "running" /\ ~ closing
           /\ SetCall(s, p, [k EXCEPT !.turn = "starting", !.retried = TRUE])
           /\ SetDriver(s, p, [left EXCEPT !.state = "starting"])
           /\ UNCHANGED <<scopes, index, entries, executions>>
  <2> DEFINE driver == [left EXCEPT !.state = "starting"]
             call   == [k EXCEPT !.turn = "starting", !.retried = TRUE]
  <2>1. driver \in Drivers /\ driver.process = "none" /\ driver.state = "starting"
    BY <1>2 DEF Drivers
  <2>2. /\ call \in Calls
        /\ call.prewarm = k.prewarm /\ call.turn = "starting" /\ call.respawn = k.respawn
        /\ call.close = k.close /\ call.closed = k.closed
    BY <1>1 DEF Calls
  <2>3. Writes(s, p, n, driver, call) /\ d.state \notin {"closing", "closed"}
    BY <1>6 DEF Writes, isClosingOrClosed
  <2> HIDE DEF driver, call
  <2>4. SeatRules(p \in scopes[s].members, Closing(s), n, driver, call)
    BY <1>1, <1>6, <2>1, <2>2, <2>3
    DEF SeatRules, Vacant, CallRules, ProcessRules, RestartRules, CloseRules, Stages, Holds
  <2>5. TurnMoves(s, p, n, call)
    BY <1>6, <2>2 DEF TurnMoves, TurnGoesOn, Active
  <2>6. QED
    BY <1>1, <1>6, <2>1, <2>2, <2>3, <2>4, <2>5, SeatAction
<1>7. CASE /\ k.turn # "running" /\ \A c \in Callers : Stage(k, c) # "handshake"
           /\ SetDriver(s, p, left) /\ UNCHANGED <<scopes, index, entries, calls, executions>>
  <2>1. "handshake" \notin Stages(k)
    BY <1>7 DEF Stages, Stage, Callers
  <2>2. SeatRules(p \in scopes[s].members, Closing(s), n, left, k)
    BY <1>1, <1>2, <1>7, <2>1
    DEF SeatRules, Vacant, CallRules, ProcessRules, RestartRules, CloseRules, Stages, Holds
  <2>3. TurnMoves(s, p, n, k)
    BY <1>7 DEF TurnMoves, TurnGoesOn
  <2>4. Writes(s, p, n, left, k)
    BY <1>7 DEF Writes
  <2>5. QED
    BY <1>1, <1>2, <1>7, <2>2, <2>3, <2>4, SeatAction
<1>8. QED
  BY <1>3, <1>4, <1>5, <1>6, <1>7

\* How far one caller of close is, and the other as it was.
LEMMA CloseFacts ==
  ASSUME NEW call \in Calls, NEW who \in {"scope", "create"},
         NEW stage \in {"none", "asked", "shutting"},
         NEW new, new = [call EXCEPT !.close[who] = stage]
  PROVE  /\ new \in Calls /\ new.prewarm = call.prewarm /\ new.turn = call.turn
         /\ new.respawn = call.respawn /\ new.closed = call.closed
         /\ new.close["scope"] = IF who = "scope" THEN stage ELSE call.close["scope"]
         /\ new.close["create"] = IF who = "create" THEN stage ELSE call.close["create"]
BY DEF Calls

LEMMA closeTakesStep ==
  ASSUME SeatsInv, NEW s \in ScopeIds, NEW p \in Participants, NEW who \in {"scope", "create"},
         closeTakes(s, p, who)
  PROVE  SeatsInv'
<1> DEFINE n == entries[s][p]  d == drivers[s][p]  k == calls[s][p]
           driver == [d EXCEPT !.process = "leaving"]
           call   == [k EXCEPT !.close[who] = "shutting"]
<1>1. /\ n \in Entries /\ d \in Drivers /\ k \in Calls
      /\ SeatRules(p \in scopes[s].members, Closing(s), n, d, k)
      /\ k.close[who] = "asked" /\ d.process = "live"
      /\ UNCHANGED <<scopes, index, entries, executions>>
      /\ SetDriver(s, p, driver) /\ SetCall(s, p, call)
  BY SeatFacts DEF closeTakes
<1>2. driver \in Drivers /\ driver.process = "leaving" /\ driver.state = d.state
  BY <1>1 DEF Drivers
<1>3. /\ call \in Calls /\ call.prewarm = k.prewarm /\ call.turn = k.turn
      /\ call.respawn = k.respawn /\ call.closed = k.closed
      /\ call.close["scope"] = IF who = "scope" THEN "shutting" ELSE k.close["scope"]
      /\ call.close["create"] = IF who = "create" THEN "shutting" ELSE k.close["create"]
  BY <1>1, CloseFacts
<1>4. Writes(s, p, n, driver, call)
  BY <1>1 DEF Writes
<1> HIDE DEF driver, call
<1>5. SeatRules(p \in scopes[s].members, Closing(s), n, driver, call)
  BY <1>1, <1>2, <1>3
  DEF SeatRules, Vacant, CallRules, ProcessRules, RestartRules, CloseRules, Stages, Holds
<1>6. TurnMoves(s, p, n, call)
  BY <1>1, <1>3 DEF TurnMoves, TurnGoesOn
<1>7. QED
  BY <1>1, <1>2, <1>3, <1>4, <1>5, <1>6, SeatAction

LEMMA closeReturnsStep ==
  ASSUME SeatsInv, NEW s \in ScopeIds, NEW p \in Participants, NEW who \in {"scope", "create"},
         closeReturns(s, p, who)
  PROVE  SeatsInv'
<1> DEFINE n == entries[s][p]  d == drivers[s][p]  k == calls[s][p]
           entry  == [n EXCEPT !.runtime = IF who = "scope" THEN "cold" ELSE @]
           driver == [d EXCEPT !.state = "closed"]
           call   == [k EXCEPT !.close[who] = "none", !.closed = @ \/ who = "scope"]
<1>1. /\ n \in Entries /\ d \in Drivers /\ k \in Calls
      /\ SeatRules(p \in scopes[s].members, Closing(s), n, d, k)
      /\ \/ k.close[who] = "asked" /\ d.process \notin {"pending", "live"}
         \/ k.close[who] = "shutting" /\ d.process # "leaving"
      /\ UNCHANGED <<scopes, index, executions>>
      /\ SetEntry(s, p, entry) /\ SetDriver(s, p, driver) /\ SetCall(s, p, call)
  BY SeatFacts DEF closeReturns
<1>2. driver \in Drivers /\ driver.process = d.process /\ driver.state = "closed"
  BY <1>1 DEF Drivers
<1>3. entry \in Entries /\ entry.busy = n.busy /\ entry.runtime \in {n.runtime, "cold"}
  BY <1>1 DEF Entries
<1>4. /\ call \in Calls /\ call.prewarm = k.prewarm /\ call.turn = k.turn
      /\ call.respawn = k.respawn /\ call.closed = (k.closed \/ who = "scope")
      /\ call.close["scope"] = IF who = "scope" THEN "none" ELSE k.close["scope"]
      /\ call.close["create"] = IF who = "create" THEN "none" ELSE k.close["create"]
  BY <1>1 DEF Calls
<1>5. Writes(s, p, entry, driver, call)
  BY <1>1 DEF Writes
<1> HIDE DEF entry, driver, call
<1>6. d.process \in {"none", "pending", "live", "leaving"}
  BY <1>1 DEF Drivers
<1>7. SeatRules(p \in scopes[s].members, Closing(s), entry, driver, call)
  BY <1>1, <1>2, <1>3, <1>4, <1>6
  DEF SeatRules, Vacant, CallRules, ProcessRules, RestartRules, CloseRules, Stages, Holds
<1>8. TurnMoves(s, p, entry, call)
  BY <1>1, <1>3, <1>4 DEF TurnMoves, TurnGoesOn
<1>9. QED
  BY <1>1, <1>2, <1>3, <1>4, <1>5, <1>7, <1>8, SeatAction

-----------------------------------------------------------------------------
(* The steps of a scope.                                                   *)

LEMMA ScopeFacts ==
  ASSUME SeatsInv, NEW s \in ScopeIds
  PROVE  scopes[s] \in Scopes /\ ScopeOK(s) /\ scopes[s].members \subseteq Participants
BY DEF SeatsInv, ScopeTypeOK, Scopes

\* Only the timers, the lease or the progress of one scope's creation change.
LEMMA ScopeAlone ==
  ASSUME SeatsInv, NEW s \in ScopeIds, NEW scope \in Scopes,
         scopes' = [scopes EXCEPT ![s] = scope],
         scope.request = scopes[s].request, scope.members = scopes[s].members,
         Open(s), scope.state \in {"creating", "active"},
         UNCHANGED <<index, entries, drivers, calls, executions>>
  PROVE  SeatsInv'
<1>1. /\ scopes \in [ScopeIds -> Scopes] /\ scopes' \in [ScopeIds -> Scopes]
      /\ scopes'[s] = scope /\ \A t \in ScopeIds \ {s} : scopes'[t] = scopes[t]
  BY DEF SeatsInv, ScopeTypeOK
<1>2. ScopeTypeOK'
  BY <1>1 DEF SeatsInv, ScopeTypeOK
<1>3. \A t \in ScopeIds : ScopeOK(t)'
  <2>1. ASSUME NEW t \in ScopeIds
        PROVE  ScopeOK(t)'
    BY <1>1, ScopeFacts DEF ScopeOK, Open
  <2>2. QED
    BY <2>1
<1>4. ASSUME NEW t \in ScopeIds, NEW q \in Participants
      PROVE  SeatOK(t, q)' /\ BusyOK(t, q)'
  <2>1. SeatOK(t, q) /\ BusyOK(t, q)
    BY DEF SeatsInv
  <2>2. Closing(t)' = Closing(t) /\ scopes'[t].members = scopes[t].members
    BY <1>1 DEF Closing, Open
  <2>3. QED
    BY <2>1, <2>2 DEF SeatOK, BusyOK
<1>5. \A e \in ExecutionIds : RunningOK(e)'
  BY DEF SeatsInv, RunningOK
<1>6. QED
  BY <1>2, <1>3, <1>4, <1>5 DEF SeatsInv

LEMMA LeaseSteps ==
  ASSUME SeatsInv, NEW s \in ScopeIds, NEW epoch \in 1 .. MaxEpoch,
         activateScope(s, epoch) \/ takeover(s)
  PROVE  SeatsInv'
<1>1. scopes \in [ScopeIds -> Scopes] /\ scopes[s] \in Scopes
  BY DEF SeatsInv, ScopeTypeOK
<1>2. CASE activateScope(s, epoch)
  <2> DEFINE scope == [scopes[s] EXCEPT !.state = "active", !.creatingTimer = FALSE, !.idleTimer = TRUE]
  <2>1. scopes' = [scopes EXCEPT ![s] = scope]
    BY <1>1, <1>2 DEF activateScope, Scopes
  <2>2. scope \in Scopes /\ scope.request = scopes[s].request /\ scope.members = scopes[s].members
        /\ scope.state = "active"
    BY <1>1 DEF Scopes
  <2> HIDE DEF scope
  <2>3. QED
    BY <1>2, <2>1, <2>2, ScopeAlone DEF activateScope, fenced
<1>3. CASE takeover(s)
  <2> DEFINE scope == [scopes[s] EXCEPT !.leaseEpoch = @ + 1]
  <2>1. scopes' = [scopes EXCEPT ![s] = scope]
    BY <1>1, <1>3 DEF takeover
  <2>2. scopes[s].leaseEpoch + 1 \in 0 .. MaxEpoch
    BY <1>1, <1>3, EpochAssumption DEF takeover, Scopes
  <2>3. scope \in Scopes /\ scope.request = scopes[s].request /\ scope.members = scopes[s].members
        /\ scope.state = scopes[s].state
    BY <1>1, <2>2 DEF Scopes
  <2> HIDE DEF scope
  <2>4. QED
    BY <1>3, <2>1, <2>3, ScopeAlone DEF takeover, Open
<1>4. QED
  BY <1>2, <1>3

\* A driver that is told to close, and how far the caller that told it is.
LEMMA ClosingFacts ==
  ASSUME SeatsInv, NEW s \in ScopeIds, NEW p \in Participants, NEW who \in {"scope", "create"}
  PROVE  LET new == ClosingDriver(s, p)  call == ClosingCall(s, p, who)
             stage == IF TakenAtOnce(s, p) THEN "shutting" ELSE "asked"
         IN  /\ new \in Drivers /\ new.state = "closing"
             /\ new.process = IF TakenAtOnce(s, p) THEN "leaving" ELSE drivers[s][p].process
             /\ call \in Calls
             /\ call.prewarm = calls[s][p].prewarm /\ call.turn = calls[s][p].turn
             /\ call.respawn = calls[s][p].respawn /\ call.closed = calls[s][p].closed
             /\ call.close["scope"] = IF who = "scope" THEN stage ELSE calls[s][p].close["scope"]
             /\ call.close["create"] = IF who = "create" THEN stage ELSE calls[s][p].close["create"]
<1>1. drivers[s][p] \in Drivers /\ calls[s][p] \in Calls
  BY SeatFacts
<1>2. /\ ClosingDriver(s, p) \in Drivers /\ ClosingDriver(s, p).state = "closing"
      /\ ClosingDriver(s, p).process = IF TakenAtOnce(s, p) THEN "leaving" ELSE drivers[s][p].process
  BY <1>1 DEF ClosingDriver, Drivers
<1> DEFINE stage == IF TakenAtOnce(s, p) THEN "shutting" ELSE "asked"
<1>3. stage \in {"none", "asked", "shutting"}
  OBVIOUS
<1>4. ClosingCall(s, p, who) = [calls[s][p] EXCEPT !.close[who] = stage]
  BY DEF ClosingCall
<1> HIDE DEF stage
<1>5. QED
  BY <1>1, <1>2, <1>3, <1>4, CloseFacts DEF stage

\* The close of a scope reaches a seat whose driver nobody closes yet.
LEMMA ClosingRules ==
  ASSUME SeatsInv, NEW s \in ScopeIds, NEW p \in Participants, ~ Closing(s),
         p \in scopes[s].members
  PROVE  SeatRules(TRUE, TRUE, entries[s][p], ClosingDriver(s, p), ClosingCall(s, p, "scope"))
<1> DEFINE n == entries[s][p]  d == drivers[s][p]  k == calls[s][p]
           driver == ClosingDriver(s, p)  call == ClosingCall(s, p, "scope")
           taken == TakenAtOnce(s, p)
<1>1. n \in Entries /\ d \in Drivers /\ k \in Calls /\ SeatRules(TRUE, FALSE, n, d, k)
  BY SeatFacts DEF SeatRules, RestartRules, CloseRules
<1>2. /\ driver.state = "closing" /\ driver.process = IF taken THEN "leaving" ELSE d.process
      /\ call.prewarm = k.prewarm /\ call.turn = k.turn
      /\ call.respawn = k.respawn /\ call.closed = k.closed
      /\ call.close["scope"] = IF taken THEN "shutting" ELSE "asked"
      /\ call.close["create"] = k.close["create"]
  BY ClosingFacts
<1>3. taken <=> d.process = "live" /\ k.turn # "running"
  BY DEF TakenAtOnce
<1> HIDE DEF driver, call, taken
<1>4. SeatRules(TRUE, TRUE, n, driver, call)
  BY <1>1, <1>2, <1>3
  DEF SeatRules, Vacant, CallRules, ProcessRules, RestartRules, CloseRules, Stages, Holds
<1>5. QED
  BY <1>4 DEF driver, call

LEMMA CloseStep ==
  ASSUME SeatsInv, NEW S \in SUBSET ScopeIds, \A s \in S : Open(s), CloseScopes(S)
  PROVE  SeatsInv'
<1> DEFINE told(s, p) == s \in S /\ p \in scopes[s].members
<1>1. /\ scopes \in [ScopeIds -> Scopes]
      /\ entries \in [ScopeIds -> [Participants -> Entries]]
      /\ drivers \in [ScopeIds -> [Participants -> Drivers]]
      /\ calls \in [ScopeIds -> [Participants -> Calls]]
  BY DEF SeatsInv, ScopeTypeOK
<1>2. ASSUME NEW s \in ScopeIds
      PROVE  /\ scopes'[s] \in Scopes
             /\ scopes'[s].members = scopes[s].members
             /\ scopes'[s].request = scopes[s].request
             /\ scopes'[s].state = IF s \in S THEN "closing" ELSE scopes[s].state
  <2> DEFINE closing == [scopes[s] EXCEPT !.state = "closing", !.creatingTimer = FALSE,
                                          !.idleTimer = FALSE]
  <2>1. /\ closing \in Scopes /\ closing.members = scopes[s].members
        /\ closing.request = scopes[s].request /\ closing.state = "closing"
    <3>1. scopes[s] \in Scopes
      BY <1>1
    <3>2. QED
      BY <3>1 DEF Scopes
  <2>2. scopes'[s] = IF s \in S THEN closing ELSE scopes[s]
    BY DEF CloseScopes
  <2> HIDE DEF closing
  <2>3. QED
    BY <1>1, <2>1, <2>2
<1>3. ASSUME NEW s \in ScopeIds, NEW p \in Participants
      PROVE  /\ drivers'[s][p] = IF told(s, p) THEN ClosingDriver(s, p) ELSE drivers[s][p]
             /\ calls'[s][p] = IF told(s, p) THEN ClosingCall(s, p, "scope") ELSE calls[s][p]
             /\ drivers'[s][p] \in Drivers /\ calls'[s][p] \in Calls
             /\ calls'[s][p].turn = calls[s][p].turn
             /\ calls'[s][p].closed = calls[s][p].closed
  <2>1. /\ drivers'[s][p] = IF told(s, p) THEN ClosingDriver(s, p) ELSE drivers[s][p]
        /\ calls'[s][p] = IF told(s, p) THEN ClosingCall(s, p, "scope") ELSE calls[s][p]
    BY DEF CloseScopes
  <2>2. drivers[s][p] \in Drivers /\ calls[s][p] \in Calls
    BY <1>1
  <2> HIDE DEF told
  <2>3. QED
    BY <2>1, <2>2, ClosingFacts
<1>4. ScopeTypeOK'
  <2>1. scopes' \in [ScopeIds -> Scopes]
    BY <1>1, <1>2 DEF CloseScopes
  <2>2. drivers' \in [ScopeIds -> [Participants -> Drivers]]
    BY <1>3 DEF CloseScopes
  <2>3. calls' \in [ScopeIds -> [Participants -> Calls]]
    BY <1>3 DEF CloseScopes
  <2>4. QED
    BY <2>1, <2>2, <2>3 DEF SeatsInv, ScopeTypeOK, CloseScopes
<1>5. ASSUME NEW s \in ScopeIds
      PROVE  ScopeOK(s)'
  <2>1. ASSUME NEW p \in scopes[s].members
        PROVE  calls[s][p].closed => calls'[s][p].closed
    <3>1. p \in Participants
      BY ScopeFacts
    <3>2. QED
      BY <1>3, <3>1
  <2>2. ScopeOK(s) /\ index' = index /\ (s \in S => Open(s))
    BY ScopeFacts DEF CloseScopes
  <2>3. QED
    BY <1>2, <2>1, <2>2 DEF ScopeOK, Open
<1>6. ASSUME NEW s \in ScopeIds, NEW p \in Participants
      PROVE  SeatOK(s, p)' /\ BusyOK(s, p)'
  <2>1. SeatRules(p \in scopes[s].members, Closing(s), entries[s][p], drivers[s][p], calls[s][p])
        /\ BusyOK(s, p)
    BY SeatFacts
  <2>2. /\ entries' = entries /\ executions' = executions
        /\ Closing(s)' <=> Closing(s) \/ s \in S
        /\ s \in S => ~ Closing(s)
    BY <1>2 DEF Closing, Open, CloseScopes
  <2>3. SeatOK(s, p)'
    <3>1. (p \in scopes[s].members)' = (p \in scopes[s].members)
      BY <1>2
    <3>2. SeatRules(p \in scopes[s].members, Closing(s)', entries[s][p], drivers'[s][p], calls'[s][p])
      <4>1. CASE told(s, p)
        BY <1>3, <2>1, <2>2, <4>1, ClosingRules DEF SeatRules, RestartRules, CloseRules
      <4>2. CASE s \in S /\ p \notin scopes[s].members
        BY <1>3, <2>1, <2>2, <4>2
        DEF SeatRules, Vacant, CallRules, ProcessRules, RestartRules, CloseRules, Stages, Holds
      <4>3. CASE s \notin S
        BY <1>3, <2>1, <2>2, <4>3 DEF SeatRules, RestartRules, CloseRules
      <4>4. QED
        BY <4>1, <4>2, <4>3
    <3>3. QED
      BY <2>2, <3>1, <3>2 DEF SeatOK
  <2>4. BusyOK(s, p)'
    BY <1>3, <2>1, <2>2 DEF BusyOK
  <2>5. QED
    BY <2>3, <2>4
<1>7. ASSUME NEW e \in ExecutionIds
      PROVE  RunningOK(e)'
  <2>1. RunningOK(e) /\ executions' = executions /\ entries' = entries
    BY DEF SeatsInv, CloseScopes
  <2>2. QED
    BY <1>3, <2>1 DEF RunningOK
<1>8. QED
  BY <1>4, <1>5, <1>6, <1>7 DEF SeatsInv

\* A create that returns closes once more a driver whose entry came up.
LEMMA ReturningRules ==
  ASSUME SeatsInv, NEW s \in ScopeIds, NEW p \in Participants, Closing(s),
         p \in scopes[s].members, calls[s][p].prewarm = "none",
         entries[s][p].runtime \in {"ready", "prewarming"},
         NEW entry, entry.busy = entries[s][p].busy, entry.runtime = "cold"
  PROVE  SeatRules(TRUE, TRUE, entry, ClosingDriver(s, p), ClosingCall(s, p, "create"))
<1> DEFINE n == entries[s][p]  d == drivers[s][p]  k == calls[s][p]
           driver == ClosingDriver(s, p)  call == ClosingCall(s, p, "create")
           taken == TakenAtOnce(s, p)
<1>1. n \in Entries /\ d \in Drivers /\ k \in Calls /\ SeatRules(TRUE, TRUE, n, d, k)
  BY SeatFacts DEF SeatRules, RestartRules, CloseRules
<1>2. /\ driver.state = "closing" /\ driver.process = IF taken THEN "leaving" ELSE d.process
      /\ call.prewarm = k.prewarm /\ call.turn = k.turn
      /\ call.respawn = k.respawn /\ call.closed = k.closed
      /\ call.close["scope"] = k.close["scope"]
      /\ call.close["create"] = IF taken THEN "shutting" ELSE "asked"
  BY ClosingFacts
<1>3. taken <=> d.process = "live" /\ k.turn # "running"
  BY DEF TakenAtOnce
<1>4. k.turn = "none" /\ k.close["create"] = "none" /\ n.busy = None
  BY <1>1 DEF SeatRules, CallRules
<1> HIDE DEF driver, call, taken
<1>5. SeatRules(TRUE, TRUE, entry, driver, call)
  BY <1>1, <1>2, <1>3, <1>4
  DEF SeatRules, Vacant, CallRules, ProcessRules, RestartRules, CloseRules, Stages, Holds
<1>6. QED
  BY <1>5 DEF driver, call

\* createScopeReturns takes entries that came up down again: they are no seat's turn.
LEMMA createScopeReturnsStep ==
  ASSUME SeatsInv, NEW s \in ScopeIds, createScopeReturns(s)
  PROVE  SeatsInv'
<1> DEFINE up(p) == /\ p \in scopes[s].members /\ Closing(s)
                    /\ entries[s][p].runtime \in {"ready", "prewarming"}
           entry(p)  == [entries[s][p] EXCEPT !.runtime = "cold", !.bound = FALSE]
           driver(p) == ClosingDriver(s, p)
           call(p)   == ClosingCall(s, p, "create")
<1>1. /\ scopes \in [ScopeIds -> Scopes] /\ index' = index /\ executions' = executions
      /\ entries \in [ScopeIds -> [Participants -> Entries]]
      /\ drivers \in [ScopeIds -> [Participants -> Drivers]]
      /\ calls \in [ScopeIds -> [Participants -> Calls]]
      /\ index \in [RequestIds -> ScopeIds \cup {None}]
      /\ executions \in [ExecutionIds -> Executions]
  BY DEF SeatsInv, ScopeTypeOK, createScopeReturns
<1>2. /\ scopes' \in [ScopeIds -> Scopes]
      /\ \A t \in ScopeIds : /\ scopes'[t].state = scopes[t].state
                             /\ scopes'[t].members = scopes[t].members
                             /\ scopes'[t].request = scopes[t].request
  <2> DEFINE scope == [scopes[s] EXCEPT !.create = FALSE]
  <2>1. scopes' = [scopes EXCEPT ![s] = scope]
    BY <1>1 DEF createScopeReturns
  <2>2. /\ scope \in Scopes /\ scope.state = scopes[s].state
        /\ scope.members = scopes[s].members /\ scope.request = scopes[s].request
    BY <1>1 DEF Scopes
  <2> HIDE DEF scope
  <2>3. QED
    BY <1>1, <2>1, <2>2
<1>3. \A t \in ScopeIds \ {s} : /\ entries'[t] = entries[t] /\ drivers'[t] = drivers[t]
                                /\ calls'[t] = calls[t]
  BY <1>1 DEF createScopeReturns
<1>4. ASSUME NEW p \in Participants
      PROVE  /\ entries'[s][p] = IF up(p) THEN entry(p) ELSE entries[s][p]
             /\ drivers'[s][p] = IF up(p) THEN driver(p) ELSE drivers[s][p]
             /\ calls'[s][p] = IF up(p) THEN call(p) ELSE calls[s][p]
  BY <1>1 DEF createScopeReturns
<1>5. ASSUME NEW p \in Participants
      PROVE  /\ entry(p) \in Entries /\ driver(p) \in Drivers /\ call(p) \in Calls
             /\ entry(p).busy = entries[s][p].busy /\ entry(p).runtime = "cold"
             /\ call(p).turn = calls[s][p].turn /\ call(p).closed = calls[s][p].closed
  <2>1. entries[s][p] \in Entries
    BY <1>1
  <2>2. entry(p) \in Entries /\ entry(p).busy = entries[s][p].busy /\ entry(p).runtime = "cold"
    BY <2>1 DEF Entries
  <2>3. /\ driver(p) \in Drivers /\ call(p) \in Calls
        /\ call(p).turn = calls[s][p].turn /\ call(p).closed = calls[s][p].closed
    BY ClosingFacts
  <2>4. QED
    BY <2>2, <2>3
<1> HIDE DEF entry, driver, call
<1>6. ScopeTypeOK'
  <2>1. /\ entries'[s] \in [Participants -> Entries] /\ drivers'[s] \in [Participants -> Drivers]
        /\ calls'[s] \in [Participants -> Calls]
    <3>1. /\ entries'[s] = [p \in Participants |-> IF up(p) THEN entry(p) ELSE entries[s][p]]
          /\ drivers'[s] = [p \in Participants |-> IF up(p) THEN driver(p) ELSE drivers[s][p]]
          /\ calls'[s] = [p \in Participants |-> IF up(p) THEN call(p) ELSE calls[s][p]]
      BY <1>1 DEF createScopeReturns, entry, driver, call
    <3>2. QED
      BY <1>1, <1>5, <3>1
  <2>2. /\ entries' \in [ScopeIds -> [Participants -> Entries]]
        /\ drivers' \in [ScopeIds -> [Participants -> Drivers]]
        /\ calls' \in [ScopeIds -> [Participants -> Calls]]
    BY <1>1, <2>1 DEF createScopeReturns
  <2>3. QED
    BY <1>1, <1>2, <2>2 DEF ScopeTypeOK
<1>7. ASSUME NEW t \in ScopeIds, NEW p \in Participants
      PROVE  /\ entries'[t][p].busy = entries[t][p].busy
             /\ calls'[t][p].turn = calls[t][p].turn /\ calls'[t][p].closed = calls[t][p].closed
  BY <1>3, <1>4, <1>5
<1>8. ASSUME NEW t \in ScopeIds
      PROVE  ScopeOK(t)'
  <2>1. ASSUME NEW p \in scopes[t].members
        PROVE  calls[t][p].closed => calls'[t][p].closed
    <3>1. p \in Participants
      BY ScopeFacts
    <3>2. QED
      BY <1>7, <3>1
  <2>2. QED
    BY <1>1, <1>2, <2>1, ScopeFacts DEF ScopeOK
<1>9. ASSUME NEW t \in ScopeIds, NEW p \in Participants
      PROVE  SeatOK(t, p)' /\ BusyOK(t, p)'
  <2>1. SeatRules(p \in scopes[t].members, Closing(t), entries[t][p], drivers[t][p], calls[t][p])
        /\ BusyOK(t, p)
    BY SeatFacts
  <2>2. Closing(t)' = Closing(t) /\ scopes'[t].members = scopes[t].members
    BY <1>2 DEF Closing
  <2>3. SeatOK(t, p)'
    <3>1. CASE t # s \/ ~ up(p)
      BY <1>3, <1>4, <2>1, <2>2, <3>1 DEF SeatOK
    <3>2. CASE t = s /\ up(p)
      <4>1. SeatRules(p \in scopes[s].members, Closing(s), entry(p), driver(p), call(p))
        <5>1. calls[s][p].prewarm = "none"
          BY <3>2 DEF createScopeReturns
        <5>2. SeatRules(TRUE, TRUE, entry(p), driver(p), call(p))
          BY <1>5, <3>2, <5>1, ReturningRules DEF driver, call
        <5>3. QED
          BY <3>2, <5>2 DEF SeatRules, RestartRules, CloseRules
      <4>2. QED
        BY <1>4, <2>2, <3>2, <4>1 DEF SeatOK
    <3>3. QED
      BY <3>1, <3>2
  <2>4. BusyOK(t, p)'
    BY <1>1, <1>7, <2>1 DEF BusyOK
  <2>5. QED
    BY <2>3, <2>4
<1>10. ASSUME NEW e \in ExecutionIds
       PROVE  RunningOK(e)'
  <2>1. RunningOK(e) /\ executions' = executions
    BY <1>1 DEF SeatsInv
  <2>2. QED
    BY <1>7, <2>1 DEF RunningOK
<1>11. QED
  BY <1>6, <1>8, <1>9, <1>10 DEF SeatsInv

-----------------------------------------------------------------------------
(* The step that begins an execution.                                      *)

\* A begun execution takes the seat that had none, or is over when it is recorded.
LEMMA ExecutionBegins ==
  ASSUME SeatsInv, NEW s \in ScopeIds, NEW p \in Participants, NEW e \in ExecutionIds,
         executions[e].state = "absent",
         NEW state \in {"running", "terminal"},
         executions' = [executions EXCEPT ![e] = [state |-> state, scope |-> s, participant |-> p]],
         NEW entry \in Entries, NEW driver \in Drivers, NEW call \in Calls,
         Writes(s, p, entry, driver, call),
         scopes' = scopes \/ scopes' = [scopes EXCEPT ![s].idleTimer = TRUE], UNCHANGED index,
         SeatRules(p \in scopes[s].members, Closing(s), entry, driver, call),
         calls[s][p].closed => call.closed,
         entries[s][p].busy = None, calls[s][p].turn = "none",
         entry.busy \in {None, e}, call.turn \in Active <=> state = "running"
  PROVE  SeatsInv'
<1>1. /\ executions \in [ExecutionIds -> Executions] /\ index \in [RequestIds -> ScopeIds \cup {None}]
      /\ e # None
  BY NoneIsNoId DEF SeatsInv, ScopeTypeOK
<1>2. /\ executions'[e] = [state |-> state, scope |-> s, participant |-> p]
      /\ executions' \in [ExecutionIds -> Executions]
      /\ \A f \in ExecutionIds \ {e} : executions'[f] = executions[f]
  BY <1>1 DEF Executions
<1>3. /\ entries'[s][p] = entry /\ drivers'[s][p] = driver /\ calls'[s][p] = call
      /\ OtherSeats(s, p)
      /\ entries' \in [ScopeIds -> [Participants -> Entries]]
      /\ drivers' \in [ScopeIds -> [Participants -> Drivers]]
      /\ calls' \in [ScopeIds -> [Participants -> Calls]]
  BY WritesFacts
<1>4. SameScopes /\ scopes' \in [ScopeIds -> Scopes]
  BY SweepFacts
<1>5. ScopeTypeOK'
  BY <1>1, <1>2, <1>3, <1>4 DEF ScopeTypeOK
<1>6. SeatOK(s, p)'
  BY <1>3, <1>4 DEF SeatOK, SameScopes, Closing
<1>7. /\ \A u \in ScopeIds, q \in Participants : SeatOK(u, q)'
      /\ \A u \in ScopeIds : ScopeOK(u)'
  BY <1>3, <1>4, <1>6, OneSeatMoves
<1>8. ASSUME NEW u \in ScopeIds, NEW q \in Participants
      PROVE  BusyOK(u, q)'
  <2>1. CASE u = s /\ q = p
    <3>1. entries'[u][q].busy \in {None, e}
      BY <1>3, <2>1
    <3>2. QED
      BY <1>2, <1>3, <2>1, <3>1 DEF BusyOK
  <2>2. CASE u # s \/ q # p
    <3>1. BusyOK(u, q) /\ entries[u][q].busy \in ExecutionIds \cup {None}
      BY DEF SeatsInv, ScopeTypeOK, Entries
    <3>2. entries[u][q].busy # e
      BY <1>1, <3>1 DEF BusyOK
    <3>3. QED
      BY <1>2, <1>3, <2>2, <3>1, <3>2 DEF BusyOK, OtherSeats
  <2>3. QED
    BY <2>1, <2>2
<1>9. ASSUME NEW f \in ExecutionIds
      PROVE  RunningOK(f)'
  <2>1. CASE f = e
    <3>1. state = "running" => entry.busy = e
      BY <1>3 DEF SeatRules, CallRules, Active
    <3>2. QED
      BY <1>2, <1>3, <2>1, <3>1 DEF RunningOK
  <2>2. CASE f # e
    <3>1. RunningOK(f) /\ executions'[f] = executions[f]
      BY <1>2, <2>2 DEF SeatsInv
    <3>2. executions[f].state = "running" => executions[f].scope # s \/ executions[f].participant # p
      BY <3>1 DEF RunningOK, Active
    <3>3. QED
      BY <1>3, <3>1, <3>2 DEF RunningOK, OtherSeats
  <2>3. QED
    BY <2>1, <2>2
<1>10. QED
  BY <1>5, <1>7, <1>8, <1>9 DEF SeatsInv

LEMMA executeStep ==
  ASSUME SeatsInv, NEW s \in ScopeIds, NEW p \in Participants, NEW e \in ExecutionIds,
         NEW epoch \in 1 .. MaxEpoch, execute(s, p, e, epoch)
  PROVE  SeatsInv'
<1> DEFINE n == entries[s][p]  d == drivers[s][p]  c == calls[s][p]
           begun == [state |-> "running", scope |-> s, participant |-> p]
           busy  == [n EXCEPT !.runtime = "busy", !.busy = e]
<1>1. /\ scopes[s].state = "active" /\ p \in scopes[s].members
      /\ n.runtime = "ready" /\ n.busy = None /\ executions[e].state = "absent"
  BY DEF execute, executeAnswer
<1>2. /\ n \in Entries /\ d \in Drivers /\ c \in Calls
      /\ SeatRules(p \in scopes[s].members, Closing(s), n, d, c)
      /\ c.prewarm = "none" /\ c.turn = "none" /\ ~ c.closed /\ ~ Closing(s)
      /\ UNCHANGED index
  BY <1>1, SeatFacts
  DEF SeatRules, CallRules, CloseRules, Closing, execute
<1>3. busy \in Entries /\ busy.busy = e /\ busy.runtime = "busy" /\ e # None
  BY <1>2, NoneIsNoId DEF Entries
<1>4. [begun EXCEPT !.state = "terminal"]
        = [state |-> "terminal", scope |-> s, participant |-> p]
  OBVIOUS
<1>5. CASE /\ executions' = [executions EXCEPT ![e] = [begun EXCEPT !.state = "terminal"]]
           /\ scopes' = [scopes EXCEPT ![s].idleTimer = TRUE]
           /\ UNCHANGED <<entries, drivers, calls>>
  <2>1. Writes(s, p, n, d, c)
    BY <1>5 DEF Writes
  <2>2. n.busy \in {None, e} /\ c.turn \notin Active
    BY <1>1, <1>2 DEF Active
  <2>3. QED
    BY <1>1, <1>2, <1>4, <1>5, <2>1, <2>2, ExecutionBegins
<1>6. CASE /\ d.process = "live" /\ d.state = "ready"
           /\ executions' = [executions EXCEPT ![e] = begun] /\ SetEntry(s, p, busy)
           /\ SetDriver(s, p, [d EXCEPT !.state = "busy"])
           /\ SetCall(s, p, [c EXCEPT !.turn = "running", !.retried = FALSE])
           /\ UNCHANGED scopes
  <2> DEFINE driver == [d EXCEPT !.state = "busy"]
             call   == [c EXCEPT !.turn = "running", !.retried = FALSE]
  <2>1. /\ driver \in Drivers /\ driver.process = d.process /\ driver.state = "busy"
        /\ call \in Calls /\ call.prewarm = "none" /\ call.turn = "running"
        /\ call.respawn = c.respawn /\ call.close = c.close /\ ~ call.closed
    BY <1>2 DEF Drivers, Calls
  <2>2. Writes(s, p, busy, driver, call)
    BY <1>6 DEF Writes
  <2> HIDE DEF driver, call, busy
  <2>3. SeatRules(p \in scopes[s].members, Closing(s), busy, driver, call)
    BY <1>1, <1>2, <1>3, <1>6, <2>1
    DEF Calls, SeatRules, Vacant, CallRules, ProcessRules, RestartRules, CloseRules, Stages, Holds
  <2>4. busy.busy \in {None, e} /\ call.turn \in Active
    BY <1>3, <2>1 DEF Active
  <2>5. QED
    BY <1>1, <1>2, <1>3, <1>6, <2>1, <2>2, <2>3, <2>4, ExecutionBegins
<1>7. CASE /\ d.process # "live"
           /\ executions' = [executions EXCEPT ![e] = begun] /\ SetEntry(s, p, busy)
           /\ SetDriver(s, p, [d EXCEPT !.state = "starting"])
           /\ SetCall(s, p, [c EXCEPT !.turn = "starting", !.retried = TRUE])
           /\ UNCHANGED scopes
  <2> DEFINE driver == [d EXCEPT !.state = "starting"]
             call   == [c EXCEPT !.turn = "starting", !.retried = TRUE]
  <2>1. /\ driver \in Drivers /\ driver.process = d.process /\ driver.state = "starting"
        /\ call \in Calls /\ call.prewarm = "none" /\ call.turn = "starting"
        /\ call.respawn = c.respawn /\ call.close = c.close /\ ~ call.closed
    BY <1>2 DEF Drivers, Calls
  <2>2. Writes(s, p, busy, driver, call)
    BY <1>7 DEF Writes
  <2> HIDE DEF driver, call, busy
  <2>3. SeatRules(p \in scopes[s].members, Closing(s), busy, driver, call)
    BY <1>1, <1>2, <1>3, <1>7, <2>1
    DEF Calls, SeatRules, Vacant, CallRules, ProcessRules, RestartRules, CloseRules, Stages, Holds
  <2>4. busy.busy \in {None, e} /\ call.turn \in Active
    BY <1>3, <2>1 DEF Active
  <2>5. QED
    BY <1>1, <1>2, <1>3, <1>7, <2>1, <2>2, <2>3, <2>4, ExecutionBegins
<1>8. CASE /\ executions' = [executions EXCEPT ![e] = [begun EXCEPT !.state = "terminal"]]
           /\ scopes' = [scopes EXCEPT ![s].idleTimer = TRUE]
           /\ SetEntry(s, p, busy) /\ SetCall(s, p, [c EXCEPT !.turn = "settled"])
           /\ UNCHANGED drivers
  <2> DEFINE call == [c EXCEPT !.turn = "settled"]
  <2>1. /\ call \in Calls
        /\ call.prewarm = "none" /\ call.turn = "settled" /\ call.respawn = c.respawn
        /\ call.close = c.close /\ ~ call.closed
    BY <1>2 DEF Calls
  <2>2. Writes(s, p, busy, d, call)
    BY <1>8 DEF Writes
  <2> HIDE DEF call, busy
  <2>3. SeatRules(p \in scopes[s].members, Closing(s), busy, d, call)
    BY <1>1, <1>2, <1>3, <2>1
    DEF SeatRules, Vacant, CallRules, ProcessRules, RestartRules, CloseRules, Stages, Holds
  <2>4. busy.busy \in {None, e} /\ call.turn \notin Active
    BY <1>3, <2>1 DEF Active
  <2>5. QED
    BY <1>1, <1>2, <1>3, <1>4, <1>8, <2>1, <2>2, <2>3, <2>4, ExecutionBegins
<1>9. QED
  BY <1>5, <1>6, <1>7, <1>8 DEF execute

-----------------------------------------------------------------------------
(* The first and the last step of a scope.                                 *)

LEMMA createScopeStep ==
  ASSUME SeatsInv, NEW s \in ScopeIds, NEW r \in RequestIds, NEW members \in SUBSET Participants,
         createScope(s, r, members)
  PROVE  SeatsInv'
<1> DEFINE scope == [state |-> "creating", request |-> r, members |-> members, leaseEpoch |-> 1,
                     creatingTimer |-> TRUE, idleTimer |-> FALSE, create |-> TRUE]
<1>1. /\ scopes \in [ScopeIds -> Scopes] /\ executions' = executions
      /\ entries \in [ScopeIds -> [Participants -> Entries]]
      /\ drivers \in [ScopeIds -> [Participants -> Drivers]]
      /\ calls \in [ScopeIds -> [Participants -> Calls]]
      /\ index \in [RequestIds -> ScopeIds \cup {None}]
      /\ executions \in [ExecutionIds -> Executions]
      /\ scopes[s].state = "unused" /\ RequestIsFree(r)
  BY DEF SeatsInv, ScopeTypeOK, createScope
<1>2. /\ scopes'[s] = scope /\ scope \in Scopes /\ index'[r] = s
      /\ scopes' \in [ScopeIds -> Scopes] /\ index' \in [RequestIds -> ScopeIds \cup {None}]
      /\ \A t \in ScopeIds \ {s} : scopes'[t] = scopes[t]
      /\ \A q \in RequestIds \ {r} : index'[q] = index[q]
  <2>1. 1 \in 0 .. MaxEpoch
    BY EpochAssumption
  <2>2. scope \in Scopes
    BY <2>1 DEF Scopes
  <2>3. scopes' = [scopes EXCEPT ![s] = scope] /\ index' = [index EXCEPT ![r] = s]
    BY DEF createScope
  <2> HIDE DEF scope
  <2>4. QED
    BY <1>1, <2>2, <2>3
<1>3. PICK resolvable \in SUBSET members :
        /\ entries' = [entries EXCEPT ![s] = [p \in Participants |->
             IF p \in members
             THEN [ColdEntry EXCEPT !.runtime = IF p \in resolvable THEN "prewarming"
                                                ELSE "failed"]
             ELSE ColdEntry]]
        /\ drivers' = [drivers EXCEPT ![s] = [p \in Participants |->
             IF p \in resolvable THEN [ColdDriver EXCEPT !.state = "starting"] ELSE ColdDriver]]
        /\ calls' = [calls EXCEPT ![s] = [p \in Participants |->
             IF p \in resolvable THEN [NoCalls EXCEPT !.prewarm = "starting"] ELSE NoCalls]]
  BY DEF createScope
<1> DEFINE entry(p)  == IF p \in members
                        THEN [ColdEntry EXCEPT !.runtime = IF p \in resolvable THEN "prewarming"
                                                           ELSE "failed"]
                        ELSE ColdEntry
           driver(p) == IF p \in resolvable THEN [ColdDriver EXCEPT !.state = "starting"]
                        ELSE ColdDriver
           call(p)   == IF p \in resolvable THEN [NoCalls EXCEPT !.prewarm = "starting"]
                        ELSE NoCalls
<1>4. ASSUME NEW p \in Participants
      PROVE  /\ entry(p) \in Entries /\ driver(p) \in Drivers /\ call(p) \in Calls
             /\ entry(p).busy = None /\ entry(p).runtime # "ready"
             /\ driver(p).process = "none"
             /\ call(p).prewarm \in {"none", "starting"} /\ call(p).turn = "none"
             /\ call(p).respawn = "none" /\ ~ call(p).closed
             /\ call(p).close["scope"] = "none" /\ call(p).close["create"] = "none"
             /\ p \notin members => call(p).prewarm = "none"
  <2>1. entry(p) \in Entries /\ entry(p).busy = None /\ entry(p).runtime # "ready"
    BY DEF Entries, ColdEntry
  <2>2. driver(p) \in Drivers /\ driver(p).process = "none"
    BY DEF Drivers, ColdDriver
  <2>3. /\ call(p) \in Calls
        /\ call(p).prewarm \in {"none", "starting"} /\ call(p).turn = "none"
        /\ call(p).respawn = "none" /\ ~ call(p).closed
        /\ call(p).close["scope"] = "none" /\ call(p).close["create"] = "none"
        /\ p \notin members => call(p).prewarm = "none"
    BY DEF Calls, NoCalls
  <2>4. QED
    BY <2>1, <2>2, <2>3
<1>5. /\ entries' = [entries EXCEPT ![s] = [p \in Participants |-> entry(p)]]
      /\ drivers' = [drivers EXCEPT ![s] = [p \in Participants |-> driver(p)]]
      /\ calls' = [calls EXCEPT ![s] = [p \in Participants |-> call(p)]]
  BY <1>3
<1> HIDE DEF entry, driver, call
<1>6. /\ \A p \in Participants : /\ entries'[s][p] = entry(p) /\ drivers'[s][p] = driver(p)
                                 /\ calls'[s][p] = call(p)
      /\ \A t \in ScopeIds \ {s} : /\ entries'[t] = entries[t] /\ drivers'[t] = drivers[t]
                                   /\ calls'[t] = calls[t]
      /\ entries' \in [ScopeIds -> [Participants -> Entries]]
      /\ drivers' \in [ScopeIds -> [Participants -> Drivers]]
      /\ calls' \in [ScopeIds -> [Participants -> Calls]]
  BY <1>1, <1>4, <1>5
<1>7. ScopeTypeOK'
  BY <1>1, <1>2, <1>6 DEF ScopeTypeOK
<1>8. ASSUME NEW t \in ScopeIds
      PROVE  ScopeOK(t)'
  <2>1. CASE t = s
    BY <1>2, <2>1 DEF ScopeOK
  <2>2. CASE t # s
    <3>1. ScopeOK(t) /\ scopes'[t] = scopes[t] /\ calls'[t] = calls[t]
      BY <1>2, <1>6, <2>2, ScopeFacts
    <3>2. scopes[t].state \in {"creating", "active", "closing"} => scopes[t].request # r
      BY <1>1, <3>1, NoneIsNoId DEF ScopeOK, RequestIsFree
    <3>3. QED
      BY <1>2, <3>1, <3>2 DEF ScopeOK
  <2>3. QED
    BY <2>1, <2>2
<1>9. ASSUME NEW t \in ScopeIds, NEW p \in Participants
      PROVE  SeatOK(t, p)' /\ BusyOK(t, p)'
  <2>1. CASE t = s
    <3>1. ~ Closing(s)' /\ scopes'[s].members = members
      BY <1>2 DEF Closing
    <3>2. SeatRules(p \in scopes'[s].members, Closing(s)', entry(p), driver(p), call(p))
      BY <1>4, <3>1
      DEF SeatRules, Vacant, CallRules, ProcessRules, RestartRules, CloseRules, Stages, Holds
    <3>3. SeatOK(s, p)'
      BY <1>6, <3>2 DEF SeatOK
    <3>4. BusyOK(s, p)'
      BY <1>4, <1>6 DEF BusyOK
    <3>5. QED
      BY <2>1, <3>3, <3>4
  <2>2. CASE t # s
    <3>1. SeatRules(p \in scopes[t].members, Closing(t), entries[t][p], drivers[t][p], calls[t][p])
          /\ BusyOK(t, p)
      BY SeatFacts
    <3>2. QED
      BY <1>1, <1>2, <1>6, <2>2, <3>1 DEF SeatOK, BusyOK, Closing
  <2>3. QED
    BY <2>1, <2>2
<1>10. ASSUME NEW e \in ExecutionIds
       PROVE  RunningOK(e)'
  <2>1. \A p \in Participants : entries[s][p].busy = None
    BY <1>1, ScopeFacts, SeatFacts DEF ScopeOK, SeatRules, Vacant
  <2>2. RunningOK(e) /\ e # None
    BY NoneIsNoId DEF SeatsInv
  <2>3. executions[e].state = "running" => executions[e].scope \in ScopeIds \ {s}
    BY <2>1, <2>2 DEF RunningOK
  <2>4. QED
    BY <1>1, <1>6, <2>2, <2>3 DEF RunningOK
<1>11. QED
  BY <1>7, <1>8, <1>9, <1>10 DEF SeatsInv

\* The scope that ends has no turn left that could hold one of the executions it releases.
LEMMA closeScopeEndsStep ==
  ASSUME SeatsInv, NEW s \in ScopeIds, closeScopeEnds(s)
  PROVE  SeatsInv'
<1> DEFINE scope == [scopes[s] EXCEPT !.state = "closed"]
           r == scopes[s].request
<1>1. /\ scopes \in [ScopeIds -> Scopes]
      /\ index \in [RequestIds -> ScopeIds \cup {None}]
      /\ executions \in [ExecutionIds -> Executions]
      /\ UNCHANGED <<entries, drivers, calls>>
      /\ scopes[s].state = "closing" /\ \A p \in scopes[s].members : calls[s][p].closed
  BY DEF SeatsInv, ScopeTypeOK, closeScopeEnds
<1>2. /\ scope \in Scopes /\ scope.state = "closed" /\ scope.request = r
      /\ scope.members = scopes[s].members
  BY <1>1 DEF Scopes
<1>3. scopes' = [scopes EXCEPT ![s] = scope] /\ index' = [index EXCEPT ![r] = None]
  BY DEF closeScopeEnds
<1>4. r \in RequestIds /\ index[r] = s
  BY <1>1, ScopeFacts DEF ScopeOK
<1> HIDE DEF scope, r
<1>5. /\ scopes'[s] = scope /\ scopes' \in [ScopeIds -> Scopes]
      /\ index' \in [RequestIds -> ScopeIds \cup {None}]
      /\ \A t \in ScopeIds \ {s} : scopes'[t] = scopes[t]
      /\ \A q \in RequestIds \ {r} : index'[q] = index[q]
  BY <1>1, <1>2, <1>3, <1>4
<1>6. /\ executions' \in [ExecutionIds -> Executions]
      /\ \A e \in ExecutionIds :
           /\ executions'[e].scope = executions[e].scope
           /\ executions'[e].participant = executions[e].participant
           /\ executions'[e].state = IF executions[e].scope = s THEN "released"
                                     ELSE executions[e].state
  <2>1. \A e \in ExecutionIds :
          LET x == [executions[e] EXCEPT !.state = "released"]
          IN  /\ x \in Executions /\ x.scope = executions[e].scope
              /\ x.participant = executions[e].participant /\ x.state = "released"
    BY <1>1 DEF Executions
  <2>2. executions' = [e \in ExecutionIds |->
          IF executions[e].scope = s THEN [executions[e] EXCEPT !.state = "released"]
          ELSE executions[e]]
    BY DEF closeScopeEnds
  <2>3. QED
    BY <1>1, <2>1, <2>2
<1>7. ScopeTypeOK'
  BY <1>1, <1>5, <1>6 DEF SeatsInv, ScopeTypeOK
<1>8. ASSUME NEW t \in ScopeIds
      PROVE  ScopeOK(t)'
  <2>1. CASE t = s
    BY <1>1, <1>2, <1>5, <2>1 DEF ScopeOK
  <2>2. CASE t # s
    BY <1>1, <1>4, <1>5, <2>2, ScopeFacts DEF ScopeOK
  <2>3. QED
    BY <2>1, <2>2
<1>9. ASSUME NEW t \in ScopeIds, NEW p \in Participants
      PROVE  SeatOK(t, p)' /\ BusyOK(t, p)'
  <2>1. SeatRules(p \in scopes[t].members, Closing(t), entries[t][p], drivers[t][p], calls[t][p])
        /\ BusyOK(t, p) /\ entries[t][p].busy \in ExecutionIds \cup {None}
    BY SeatFacts DEF Entries
  <2>2. Closing(t)' = Closing(t) /\ scopes'[t].members = scopes[t].members
    BY <1>1, <1>2, <1>5 DEF Closing
  <2>3. SeatOK(t, p)'
    BY <1>1, <2>1, <2>2 DEF SeatOK
  <2>4. t = s /\ entries[t][p].busy # None => calls[t][p].closed
    BY <1>1, <2>1 DEF SeatRules, Vacant
  <2>5. BusyOK(t, p)'
    BY <1>1, <1>6, <2>1, <2>4 DEF BusyOK
  <2>6. QED
    BY <2>3, <2>5
<1>10. ASSUME NEW e \in ExecutionIds
       PROVE  RunningOK(e)'
  <2>1. RunningOK(e)
    BY DEF SeatsInv
  <2>2. QED
    BY <1>1, <1>6, <2>1 DEF RunningOK
<1>11. QED
  BY <1>7, <1>8, <1>9, <1>10 DEF SeatsInv

-----------------------------------------------------------------------------
(* The invariant, and what it promises.                                    *)

LEMMA SeatsNext == SeatsInv /\ [Next]_vars => SeatsInv'
<1> SUFFICES ASSUME SeatsInv, [Next]_vars
             PROVE  SeatsInv'
  OBVIOUS
<1>1. ASSUME NEW s \in ScopeIds, Open(s), CloseScopes({s})
      PROVE  SeatsInv'
  BY <1>1, CloseStep
<1>2. CASE Request
  <2>1. ASSUME NEW s \in ScopeIds, NEW r \in RequestIds, NEW members \in SUBSET Participants,
               createScope(s, r, members)
        PROVE  SeatsInv'
    BY <2>1, createScopeStep
  <2>2. ASSUME NEW s \in ScopeIds, NEW epoch \in 1 .. MaxEpoch,
               activateScope(s, epoch) \/ closeScope(s, epoch)
        PROVE  SeatsInv'
    BY <1>1, <2>2, LeaseSteps DEF closeScope, fenced
  <2>3. ASSUME NEW s \in ScopeIds, takeover(s)
        PROVE  SeatsInv'
    BY <2>3, EpochAssumption, LeaseSteps
  <2>4. ASSUME NEW s \in ScopeIds, NEW p \in Participants, NEW e \in ExecutionIds,
               NEW epoch \in 1 .. MaxEpoch, execute(s, p, e, epoch)
        PROVE  SeatsInv'
    BY <2>4, executeStep
  <2>5. CASE closeAll
    <3>1. CloseScopes({t \in ScopeIds : Open(t)})
      BY <2>5 DEF closeAll
    <3>2. QED
      BY <3>1, CloseStep
  <2>6. QED
    BY <1>2, <2>1, <2>2, <2>3, <2>4, <2>5 DEF Request
<1>3. ASSUME NEW s \in ScopeIds, Timer(s)
      PROVE  SeatsInv'
  BY <1>1, <1>3 DEF Timer, creatingTtlExpires, idleTtlExpires, Open
<1>4. ASSUME NEW s \in ScopeIds, createScopeReturns(s) \/ closeScopeEnds(s)
      PROVE  SeatsInv'
  BY <1>4, createScopeReturnsStep, closeScopeEndsStep
<1>5. ASSUME NEW s \in ScopeIds, NEW p \in Participants,
             \/ Prewarm(s, p) \/ Turn(s, p) \/ Respawn(s, p) \/ Close(s, p) \/ protocolLimit(s, p)
      PROVE  SeatsInv'
  <2>1. ASSUME NEW c \in Callers, Spawn(s, p, c)
        PROVE  SeatsInv'
    BY <2>1, spawnBeginsStep, spawnLandsStep, handshakeFailsStep DEF Spawn
  <2>2. CASE Prewarm(s, p)
    BY <2>1, <2>2, prewarmResolvesStep DEF Prewarm, Callers
  <2>3. CASE Turn(s, p)
    BY <2>1, <2>3, retryRunsStep, turnEndsStep, turnSettlesStep DEF Turn, Callers
  <2>4. CASE Respawn(s, p)
    BY <2>1, <2>4, respawnStartsStep, respawnEndsStep DEF Respawn, Callers
  <2>5. CASE Close(s, p)
    BY <2>5, closeTakesStep, closeReturnsStep DEF Close
  <2>6. QED
    BY <1>5, <2>2, <2>3, <2>4, <2>5, protocolLimitStep
<1>6. ASSUME NEW s \in ScopeIds, NEW p \in Participants, processCrashes(s, p) \/ processIsGone(s, p)
      PROVE  SeatsInv'
  BY <1>6, processExitsStep DEF processCrashes, processIsGone
<1>7. CASE UNCHANGED vars
  BY <1>7 DEF vars, SeatsInv, ScopeTypeOK, ScopeOK, SeatOK, Closing, BusyOK, RunningOK
<1>8. QED
  BY <1>2, <1>3, <1>4, <1>5, <1>6, <1>7 DEF Next

\* Whatever the interleaving of clients, timers and drivers, entry, driver and awaits of
\* every seat agree, and so do seats, index and execution registry.
THEOREM SeatsAgree == Spec => []SeatsInv
BY SeatsInit, SeatsNext, PTL DEF Spec

\* The state of the Host keeps its shape.
THEOREM ScopeTyped == Spec => []ScopeTypeOK
<1>1. SeatsInv => ScopeTypeOK
  BY DEF SeatsInv
<1>2. QED
  BY <1>1, SeatsAgree, PTL

\* A scope that is closed has no CLI process and none coming up, whatever was spawning,
\* shaking hands, retried or restarted when its close began, but for one that the driver's
\* own restart, or a create that returned late, is shutting down.
THEOREM ClosedIsQuiet == Spec => []ClosedScopeWindsDown
<1>1. SeatsInv => ClosedScopeWindsDown
  <2> SUFFICES ASSUME SeatsInv, NEW s \in ScopeIds, scopes[s].state = "closed",
                      NEW p \in Participants
               PROVE  \/ drivers[s][p].process = "none"
                      \/ /\ drivers[s][p].process = "leaving"
                         /\ calls[s][p].respawn = "shutdown" \/ calls[s][p].close["create"] = "shutting"
    BY DEF ClosedScopeWindsDown
  <2>1. p \in scopes[s].members => calls[s][p].closed
    BY ScopeFacts DEF ScopeOK
  <2>2. QED
    BY <2>1, SeatFacts DEF SeatRules, Vacant, ProcessRules, CloseRules
<1>2. QED
  BY <1>1, SeatsAgree, PTL

\* A turn that holds a process works on a running execution of its own, and a running
\* execution has a turn: the concurrency quota counts what really runs.
THEOREM RecordsAndTurns == Spec => []RecordsAndTurnsAgree
<1>1. SeatsInv => RecordsAndTurnsAgree
  <2> SUFFICES ASSUME SeatsInv
               PROVE  RecordsAndTurnsAgree
    OBVIOUS
  <2>1. ASSUME NEW s \in ScopeIds, NEW p \in Participants, Working(s, p)
        PROVE  /\ entries[s][p].busy # None
               /\ executions[entries[s][p].busy]
                    = [state |-> "running", scope |-> s, participant |-> p]
    <3> DEFINE e == entries[s][p].busy
    <3>1. e # None /\ e \in ExecutionIds
      BY <2>1, SeatFacts DEF SeatRules, CallRules, Working, Entries
    <3>2. calls[s][p].turn \in Active /\ ~ calls[s][p].closed
      BY <2>1, SeatFacts DEF SeatRules, ProcessRules, CloseRules, Stages, Working, Active
    <3>3. /\ executions[e].state = "running" /\ executions[e].scope = s
          /\ executions[e].participant = p
      BY <3>1, <3>2, SeatFacts DEF BusyOK
    <3>4. executions[e] \in Executions
      BY <3>1 DEF SeatsInv, ScopeTypeOK
    <3>5. QED
      BY <3>1, <3>3, <3>4 DEF Executions
  <2>2. ASSUME NEW e \in ExecutionIds, executions[e].state = "running"
        PROVE  LET s == executions[e].scope  p == executions[e].participant
               IN entries[s][p].busy = e /\ calls[s][p].turn \in {"starting", "spawning", "handshake", "running"}
    BY <2>2 DEF SeatsInv, RunningOK, Active
  <2>3. QED
    BY <2>1, <2>2 DEF RecordsAndTurnsAgree
<1>2. QED
  BY <1>1, SeatsAgree, PTL

\* A create that is retried never leaves two scopes that are not closed, and the index finds
\* the one there is.
THEOREM OneScope == Spec => []OneScopePerRequest
<1>1. SeatsInv => OneScopePerRequest
  <2> SUFFICES ASSUME SeatsInv, NEW s \in ScopeIds,
                      scopes[s].state \in {"creating", "active", "closing"}
               PROVE  /\ index[scopes[s].request] = s
                      /\ \A t \in ScopeIds \ {s} :
                           scopes[t].request = scopes[s].request => scopes[t].state = "closed"
    BY DEF OneScopePerRequest
  <2>1. scopes[s].request \in RequestIds /\ index[scopes[s].request] = s
    BY ScopeFacts DEF ScopeOK
  <2>2. ASSUME NEW t \in ScopeIds \ {s}, scopes[t].request = scopes[s].request
        PROVE  scopes[t].state = "closed"
    <3>1. scopes[t].state # "unused"
      BY <2>1, <2>2, ScopeFacts, NoneIsNoId DEF ScopeOK
    <3>2. scopes[t].state \notin {"creating", "active", "closing"}
      BY <2>1, <2>2, ScopeFacts DEF ScopeOK
    <3>3. scopes[t].state \in {"unused", "creating", "active", "closing", "closed"}
      BY ScopeFacts DEF Scopes
    <3>4. QED
      BY <3>1, <3>2, <3>3
  <2>3. QED
    BY <2>1, <2>2
<1>2. QED
  BY <1>1, SeatsAgree, PTL

===============================================================================
