-------------------------- MODULE ParticipantSession --------------------------
(***************************************************************************)
(* What one Participant's CLI sessions have been told, and what the Host's  *)
(* Session Reconciler believes they have been told.                        *)
(*                                                                         *)
(* The reconciler keeps ONE record per participantId for the whole Host.   *)
(* Each Scope of the Participant has a driver of its own, whose session    *)
(* generation (sessionEpoch) counts from 0.  A turn is rendered against    *)
(* the record when it is executed and recorded when it completes; between  *)
(* the two, processes crash and are respawned and Scopes close.            *)
(*                                                                         *)
(* The shared context is append-only (DiscussionTransactions), so item i   *)
(* is the number i and a context is a count of items and a topic.  A       *)
(* snapshot may be old: its POST may have been delayed.  How a Scope comes *)
(* up and goes down is ScopeManager's subject, here it takes one step and  *)
(* two.  A generation bump is one step of the epoch for each rebuild: only *)
(* equality of epochs is ever tested.                                      *)
(***************************************************************************)
EXTENDS Integers, Sequences

CONSTANTS
  ScopeIds,               \* the Scopes the Participant may be a member of
  Topics,
  DriverIds,              \* the drivers the Participant's profile may name
  SessionMaxExecutions,   \* SESSION_MAX_EXECUTIONS
  MaxRevision,            \* bound: changes of the shared context
  MaxEpoch,               \* bound: rebuilds of a driver's session
  None

ASSUME SessionAssumption ==
  /\ DriverIds \subseteq {"claude", "codex"}
  /\ SessionMaxExecutions \in Nat \ {0}
  /\ MaxRevision \in Nat \ {0}
  /\ MaxEpoch \in Nat
  /\ None \notin Topics

VARIABLES
  history,   \* the contexts the Room has had, the current one last
  record,    \* the reconciler's record of the Participant, or None
  scopes,    \* the state of each Scope
  drivers,   \* the Participant's driver in each Scope: id, epoch, live (it has a process),
             \* session, respawning
  turns      \* the driver's active turn in each Scope, or None

vars == <<history, record, scopes, drivers, turns>>

Contexts  == [items : Nat, topic : Topics]
Snapshots == [revision : Nat, items : Nat, topic : Topics]
Records   == [epoch : Nat, revision : Nat, items : Nat, topic : Topics,
              executions : Nat, overWindow : BOOLEAN]
Sessions  == [told : SUBSET Nat, topic : Topics \cup {None}, replayed : BOOLEAN]
Drivers   == [id : DriverIds \cup {None}, epoch : Nat, live : BOOLEAN,
              session : Sessions \cup {None}, respawning : BOOLEAN]
Turns     == [snapshot : Snapshots, from : Nat, retried : BOOLEAN,
              state : {"retrying", "written", "running"}]

\* A session that is missing is not a session.
ASSUME NoneIsNoSession == None \notin Sessions

SessionTypeOK ==
  /\ history \in Seq(Contexts)
  /\ record \in Records \cup {None}
  /\ scopes \in [ScopeIds -> {"unused", "active", "closing", "closed"}]
  /\ drivers \in [ScopeIds -> Drivers]
  /\ turns \in [ScopeIds -> Turns \cup {None}]

\* A CLI session (a claude process, a codex thread): what it was told, and whether it was given a turn
\* that had been rendered for another session.
FreshSession == [told |-> {}, topic |-> None, replayed |-> FALSE]

NoDriver == [id |-> None, epoch |-> 0, live |-> FALSE, session |-> None, respawning |-> FALSE]

Init ==
  /\ history \in {<<[items |-> 0, topic |-> t]>> : t \in Topics}
  /\ record = None
  /\ scopes = [s \in ScopeIds |-> "unused"]
  /\ drivers = [s \in ScopeIds |-> NoDriver]
  /\ turns = [s \in ScopeIds |-> None]

-------------------------------------------------------------------------------
(* The shared context, as dispatchTurn snapshots it.                         *)

Now == history[Len(history)]

Change(context) ==
  /\ Len(history) < MaxRevision
  /\ context # Now
  /\ history' = Append(history, context)
  /\ UNCHANGED <<record, scopes, drivers, turns>>

AppendItem == Change([Now EXCEPT !.items = @ + 1])
EditTopic  == \E t \in Topics : Change([Now EXCEPT !.topic = t])

\* The snapshot of the r-th context.
Snapshot(r) == [revision |-> r, items |-> history[r].items, topic |-> history[r].topic]

-------------------------------------------------------------------------------
(* The reconciler.                                                           *)

\* Mutant: a rebuilt session is taken for the one that was recorded.
reconcile_AnyEpoch(snapshot, epoch) ==
  IF record = None THEN "full"
  ELSE IF \/ record.executions >= SessionMaxExecutions \/ record.overWindow
          \/ snapshot.revision < record.revision \/ snapshot.items < record.items
          \/ snapshot.topic # record.topic
       THEN "needs_rebase" ELSE "incremental"

\* The basis of the prompt: "full" for a session without a record, "incremental" for a
\* strict append to what was recorded, anything else needs a rebase.
reconcile(snapshot, epoch) ==
  IF record = None \/ record.epoch # epoch THEN "full"
  ELSE IF \/ record.executions >= SessionMaxExecutions \/ record.overWindow
          \/ snapshot.revision < record.revision \/ snapshot.items < record.items
          \/ snapshot.topic # record.topic
       THEN "needs_rebase" ELSE "incremental"

\* recordApplied: the counts go on only within one generation.  over says whether the
\* usage that was reported fills the context window up to the threshold.
recordApplied(snapshot, epoch, over) ==
  LET same == record # None /\ record.epoch = epoch
  IN  [epoch      |-> epoch,
       revision   |-> snapshot.revision,
       items      |-> snapshot.items,
       topic      |-> snapshot.topic,
       executions |-> IF same THEN record.executions + 1 ELSE 1,
       overWindow |-> over \/ (same /\ record.overWindow)]

-------------------------------------------------------------------------------
(* Scopes.                                                                   *)

\* The supervisor's duplicate check, one for the whole Host.
MaySpawn == \A s \in ScopeIds : ~ drivers[s].live

Spawned(driver) == [driver EXCEPT !.live = TRUE, !.session = FreshSession, !.respawning = FALSE]
RetriesInPlace(driver) == driver.id = "claude"

Failed(driver)  == [driver EXCEPT !.live = FALSE, !.session = None, !.respawning = FALSE]

\* createScope and activateScope: a new driver, prewarmed.  (A seat whose prewarm failed
\* has no binding and runs no turn.)
OpenScope(s) ==
  /\ scopes[s] = "unused" /\ MaySpawn
  /\ scopes'  = [scopes EXCEPT ![s] = "active"]
  /\ \E id \in DriverIds : drivers' = [drivers EXCEPT ![s] = Spawned([@ EXCEPT !.id = id])]
  /\ UNCHANGED <<history, record, turns>>

\* closeScopeInternal up to the await of driver.close(), which interrupts the turn.
CloseBegins(s) ==
  /\ scopes[s] = "active"
  /\ scopes' = [scopes EXCEPT ![s] = "closing"]
  /\ turns'  = [turns EXCEPT ![s] = None]
  /\ UNCHANGED <<history, record, drivers>>

\* The process of a closing driver exits, which close() still has to learn.
ClosingExit(s) ==
  /\ scopes[s] = "closing" /\ drivers[s].live
  /\ drivers' = [drivers EXCEPT ![s] = Failed(@)]
  /\ UNCHANGED <<history, record, scopes, turns>>

\* The awaited close() is over: the record of the Participant is invalidated.
CloseEnds(s) ==
  /\ scopes[s] = "closing" /\ ~ drivers[s].live
  /\ scopes'  = [scopes EXCEPT ![s] = "closed"]
  /\ record'  = None
  /\ UNCHANGED <<history, drivers, turns>>

-------------------------------------------------------------------------------
(* A turn.                                                                   *)

\* execute: reconcile, render, hand over to the driver.  Without a session claude goes
\* to its safe retry, codex reports not_dispatched.
Execute(s, r) ==
  /\ scopes[s] = "active" /\ turns[s] = None
  /\ drivers[s].session # None \/ RetriesInPlace(drivers[s])
  /\ LET snapshot == Snapshot(r)
         basis    == reconcile(snapshot, drivers[s].epoch)
         from     == IF basis = "full" THEN 0 ELSE record.items
     IN  /\ basis # "needs_rebase"
         /\ turns' = [turns EXCEPT ![s] =
              [snapshot |-> snapshot,
               from     |-> from,
               retried  |-> drivers[s].session = None,
               state    |-> IF drivers[s].session = None THEN "retrying" ELSE "written"]]
  /\ UNCHANGED <<history, record, scopes, drivers>>

\* The frame reaches the session (dispatchState leaves not_dispatched).  renderTurn puts
\* the header with the topic in front of a prompt that starts at the first item.
Deliver(s) ==
  /\ turns[s] # None /\ turns[s].state = "written" /\ drivers[s].session # None
  /\ LET turn    == turns[s]
         session == drivers[s].session
     IN  drivers' = [drivers EXCEPT ![s].session =
           [told     |-> session.told \cup (turn.from + 1 .. turn.snapshot.items),
            topic    |-> IF turn.from = 0 THEN turn.snapshot.topic ELSE session.topic,
            replayed |-> session.replayed \/ turn.retried]]
  /\ turns' = [turns EXCEPT ![s].state = "running"]
  /\ UNCHANGED <<history, record, scopes>>

\* The completed terminal: the turn is recorded under the generation of now.
Complete(s, over) ==
  /\ turns[s] # None /\ turns[s].state = "running"
  /\ record'  = recordApplied(turns[s].snapshot, drivers[s].epoch, over)
  /\ turns'   = [turns EXCEPT ![s] = None]
  /\ UNCHANGED <<history, scopes, drivers>>

\* Cancelled, failed or cut short with the session still there: nothing is recorded.
EndUnrecorded(s) ==
  /\ turns[s] # None /\ turns[s].state \in {"written", "running"}
  /\ turns' = [turns EXCEPT ![s] = None]
  /\ UNCHANGED <<history, record, scopes, drivers>>

Rebuilt(driver) == [driver EXCEPT !.epoch = @ + 1, !.session = None]

\* A turn timeout or a cancel that was not answered: the turn ends and respawn begins by
\* shutting the old process down.
EndAndRespawn(s) ==
  /\ turns[s] # None /\ turns[s].state \in {"written", "running"}
  /\ drivers[s].epoch < MaxEpoch
  /\ turns'   = [turns EXCEPT ![s] = None]
  /\ drivers' = [drivers EXCEPT ![s] = [Rebuilt(@) EXCEPT !.respawning = TRUE]]
  /\ UNCHANGED <<history, record, scopes>>

RespawnLands(s) ==
  /\ scopes[s] = "active" /\ drivers[s].respawning /\ ~ drivers[s].live
  /\ \/ MaySpawn /\ drivers' = [drivers EXCEPT ![s] = Spawned(@)]
     \/ drivers' = [drivers EXCEPT ![s] = Failed(@)]
  /\ UNCHANGED <<history, record, scopes, turns>>

\* codex thread/compacted: the thread is given up, the process stays.
ThreadCompacted(s) ==
  /\ ~ RetriesInPlace(drivers[s])
  /\ scopes[s] = "active" /\ drivers[s].session # None
  /\ drivers[s].epoch < MaxEpoch
  /\ drivers' = [drivers EXCEPT ![s] = Rebuilt(@)]
  /\ turns'   = [turns EXCEPT ![s] = None]
  /\ UNCHANGED <<history, record, scopes>>

\* onProcessExit: the session is gone.  A turn whose frame was not yet out is retried by
\* claude, once; any other active turn fails.
ProcessExits(s) ==
  /\ scopes[s] = "active" /\ drivers[s].live
  /\ drivers[s].epoch < MaxEpoch
  /\ drivers' = [drivers EXCEPT ![s] = [Rebuilt(@) EXCEPT !.live = FALSE]]
  /\ turns'   = [turns EXCEPT ![s] =
       IF @ = None \/ @.state = "retrying" THEN @
       ELSE IF @.state = "written" /\ ~ @.retried /\ RetriesInPlace(drivers[s])
            THEN [@ EXCEPT !.state = "retrying", !.retried = TRUE]
            ELSE None]
  /\ UNCHANGED <<history, record, scopes>>

\* claude's safe retry: respawn, then the same input, the prompt included, once more.
\* A respawn that was in flight then finds the process there, and loses.
Retry(s) ==
  /\ scopes[s] = "active"
  /\ turns[s] # None /\ turns[s].state = "retrying"
  /\ drivers[s].session = None /\ drivers[s].epoch < MaxEpoch
  /\ \/ /\ MaySpawn
        /\ drivers' = [drivers EXCEPT ![s] = Spawned(Rebuilt(@))]
        /\ turns' = [turns EXCEPT ![s].state = "written"]
     \/ /\ drivers' = [drivers EXCEPT ![s].epoch = @ + 1]
        /\ turns' = [turns EXCEPT ![s] = None]
  /\ UNCHANGED <<history, record, scopes>>

\* The respawn that was in flight landed first: the retry uses its process.
RetryOnRespawned(s) ==
  /\ scopes[s] = "active"
  /\ turns[s] # None /\ turns[s].state = "retrying"
  /\ drivers[s].session # None
  /\ turns' = [turns EXCEPT ![s].state = "written"]
  /\ UNCHANGED <<history, record, scopes, drivers>>

-------------------------------------------------------------------------------

Next ==
  \/ AppendItem \/ EditTopic
  \/ \E s \in ScopeIds :
       \/ OpenScope(s) \/ CloseBegins(s) \/ ClosingExit(s) \/ CloseEnds(s)
       \/ \E r \in DOMAIN history : Execute(s, r)
       \/ Deliver(s) \/ EndUnrecorded(s) \/ EndAndRespawn(s)
       \/ \E over \in BOOLEAN : Complete(s, over)
       \/ RespawnLands(s) \/ ThreadCompacted(s) \/ ProcessExits(s)
       \/ Retry(s) \/ RetryOnRespawned(s)

Spec == Init /\ [][Next]_vars

-------------------------------------------------------------------------------
(* Properties.                                                               *)

Told(s) ==
  LET snapshot == turns[s].snapshot
      session  == drivers[s].session
  IN  /\ 1 .. snapshot.items \subseteq session.told
      /\ session.topic = snapshot.topic

\* The model that answers a turn has been told everything the turn's snapshot holds, and
\* under the topic the snapshot has: the strict append-only reuse the cutover plan asks of
\* the reconciler (a new Scope, a rebuilt session start from the full snapshot).  A session
\* in which claude ran a turn again is exempt: that turn's prompt was rendered for the
\* session that was lost, and the new one is given it as it is.
SessionMissesNothing ==
  \A s \in ScopeIds : turns[s] # None /\ turns[s].state = "running" =>
    drivers[s].session.replayed \/ Told(s)
===============================================================================
