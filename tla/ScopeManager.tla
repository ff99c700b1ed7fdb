----------------------------- MODULE ScopeManager -----------------------------
(***************************************************************************)
(* Execution Scopes of the Runtime Host                                    *)
(* (runtime-host/scopes/scope-manager.ts) with the driver behind each      *)
(* Participant, as the long-lived driver runs it                           *)
(* (runtime-host/drivers/claude-stream-json.ts on process-supervisor.ts).  *)
(* The Host is one Node process: code between two awaits is one action,    *)
(* and everything that awaits (prewarm, a turn, a close) is several.       *)
(*                                                                         *)
(* Abstractions.  A session's text is left to the Session Reconciler: here *)
(* it either accepts a snapshot or asks for a rebase.  An execution is its *)
(* record's state.  Time is left out, so a timer that is armed may fire.   *)
(* The create rate (ten a minute) is left out: it only refuses.  One       *)
(* driver restarts itself in the background once at a time.  To make a     *)
(* work directory before a spawn, and to notice that a process which has   *)
(* exited is gone, takes less time than a CLI needs to answer a handshake. *)
(***************************************************************************)
EXTENDS Naturals, FiniteSets, FiniteSetsExt

CONSTANTS ScopeIds,                 \* bound: scopes created in one Host's life
          RequestIds,               \* scopeRequestId of a client's create
          Participants,
          ExecutionIds,
          MaxActiveScopes,          \* QUOTAS.maxActiveScopes
          MaxParticipantsPerScope,  \* QUOTAS.maxParticipantsPerScope
          MaxDriverProcesses,       \* QUOTAS.maxDriverProcesses
          MaxConcurrentExecutions,  \* QUOTAS.maxConcurrentExecutions
          MaxEpoch,                 \* bound: takeovers of one scope, plus one
          None

ASSUME QuotaAssumption == /\ MaxActiveScopes \in Nat
                          /\ MaxParticipantsPerScope \in Nat
                          /\ MaxDriverProcesses \in Nat
                          /\ MaxConcurrentExecutions \in Nat
ASSUME EpochAssumption == MaxEpoch \in Nat \ {0}
ASSUME NoneIsNoId == None \notin ScopeIds \cup RequestIds \cup ExecutionIds

VARIABLES scopes,      \* scopes: scopeId -> Scope, "unused" before createScope
          index,       \* scopeRequestIndex: scopeRequestId -> scopeId
          entries,     \* scope.participants: ParticipantEntry of each member
          drivers,     \* the driver object of each entry and its CLI process
          calls,       \* what is awaited for each entry
          executions   \* the execution registry: state and owner of each record

vars == <<scopes, index, entries, drivers, calls, executions>>

Scopes     == [state         : {"unused", "creating", "active", "closing", "closed"},
               request       : RequestIds \cup {None},
               members       : SUBSET Participants,
               leaseEpoch    : 0 .. MaxEpoch,
               creatingTimer : BOOLEAN,
               idleTimer     : BOOLEAN,
               create        : BOOLEAN]        \* createScope has not returned
Entries    == [runtime : {"cold", "prewarming", "ready", "busy", "failed"},
               bound   : BOOLEAN,
               busy    : ExecutionIds \cup {None}]
\* process: what the driver's variable refers to; "leaving" when the variable is null
\* again but somebody is still shutting the CLI down.
Drivers    == [state   : {"cold", "starting", "ready", "busy", "closing", "closed"},
               process : {"none", "pending", "live", "leaving"}]
\* prewarm, turn and respawn: the stages of prewarmParticipant, of driver.execute and of
\* a restart in the background; retried: execute is at its second and last attempt;
\* close: how far each caller of driver.close() is; closed: closeScopeInternal is past it.
Calls      == [prewarm : {"none", "starting", "spawning", "handshake"},
               turn    : {"none", "starting", "spawning", "handshake", "running", "settled"},
               respawn : {"none", "shutdown", "starting", "spawning", "handshake"},
               retried : BOOLEAN,
               close   : [{"scope", "create"} -> {"none", "asked", "shutting"}],
               closed  : BOOLEAN]
Executions == [state       : {"absent", "running", "terminal", "released"},
               scope       : ScopeIds \cup {None},
               participant : Participants \cup {None}]

ScopeTypeOK == /\ scopes \in [ScopeIds -> Scopes]
               /\ index \in [RequestIds -> ScopeIds \cup {None}]
               /\ entries \in [ScopeIds -> [Participants -> Entries]]
               /\ drivers \in [ScopeIds -> [Participants -> Drivers]]
               /\ calls \in [ScopeIds -> [Participants -> Calls]]
               /\ executions \in [ExecutionIds -> Executions]

Unused   == [state |-> "unused", request |-> None, members |-> {}, leaseEpoch |-> 0,
             creatingTimer |-> FALSE, idleTimer |-> FALSE, create |-> FALSE]
ColdEntry == [runtime |-> "cold", bound |-> FALSE, busy |-> None]
ColdDriver == [state |-> "cold", process |-> "none"]
NoCalls    == [prewarm |-> "none", turn |-> "none", respawn |-> "none", retried |-> FALSE,
               close |-> [who \in {"scope", "create"} |-> "none"], closed |-> FALSE]

FreshScopes     == [s \in ScopeIds |-> Unused]
FreshIndex      == [r \in RequestIds |-> None]
FreshEntries    == [s \in ScopeIds |-> [p \in Participants |-> ColdEntry]]
FreshDrivers    == [s \in ScopeIds |-> [p \in Participants |-> ColdDriver]]
FreshCalls      == [s \in ScopeIds |-> [p \in Participants |-> NoCalls]]
FreshExecutions == [e \in ExecutionIds |->
                      [state |-> "absent", scope |-> None, participant |-> None]]

Init == /\ scopes = FreshScopes /\ index = FreshIndex /\ entries = FreshEntries
        /\ drivers = FreshDrivers /\ calls = FreshCalls /\ executions = FreshExecutions

(* The Host process ends at a rejection that nobody handles: its memory is lost, the
   watchdogs reap its drivers, and the next Host starts empty.                       *)
HostDies == /\ scopes' = FreshScopes /\ index' = FreshIndex /\ entries' = FreshEntries
            /\ drivers' = FreshDrivers /\ calls' = FreshCalls /\ executions' = FreshExecutions
-------------------------------------------------------------------------------
Open(s)    == scopes[s].state \in {"creating", "active"}
Closing(s) == scopes[s].state \in {"closing", "closed"}
Seats      == {seat \in ScopeIds \X Participants : seat[2] \in scopes[seat[1]].members}

fenced(s, epoch) == Open(s) /\ scopes[s].leaseEpoch = epoch

activeScopeCount == Cardinality({s \in ScopeIds : Open(s)})

\* The driver processes the quota sees: those of open scopes whose entry says so.
liveDriverProcessCount ==
  Cardinality({seat \in Seats : /\ Open(seat[1])
                                /\ entries[seat[1]][seat[2]].runtime
                                     \in {"ready", "busy", "prewarming"}})

runningCount == Cardinality({e \in ExecutionIds : executions[e].state = "running"})

isClosingOrClosed(s, p) == drivers[s][p].state \in {"closing", "closed"}

\* The supervisor keeps one live driver for each participantId, whatever its scope.
Duplicate(p) == \E s \in ScopeIds : drivers[s][p].process # "none"

SetEntry(s, p, v)  == entries' = [entries EXCEPT ![s][p] = v]
SetDriver(s, p, v) == drivers' = [drivers EXCEPT ![s][p] = v]
SetCall(s, p, v)   == calls' = [calls EXCEPT ![s][p] = v]

\* emit of a terminal: refused for a record that is gone or already terminal.
Terminal(e) == executions' = IF executions[e].state = "running"
                             THEN [executions EXCEPT ![e].state = "terminal"] ELSE executions

scheduleIdleSweep(s) ==
  IF scopes[s].state = "active" THEN [scopes EXCEPT ![s].idleTimer = TRUE] ELSE scopes

\* A terminal that was emitted re-arms the idle reaper.
emitAndSweep(s, e) ==
  /\ Terminal(e)
  /\ scopes' = IF executions[e].state = "running" THEN scheduleIdleSweep(s) ELSE scopes
-------------------------------------------------------------------------------
\* Variant: only an active scope answers a retried create.
RequestIsFree_Creating(r) == index[r] # None => scopes[index[r]].state # "active"
\* A retry whose scope is not closed gets that scope and changes nothing.
RequestIsFree(r) == index[r] # None => scopes[index[r]].state = "closed"

\* createScope: the part before the first await.
createScope(s, r, members) ==
  /\ scopes[s].state = "unused"
  /\ RequestIsFree(r)
  /\ activeScopeCount < MaxActiveScopes
  /\ Cardinality(members) <= MaxParticipantsPerScope
  /\ liveDriverProcessCount + Cardinality(members) <= MaxDriverProcesses
  /\ scopes' = [scopes EXCEPT ![s] =
       [state |-> "creating", request |-> r, members |-> members, leaseEpoch |-> 1,
        creatingTimer |-> TRUE, idleTimer |-> FALSE, create |-> TRUE]]
  /\ index' = [index EXCEPT ![r] = s]
  /\ \E resolvable \in SUBSET members :
       /\ entries' = [entries EXCEPT ![s] = [p \in Participants |->
            IF p \in members
            THEN [ColdEntry EXCEPT !.runtime = IF p \in resolvable THEN "prewarming"
                                               ELSE "failed"]
            ELSE ColdEntry]]
       /\ drivers' = [drivers EXCEPT ![s] = [p \in Participants |->
            IF p \in resolvable THEN [ColdDriver EXCEPT !.state = "starting"] ELSE ColdDriver]]
       /\ calls' = [calls EXCEPT ![s] = [p \in Participants |->
            IF p \in resolvable THEN [NoCalls EXCEPT !.prewarm = "starting"] ELSE NoCalls]]
  /\ UNCHANGED executions

(* driver.close() up to its first await: a turn that runs is interrupted first and a spawn
   in flight awaited; any other process is let go of and shut down at once.          *)
TakenAtOnce(s, p) == drivers[s][p].process = "live" /\ calls[s][p].turn # "running"
ClosingDriver(s, p) == [state   |-> "closing",
                        process |-> IF TakenAtOnce(s, p) THEN "leaving"
                                    ELSE drivers[s][p].process]
ClosingCall(s, p, who) ==
  [calls[s][p] EXCEPT !.close[who] = IF TakenAtOnce(s, p) THEN "shutting" ELSE "asked"]

(* createScope once every prewarm has settled: on a scope that is closing or
   closed, entries that came up are taken down again.                       *)
createScopeReturns(s) ==
  LET up == {p \in scopes[s].members : /\ Closing(s)
                                       /\ entries[s][p].runtime \in {"ready", "prewarming"}}
  IN /\ scopes[s].create
     /\ \A p \in scopes[s].members : calls[s][p].prewarm = "none"
     /\ scopes' = [scopes EXCEPT ![s].create = FALSE]
     /\ entries' = [entries EXCEPT ![s] = [p \in Participants |->
          IF p \in up THEN [entries[s][p] EXCEPT !.runtime = "cold", !.bound = FALSE]
          ELSE entries[s][p]]]
     /\ drivers' = [drivers EXCEPT ![s] = [p \in Participants |->
          IF p \in up THEN ClosingDriver(s, p) ELSE drivers[s][p]]]
     /\ calls' = [calls EXCEPT ![s] = [p \in Participants |->
          IF p \in up THEN ClosingCall(s, p, "create") ELSE calls[s][p]]]
     /\ UNCHANGED <<index, executions>>

\* Variant: only a terminal arms the idle reaper.
activateScope_Untimed(s, epoch) ==
  /\ fenced(s, epoch)
  /\ scopes[s].state = "creating"
  /\ scopes' = [scopes EXCEPT ![s].state = "active", ![s].creatingTimer = FALSE]
  /\ UNCHANGED <<index, entries, drivers, calls, executions>>

activateScope(s, epoch) ==
  /\ fenced(s, epoch)
  /\ scopes[s].state = "creating"
  /\ scopes' = [scopes EXCEPT ![s].state = "active", ![s].creatingTimer = FALSE,
                              ![s].idleTimer = TRUE]
  /\ UNCHANGED <<index, entries, drivers, calls, executions>>

takeover(s) ==
  /\ Open(s)
  /\ scopes[s].leaseEpoch < MaxEpoch
  /\ scopes' = [scopes EXCEPT ![s].leaseEpoch = @ + 1]
  /\ UNCHANGED <<index, entries, drivers, calls, executions>>
-------------------------------------------------------------------------------
(* Who awaits a process of the driver: the prewarm, a turn's safe retry or a restart in
   the background; and the stage that call is at.                                    *)
Callers == {"prewarm", "turn", "respawn"}
Stage(call, c) == IF c = "prewarm" THEN call.prewarm
                  ELSE IF c = "turn" THEN call.turn ELSE call.respawn
AtStage(call, c, stage) == IF c = "prewarm" THEN [call EXCEPT !.prewarm = stage]
                           ELSE IF c = "turn" THEN [call EXCEPT !.turn = stage]
                           ELSE [call EXCEPT !.respawn = stage]

\* Variant: a retry that cannot start its process reports nothing.
RetryFailed_Silent(s, p) == UNCHANGED <<scopes, executions>>
\* A turn whose retry cannot start its process ends with a terminal.
RetryFailed(s, p) == emitAndSweep(s, entries[s][p].busy)

(* The awaited spawn or handshake is rejected, and driver is what is left of the driver.
   CANCELLED leaves the entry of a prewarm cold, any other error leaves it failed.  Only
   a restart that follows a cancel handles its own rejection.                        *)
Rejected(s, p, c, runtime, driver) ==
  \/ /\ c = "prewarm"
     /\ SetEntry(s, p, [entries[s][p] EXCEPT
          !.runtime = runtime, !.bound = IF runtime = "cold" THEN FALSE ELSE @])
     /\ SetCall(s, p, [calls[s][p] EXCEPT !.prewarm = "none"])
     /\ SetDriver(s, p, driver)
     /\ UNCHANGED <<scopes, index, executions>>
  \/ /\ c = "turn"
     /\ RetryFailed(s, p)
     /\ SetCall(s, p, [calls[s][p] EXCEPT !.turn = "settled"])
     /\ SetDriver(s, p, driver)
     /\ UNCHANGED <<index, entries>>
  \/ /\ c = "respawn"
     /\ SetCall(s, p, [calls[s][p] EXCEPT !.respawn = "none"])
     /\ SetDriver(s, p, driver)
     /\ UNCHANGED <<scopes, index, entries, executions>>
  \/ c = "respawn" /\ HostDies

\* Variant: no last check before the spawn.
CanSpawn_Always(s, p) == TRUE
\* The last check before the spawn: a driver that is closing never spawns.
CanSpawn(s, p) == ~isClosingOrClosed(s, p)

\* A prewarm that fails leaves its driver cold, unless the driver is being closed.
AfterFailure(s, p, c) == [drivers[s][p] EXCEPT
  !.state = IF c = "prewarm" /\ ~isClosingOrClosed(s, p) THEN "cold" ELSE @]

\* spawnAndHandshake up to the spawn; the supervisor refuses a second live driver of a
\* participant.
spawnBegins(s, p, c) ==
  /\ Stage(calls[s][p], c) = "starting"
  /\ \/ /\ ~CanSpawn(s, p)
        /\ Rejected(s, p, c, "cold", drivers[s][p])
     \/ /\ CanSpawn(s, p) /\ Duplicate(p)
        /\ Rejected(s, p, c, "failed", AfterFailure(s, p, c))
     \/ /\ CanSpawn(s, p) /\ ~Duplicate(p)
        /\ SetDriver(s, p, [drivers[s][p] EXCEPT !.process = "pending"])
        /\ SetCall(s, p, AtStage(calls[s][p], c, "spawning"))
        /\ UNCHANGED <<scopes, index, entries, executions>>

\* The spawn resolves: a driver that started to close meanwhile shuts the process down.
MayAdopt(s, p) == ~isClosingOrClosed(s, p)
spawnLands(s, p, c) ==
  /\ Stage(calls[s][p], c) = "spawning"
  /\ \/ /\ MayAdopt(s, p)
        /\ SetDriver(s, p, [drivers[s][p] EXCEPT !.process = "live"])
        /\ SetCall(s, p, AtStage(calls[s][p], c, "handshake"))
        /\ UNCHANGED <<scopes, index, entries, executions>>
     \/ /\ ~MayAdopt(s, p)
        /\ Rejected(s, p, c, "cold", [drivers[s][p] EXCEPT !.process = "none"])

\* The handshake of c answers, also when a close has already asked the process to go: not
\* before the other calls of the driver are past their short awaits, and not from a process
\* that is restarted because it wrote a line too long.
HandshakeAnswers(s, p, c) ==
  /\ Stage(calls[s][p], c) = "handshake"
  /\ \A other \in Callers : Stage(calls[s][p], other) # "starting"
  /\ calls[s][p].respawn # "shutdown"

\* What a prewarm makes of the seat: the model it asked for may not resolve.
Landed(bound) == IF bound THEN "ready" ELSE "failed"

\* A prewarm whose scope is closing closes the driver once more: nothing is left to wait for.
prewarmResolves(s, p) ==
  /\ HandshakeAnswers(s, p, "prewarm")
  /\ SetCall(s, p, [calls[s][p] EXCEPT !.prewarm = "none"])
  /\ \/ /\ Open(s)
        /\ \E bound \in BOOLEAN :
             SetEntry(s, p, [entries[s][p] EXCEPT
               !.bound = bound, !.runtime = Landed(bound)])
        /\ SetDriver(s, p, [drivers[s][p] EXCEPT !.state = "ready"])
     \/ /\ ~Open(s)
        /\ SetEntry(s, p, [entries[s][p] EXCEPT !.runtime = "cold", !.bound = FALSE])
        /\ SetDriver(s, p, [drivers[s][p] EXCEPT !.state = "closed"])
  /\ UNCHANGED <<scopes, index, executions>>

\* The handshake times out or reports something the driver cannot use.  Nothing shuts
\* the process down.
handshakeFails(s, p, c) ==
  /\ Stage(calls[s][p], c) = "handshake"
  /\ Rejected(s, p, c, "failed", AfterFailure(s, p, c))
-------------------------------------------------------------------------------
(* respawn: the driver lets go of its process and waits for it to be gone.   *)
LetsGo(s, p)     == [drivers[s][p] EXCEPT !.process = IF @ = "live" THEN "leaving" ELSE @]
Restarting(s, p) == IF drivers[s][p].process = "live" THEN "shutdown" ELSE calls[s][p].respawn

\* A line is too long for the protocol while no turn runs; a restart that was shaking hands
\* with the process is rejected.
protocolLimit(s, p) ==
  /\ drivers[s][p].process = "live"
  /\ calls[s][p].turn # "running" /\ calls[s][p].respawn \in {"none", "handshake"}
  /\ \/ /\ SetDriver(s, p, LetsGo(s, p))
        /\ SetCall(s, p, [calls[s][p] EXCEPT !.respawn = "shutdown"])
        /\ UNCHANGED <<scopes, index, entries, executions>>
     \/ calls[s][p].respawn = "handshake" /\ HostDies

\* The old process is gone: the driver starts another one, unless it is being closed.
respawnStarts(s, p) ==
  /\ calls[s][p].respawn = "shutdown"
  /\ drivers[s][p].process # "leaving"
  /\ \/ /\ isClosingOrClosed(s, p)
        /\ SetCall(s, p, [calls[s][p] EXCEPT !.respawn = "none"])
        /\ UNCHANGED drivers
     \/ /\ ~isClosingOrClosed(s, p)
        /\ SetCall(s, p, [calls[s][p] EXCEPT !.respawn = "starting"])
        /\ SetDriver(s, p, [drivers[s][p] EXCEPT !.state = "starting"])
  /\ UNCHANGED <<scopes, index, entries, executions>>

respawnEnds(s, p) ==
  /\ HandshakeAnswers(s, p, "respawn")
  /\ SetDriver(s, p, [drivers[s][p] EXCEPT !.state = "ready"])
  /\ SetCall(s, p, [calls[s][p] EXCEPT !.respawn = "none"])
  /\ UNCHANGED <<scopes, index, entries, executions>>
-------------------------------------------------------------------------------
(* execute's checks, in their order.                                        *)
executeAnswer(s, p, e, epoch) ==
  CASE ~fenced(s, epoch) \/ scopes[s].state # "active" -> "refused"
    [] p \notin scopes[s].members                      -> "unknown participant"
    [] entries[s][p].runtime # "ready"                 -> "participant busy"
    [] entries[s][p].busy # None                       -> "participant busy"
    [] runningCount >= MaxConcurrentExecutions         -> "resource limit"
    [] executions[e].state # "absent"                  -> "existing"
    [] OTHER                                           -> "begun"

\* execute when it begins e.  The reconciler may ask for a rebase instead of a turn; a
\* driver without a process starts one first; one with a process that is not ready fails.
execute(s, p, e, epoch) ==
  LET begun == [state |-> "running", scope |-> s, participant |-> p]
      busy  == [entries[s][p] EXCEPT !.runtime = "busy", !.busy = e]
      d     == drivers[s][p]
  IN /\ executeAnswer(s, p, e, epoch) = "begun"
     /\ UNCHANGED index
     /\ \/ /\ executions' = [executions EXCEPT ![e] = [begun EXCEPT !.state = "terminal"]]
           /\ scopes' = [scopes EXCEPT ![s].idleTimer = TRUE]
           /\ UNCHANGED <<entries, drivers, calls>>
        \/ /\ d.process = "live" /\ d.state = "ready"
           /\ executions' = [executions EXCEPT ![e] = begun]
           /\ SetEntry(s, p, busy)
           /\ SetDriver(s, p, [d EXCEPT !.state = "busy"])
           /\ SetCall(s, p, [calls[s][p] EXCEPT !.turn = "running", !.retried = FALSE])
           /\ UNCHANGED scopes
        \/ /\ d.process # "live"
           /\ executions' = [executions EXCEPT ![e] = begun]
           /\ SetEntry(s, p, busy)
           /\ SetDriver(s, p, [d EXCEPT !.state = "starting"])
           /\ SetCall(s, p, [calls[s][p] EXCEPT !.turn = "starting", !.retried = TRUE])
           /\ UNCHANGED scopes
        \/ /\ d.process = "live" /\ d.state # "ready"
           /\ executions' = [executions EXCEPT ![e] = [begun EXCEPT !.state = "terminal"]]
           /\ scopes' = [scopes EXCEPT ![s].idleTimer = TRUE]
           /\ SetEntry(s, p, busy)
           /\ SetCall(s, p, [calls[s][p] EXCEPT !.turn = "settled"])
           /\ UNCHANGED drivers

\* The process of the safe retry is up: the turn runs, or ends without a prompt when it was
\* cancelled or its driver closed meanwhile.
retryRuns(s, p) ==
  /\ HandshakeAnswers(s, p, "turn")
  /\ UNCHANGED <<index, entries>>
  /\ \/ /\ drivers[s][p].process = "live"
        /\ SetDriver(s, p, [drivers[s][p] EXCEPT !.state = "busy"])
        /\ SetCall(s, p, [calls[s][p] EXCEPT !.turn = "running"])
        /\ UNCHANGED <<scopes, executions>>
     \/ /\ SetDriver(s, p, [drivers[s][p] EXCEPT !.state = "ready"])
        /\ SetCall(s, p, [calls[s][p] EXCEPT !.turn = "settled"])
        /\ emitAndSweep(s, entries[s][p].busy)

Idle(state) == IF state = "busy" THEN "ready" ELSE state

\* A turn reaches its terminal: a result or a failure leaves the process; a timeout, a line
\* too long or a cancel the CLI did not answer restarts it in the background.
turnEnds(s, p) ==
  /\ calls[s][p].turn = "running"
  /\ emitAndSweep(s, entries[s][p].busy)
  /\ \/ /\ SetDriver(s, p, [drivers[s][p] EXCEPT !.state = Idle(@)])
        /\ SetCall(s, p, [calls[s][p] EXCEPT !.turn = "settled"])
     \/ /\ SetDriver(s, p, [LetsGo(s, p) EXCEPT !.state = Idle(@)])
        /\ SetCall(s, p, [calls[s][p] EXCEPT !.turn = "settled", !.respawn = Restarting(s, p)])
  /\ UNCHANGED <<index, entries>>

AfterTurn(runtime) == IF runtime = "busy" THEN "ready" ELSE runtime

\* The finally of execute: driver.execute has returned.
turnSettles(s, p) ==
  /\ calls[s][p].turn = "settled"
  /\ SetEntry(s, p, [entries[s][p] EXCEPT
       !.busy = None, !.runtime = AfterTurn(@)])
  /\ SetCall(s, p, [calls[s][p] EXCEPT !.turn = "none"])
  /\ UNCHANGED <<scopes, index, drivers, executions>>

\* Variant: a lost process is replaced as often as it takes.
MayRetry_Endless(s, p) == TRUE
MayRetry(s, p) == ~calls[s][p].retried

\* onProcessExit.  Whoever awaits a handshake is rejected; a turn fails, or, before its
\* prompt left the Host and unless the driver is being closed, is tried once more.
processExits(s, p) ==
  LET closing == isClosingOrClosed(s, p)
      left    == [state   |-> IF closing THEN drivers[s][p].state ELSE "cold",
                  process |-> "none"]
  IN \/ \E c \in Callers : /\ Stage(calls[s][p], c) = "handshake"
                            /\ Rejected(s, p, c, IF closing THEN "cold" ELSE "failed", left)
     \/ /\ calls[s][p].turn = "running"
        /\ emitAndSweep(s, entries[s][p].busy)
        /\ SetCall(s, p, [calls[s][p] EXCEPT !.turn = "settled"])
        /\ SetDriver(s, p, left)
        /\ UNCHANGED <<index, entries>>
     \/ /\ calls[s][p].turn = "running" /\ ~closing /\ MayRetry(s, p)
        /\ SetCall(s, p, [calls[s][p] EXCEPT !.turn = "starting", !.retried = TRUE])
        /\ SetDriver(s, p, [left EXCEPT !.state = "starting"])
        /\ UNCHANGED <<scopes, index, entries, executions>>
     \/ /\ calls[s][p].turn # "running"
        /\ \A c \in Callers : Stage(calls[s][p], c) # "handshake"
        /\ SetDriver(s, p, left)
        /\ UNCHANGED <<scopes, index, entries, calls, executions>>

processCrashes(s, p) == drivers[s][p].process = "live" /\ processExits(s, p)
processIsGone(s, p)  == drivers[s][p].process = "leaving" /\ processExits(s, p)
-------------------------------------------------------------------------------
(* closeScopeInternal up to its await: every driver is told to close.       *)
CloseScopes(S) ==
  /\ scopes' = [s \in ScopeIds |->
       IF s \in S THEN [scopes[s] EXCEPT !.state = "closing", !.creatingTimer = FALSE,
                                         !.idleTimer = FALSE]
       ELSE scopes[s]]
  /\ drivers' = [s \in ScopeIds |-> [p \in Participants |->
       IF s \in S /\ p \in scopes[s].members THEN ClosingDriver(s, p) ELSE drivers[s][p]]]
  /\ calls' = [s \in ScopeIds |-> [p \in Participants |->
       IF s \in S /\ p \in scopes[s].members THEN ClosingCall(s, p, "scope") ELSE calls[s][p]]]
  /\ UNCHANGED <<index, entries, executions>>

closeScope(s, epoch) == fenced(s, epoch) /\ CloseScopes({s})

creatingTtlExpires(s) == /\ scopes[s].creatingTimer
                         /\ scopes[s].state = "creating"
                         /\ CloseScopes({s})

\* A busy seat only re-arms the timer.
idleTtlExpires(s) ==
  /\ scopes[s].idleTimer
  /\ scopes[s].state = "active"
  /\ \A p \in scopes[s].members : entries[s][p].busy = None /\ entries[s][p].runtime # "busy"
  /\ CloseScopes({s})

closeAll == \E s \in ScopeIds : Open(s) /\ CloseScopes({t \in ScopeIds : Open(t)})

\* driver.close() is past the interrupt of a turn: the process is let go of and shut down.
closeTakes(s, p, who) ==
  /\ calls[s][p].close[who] = "asked"
  /\ drivers[s][p].process = "live"
  /\ SetDriver(s, p, [drivers[s][p] EXCEPT !.process = "leaving"])
  /\ SetCall(s, p, [calls[s][p] EXCEPT !.close[who] = "shutting"])
  /\ UNCHANGED <<scopes, index, entries, executions>>

\* driver.close() returns: the process it took is gone, or it found none to take.
closeReturns(s, p, who) ==
  /\ \/ calls[s][p].close[who] = "asked" /\ drivers[s][p].process \notin {"pending", "live"}
     \/ calls[s][p].close[who] = "shutting" /\ drivers[s][p].process # "leaving"
  /\ SetDriver(s, p, [drivers[s][p] EXCEPT !.state = "closed"])
  /\ SetEntry(s, p, [entries[s][p] EXCEPT !.runtime = IF who = "scope" THEN "cold" ELSE @])
  /\ SetCall(s, p, [calls[s][p] EXCEPT !.close[who] = "none", !.closed = @ \/ who = "scope"])
  /\ UNCHANGED <<scopes, index, executions>>

\* The rest of closeScopeInternal: releaseScope forgets the scope's executions.
closeScopeEnds(s) ==
  /\ scopes[s].state = "closing"
  /\ \A p \in scopes[s].members : calls[s][p].closed
  /\ scopes' = [scopes EXCEPT ![s].state = "closed"]
  /\ index' = [index EXCEPT ![scopes[s].request] = None]
  /\ executions' = [e \in ExecutionIds |->
       IF executions[e].scope = s THEN [executions[e] EXCEPT !.state = "released"]
       ELSE executions[e]]
  /\ UNCHANGED <<entries, drivers, calls>>
-------------------------------------------------------------------------------
Request == \/ \E s \in ScopeIds, r \in RequestIds, members \in SUBSET Participants :
                members # {} /\ createScope(s, r, members)
           \/ \E s \in ScopeIds, epoch \in 1 .. MaxEpoch :
                activateScope(s, epoch) \/ closeScope(s, epoch)
           \/ \E s \in ScopeIds : takeover(s)
           \/ \E s \in ScopeIds, p \in Participants, e \in ExecutionIds, epoch \in 1 .. MaxEpoch :
                execute(s, p, e, epoch)
           \/ closeAll

Spawn(s, p, c) == spawnBegins(s, p, c) \/ spawnLands(s, p, c) \/ handshakeFails(s, p, c)

Prewarm(s, p) == Spawn(s, p, "prewarm") \/ prewarmResolves(s, p)
Turn(s, p)    == Spawn(s, p, "turn") \/ retryRuns(s, p) \/ turnEnds(s, p) \/ turnSettles(s, p)
Respawn(s, p) == Spawn(s, p, "respawn") \/ respawnStarts(s, p) \/ respawnEnds(s, p)
Close(s, p)   == \E who \in {"scope", "create"} : closeTakes(s, p, who) \/ closeReturns(s, p, who)

Timer(s) == creatingTtlExpires(s) \/ idleTtlExpires(s)

Next == \/ Request
        \/ \E s \in ScopeIds : \/ Timer(s) \/ createScopeReturns(s) \/ closeScopeEnds(s)
                               \/ \E p \in Participants :
                                    \/ Prewarm(s, p) \/ Turn(s, p) \/ Respawn(s, p) \/ Close(s, p)
                                    \/ protocolLimit(s, p)
                                    \/ processCrashes(s, p) \/ processIsGone(s, p)

\* Every await ends: a handshake, a turn and a shutdown have deadlines, and an armed timer
\* fires.  A process need not crash, nor write a line that is too long.
Fairness == \A s \in ScopeIds :
              /\ WF_vars(Timer(s)) /\ WF_vars(createScopeReturns(s)) /\ WF_vars(closeScopeEnds(s))
              /\ \A p \in Participants :
                   /\ WF_vars(Prewarm(s, p)) /\ WF_vars(Turn(s, p)) /\ WF_vars(Respawn(s, p))
                   /\ WF_vars(Close(s, p)) /\ WF_vars(processIsGone(s, p))

Spec == Init /\ [][Next]_vars /\ Fairness
===============================================================================
