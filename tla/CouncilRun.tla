------------------------------ MODULE CouncilRun ------------------------------
(***************************************************************************)
(* One discussion run of the command line: runCouncil                      *)
(* (cli/src/run/orchestrator.ts) with the turn it drives (executeTurn,     *)
(* cli/src/host/execute-turn.ts) against one Scope of the Runtime Host.    *)
(* No page and no database: what the run keeps is transcript.jsonl and     *)
(* report.md, what it tells is its exit code.                              *)
(*                                                                         *)
(* A request to the Host may be answered, refused, lost before or after it *)
(* took effect, or hang until the signal it was given aborts it; a create  *)
(* or an execute that was cut off may still take effect later.  Which      *)
(* signal each request was given is what decides whether an interrupted    *)
(* run ends.  The process may be killed between any two steps: the files   *)
(* and the Host are then what they are.                                    *)
(*                                                                         *)
(* Abstractions.  A turn is its number; a transcript is the set of turns   *)
(* it has a record of (records are only appended).  The reconnects inside  *)
(* driveToTerminal are ExecutionStream's.                                  *)
(***************************************************************************)
EXTENDS Naturals

CONSTANTS MessageTurns,  \* rounds times agents
          MaxFaults,     \* bound: requests refused or lost, Host failures, file errors
          None

ASSUME TurnsAssumption == MessageTurns \in Nat /\ MaxFaults \in Nat
ASSUME NoneAssumption  == None \notin {"committed", "discarded", "success", "partial",
                                       "completed", "interrupted", "failed"}

VARIABLES scope, turns, acks,  \* the Host: the Scope, each execution, its ACK
          late,                \* requests that were cut off and may still arrive
          files,               \* transcript.jsonl and report.md on disk
          records,             \* the transcript in memory
          run,                 \* where runCouncil and executeTurn are, and their locals
          aborted,             \* SIGINT or SIGTERM was received
          timedOut,            \* the generation watchdog of the current turn has fired
          spent,               \* the shared cleanup budget has run out
          faults,              \* bound
          lost                 \* history: the cleanups that failed, at the "host" or of the "report"

hostVars == <<scope, turns, acks, late>>
diskVars == <<files, records>>
vars     == <<hostVars, diskVars, run, aborted, timedOut, spent, faults, lost>>

Turns     == 1 .. MessageTurns + 1
Reporter  == MessageTurns + 1
Terminals == {"completed", "empty", "failed", "interrupted"}
TurnPcs   == {"execute", "probe", "follow", "cancel", "observe", "persist", "ack"}
Pcs       == TurnPcs \cup {"start", "create", "retryCreate", "recoverCreate", "recoverClose",
                           "activate", "next", "patch", "close", "settle", "report", "out",
                           "finish", "reconcile", "done"}

Runs == [pc : Pcs, n : 0 .. MessageTurns + 1, known : BOOLEAN,
         disposition : {"committed", "discarded"}, outcome : {"completed", "failed", "interrupted", "io"},
         under : {"deadline", "budget"}, status : {"completed", "interrupted", "failed"},
         failure : {None, "signal", "io", "report", "cleanup", "run"},
         artifactIo : BOOLEAN, closeFailed : BOOLEAN, success : BOOLEAN, out : BOOLEAN]

Files == [transcript : SUBSET Turns, finished : {None, "completed", "interrupted", "failed"},
          report : {None, "success", "partial"}]

HostType ==
  /\ scope \in {"none", "creating", "active", "closed"}
  /\ turns \in [Turns -> {"none", "running", "killed"} \cup Terminals]
  /\ acks \in [Turns -> {None, "committed", "discarded"}]
  /\ late \subseteq {"create", "execute"}

DiskType == files \in Files /\ records \subseteq Turns

SignalsType ==
  /\ aborted \in BOOLEAN /\ timedOut \in BOOLEAN /\ spent \in BOOLEAN
  /\ faults \in 0 .. MaxFaults /\ lost \subseteq {"host", "report"}

CouncilTypeOK == HostType /\ DiskType /\ run \in Runs /\ SignalsType

Init ==
  /\ scope = "none" /\ turns = [e \in Turns |-> "none"] /\ acks = [e \in Turns |-> None]
  /\ late = {}
  /\ files = [transcript |-> {}, finished |-> None, report |-> None] /\ records = {}
  /\ \E out \in BOOLEAN :
       run = [pc |-> "start", n |-> 0, known |-> FALSE, disposition |-> "discarded",
              outcome |-> "failed", under |-> "deadline", status |-> "completed", failure |-> None,
              artifactIo |-> FALSE, closeFailed |-> FALSE, success |-> FALSE, out |-> out]
  /\ aborted = FALSE /\ timedOut = FALSE /\ spent = FALSE /\ faults = 0 /\ lost = {}

-----------------------------------------------------------------------------
(* What the Host does with a request.                                      *)

Same == UNCHANGED <<scope, turns, acks>>

\* Idempotent in scopeRequestId; a closed Scope's request is forgotten.
Creates ==
  /\ scope' = IF scope \in {"none", "closed"} THEN "creating" ELSE scope
  /\ UNCHANGED <<turns, acks>>

Activates == scope = "creating" /\ scope' = "active" /\ UNCHANGED <<turns, acks>>

Executes(e) ==
  /\ scope = "active" /\ turns[e] = "none"
  /\ turns' = [turns EXCEPT ![e] = "running"]
  /\ UNCHANGED <<scope, acks>>

Cancels(e) ==
  /\ scope = "active" /\ turns[e] = "running"
  /\ turns' = [turns EXCEPT ![e] = "interrupted"]
  /\ UNCHANGED <<scope, acks>>

Acknowledges(e, disposition) ==
  /\ scope = "active" /\ turns[e] \in Terminals /\ acks[e] = None
  /\ acks' = [acks EXCEPT ![e] = disposition]
  /\ UNCHANGED <<scope, turns>>

\* The drivers are closed and the executions released.
Killed == [e \in Turns |-> IF turns[e] = "running" THEN "killed" ELSE turns[e]]
Closes == scope \in {"creating", "active"} /\ scope' = "closed" /\ turns' = Killed /\ UNCHANGED acks

\* getExecution finds the record.
Found(e) == scope = "active" /\ turns[e] # "none"

TurnEnds(e) ==
  /\ scope = "active" /\ turns[e] = "running"
  /\ \E end \in Terminals : turns' = [turns EXCEPT ![e] = end]
  /\ UNCHANGED <<scope, acks, late, diskVars, run, aborted, timedOut, spent, faults, lost>>

\* The Host restarts, shuts down, or reaps the Scope.
HostLoses ==
  /\ faults < MaxFaults /\ faults' = faults + 1
  /\ Closes
  /\ UNCHANGED <<late, diskVars, run, aborted, timedOut, spent, lost>>

LateLands ==
  /\ \/ "create" \in late /\ Creates /\ late' = late \ {"create"} /\ lost' = lost \cup {"host"}
     \/ "execute" \in late /\ Executes(run.n) /\ late' = late \ {"execute"} /\ UNCHANGED lost
  /\ UNCHANGED <<diskVars, run, aborted, timedOut, spent, faults>>

-----------------------------------------------------------------------------
(* The signals.                                                            *)

Interrupt ==
  /\ ~ aborted /\ run.pc # "done"
  /\ aborted' = TRUE
  /\ UNCHANGED <<hostVars, diskVars, run, timedOut, spent, faults, lost>>

GenerationTimeout ==
  /\ ~ timedOut /\ run.pc \in TurnPcs
  /\ timedOut' = TRUE
  /\ UNCHANGED <<hostVars, diskVars, run, aborted, spent, faults, lost>>

\* The turn's deadline signal: the watchdog's or the caller's.
Deadline == aborted \/ timedOut

\* Mutant: the close of a run without cleanup starts no timer.
UnderBudget_Turn ==
  \/ run.pc \in {"recoverCreate", "recoverClose", "probe", "cancel", "observe"}
  \/ run.pc = "ack" /\ run.under = "budget"

\* Where a request waits under the cleanup signal, whose timer was armed before it was sent.
UnderBudget ==
  \/ run.pc \in {"recoverCreate", "recoverClose", "probe", "cancel", "observe", "close"}
  \/ run.pc = "ack" /\ run.under = "budget"

BudgetEnds ==
  /\ UnderBudget /\ ~ spent
  /\ spent' = TRUE
  /\ UNCHANGED <<hostVars, diskVars, run, aborted, timedOut, faults, lost>>

-----------------------------------------------------------------------------
(* Requests.                                                               *)

At(pc) == run.pc = pc
Go(pc) == run' = [run EXCEPT !.pc = pc]

NoFault == UNCHANGED faults
Fault   == faults < MaxFaults /\ faults' = faults + 1

Answered(Effect) == Effect /\ NoFault

\* No answer that helps: the request was refused for what the Host knows (refusal), it was
\* refused or lost for another reason, or (hung) its signal aborted it.
Fails(hung, signal, refusal, Effect) ==
  /\ IF hung THEN signal /\ NoFault ELSE (refusal /\ NoFault) \/ Fault
  /\ Effect \/ Same

Delayed(hung, request) == late' = late \/ (hung /\ late' = late \cup {request})

OnlyRun  == UNCHANGED <<diskVars, aborted, timedOut, spent>>
Clean    == UNCHANGED lost
Cut      == lost' = lost \cup {"host"}

\* The end of the run's body: what remains is the finally block.
Stop(status, failure) ==
  run' = [run EXCEPT !.pc = IF run.known THEN "close" ELSE "settle",
                     !.status = IF aborted THEN "interrupted" ELSE status,
                     !.failure = IF aborted THEN "signal" ELSE failure]

\* The run directory, then the first record of the transcript.
start ==
  /\ At("start")
  /\ \/ NoFault /\ Go("create")
     \/ Fault /\ Stop("failed", "run")
     \/ Fault /\ run' = [run EXCEPT !.pc = "settle", !.status = "failed", !.failure = "io"]
  /\ UNCHANGED <<hostVars, diskVars, aborted, timedOut, spent, lost>>

\* Mutant: an interrupted create is given up.
createScope_GivenUp(hung) ==
  /\ At("create")
  /\ \/ ~ hung /\ ~ aborted /\ Answered(Creates) /\ UNCHANGED late
        /\ run' = [run EXCEPT !.pc = "activate", !.known = TRUE]
     \/ /\ Fails(hung, aborted, FALSE, Creates) /\ Delayed(hung, "create")
        /\ IF aborted THEN Stop("interrupted", "signal") ELSE Go("retryCreate")
     \/ ~ hung /\ ~ aborted /\ Fault /\ Same /\ UNCHANGED late /\ Stop("failed", "run")
  /\ OnlyRun /\ Clean

\* createScopeIdempotent: a create that was interrupted, or lost twice, is recovered and
\* closed; a refusal is final.
createScope(hung) ==
  /\ At("create")
  /\ \/ ~ hung /\ ~ aborted /\ Answered(Creates) /\ UNCHANGED late
        /\ run' = [run EXCEPT !.pc = "activate", !.known = TRUE]
     \/ /\ Fails(hung, aborted, FALSE, Creates) /\ Delayed(hung, "create")
        /\ IF aborted THEN Go("recoverCreate") ELSE Go("retryCreate")
     \/ ~ hung /\ ~ aborted /\ Fault /\ Same /\ UNCHANGED late /\ Stop("failed", "run")
  /\ OnlyRun /\ Clean

retryCreate(hung) ==
  /\ At("retryCreate")
  /\ \/ ~ hung /\ ~ aborted /\ Answered(Creates) /\ UNCHANGED late
        /\ run' = [run EXCEPT !.pc = "activate", !.known = TRUE]
     \/ Fails(hung, aborted, FALSE, Creates) /\ Delayed(hung, "create") /\ Go("recoverCreate")
  /\ OnlyRun /\ Clean

\* recoverAndCloseCreate, under the cleanup budget.
recoverCreate(hung) ==
  /\ At("recoverCreate")
  /\ \/ ~ hung /\ ~ spent /\ Answered(Creates) /\ Go("recoverClose") /\ Clean
     \/ Fails(hung, spent, FALSE, Creates) /\ Stop("failed", "run") /\ Cut
  /\ UNCHANGED late /\ OnlyRun

recoverClose(hung) ==
  /\ At("recoverClose")
  /\ \/ ~ hung /\ ~ spent /\ Answered(Closes) /\ Clean
     \/ Fails(hung, spent, scope = "closed", Closes) /\ Cut
  /\ Stop("failed", "run")
  /\ UNCHANGED late /\ OnlyRun

activateScope(hung) ==
  /\ At("activate")
  /\ \/ ~ hung /\ ~ aborted /\ Answered(Activates) /\ Go("next")
     \/ Fails(hung, aborted, scope # "creating", Activates) /\ Stop("failed", "run")
  /\ UNCHANGED late /\ OnlyRun /\ Clean

\* The turn loop and the Reporter's turn after it.
nextTurn ==
  /\ At("next")
  /\ IF aborted \/ run.n = Reporter
     THEN /\ IF aborted /\ run.n # Reporter THEN Stop("interrupted", "signal") ELSE Go("close")
          /\ UNCHANGED timedOut
     ELSE /\ run' = [run EXCEPT !.pc = "execute", !.n = @ + 1]
          /\ timedOut' = FALSE
  /\ UNCHANGED <<hostVars, diskVars, aborted, spent, faults, lost>>

-----------------------------------------------------------------------------
(* executeTurn.                                                            *)

\* What runCouncil makes of a turn's result; an abort in between outranks it.
turnDone(outcome) ==
  LET result == IF Deadline THEN "failed" ELSE outcome
  IN IF ~ Deadline /\ outcome = "completed" THEN Go("patch")
     ELSE Stop(IF result = "interrupted" /\ run.n # Reporter THEN "interrupted" ELSE "failed",
               IF result = "io" THEN "io" ELSE "run")

execute(hung) ==
  /\ At("execute")
  /\ \/ ~ hung /\ ~ Deadline /\ Answered(Executes(run.n)) /\ Go("follow") /\ UNCHANGED late
     \/ /\ Fails(hung, Deadline, scope # "active", Executes(run.n)) /\ Delayed(hung, "execute")
        /\ Go("probe")
  /\ OnlyRun /\ Clean

\* checkAmbiguousDispatch: only a definite 404 spares the cleanup.
probe(hung) ==
  /\ At("probe")
  /\ \/ ~ hung /\ ~ spent /\ NoFault /\ IF Found(run.n) THEN Go("cancel") ELSE turnDone("failed")
     \/ Fails(hung, spent, FALSE, Same) /\ Go("cancel")
  /\ UNCHANGED hostVars /\ OnlyRun /\ Clean

\* Mutant: an output that could not be written is acknowledged all the same.
startAck_Early(disposition, outcome) ==
  run' = [run EXCEPT !.pc = "ack", !.disposition = "committed", !.outcome = outcome,
                     !.under = IF Deadline THEN "budget" ELSE "deadline"]

\* The terminal's ACK runs under the deadline, or under the budget once that is over.
startAck(disposition, outcome) ==
  run' = [run EXCEPT !.pc = "ack", !.disposition = disposition, !.outcome = outcome,
                     !.under = IF Deadline THEN "budget" ELSE "deadline"]

\* driveToTerminal: a terminal, or a stream that is over without one, after which the turn is
\* neither cancelled nor acknowledged: the close of the Scope ends it.  An abort cuts the
\* stream off as any other error does, since its reason is no AbortError; only one that
\* meets the status request after a connection that was closed is taken for an abort.
follow(hung) ==
  /\ At("follow")
  /\ \/ /\ ~ hung /\ NoFault /\ scope = "active" /\ turns[run.n] \in Terminals
        /\ IF turns[run.n] = "completed" THEN Go("persist")
           ELSE startAck("discarded", IF turns[run.n] = "interrupted" THEN "interrupted" ELSE "failed")
     \/ ~ hung /\ (Fault \/ (scope # "active" /\ NoFault)) /\ turnDone("failed")
     \/ hung /\ Deadline /\ ((NoFault /\ turnDone("failed")) \/ (Fault /\ Go("cancel")))
  /\ UNCHANGED hostVars /\ OnlyRun /\ Clean

\* handleAbort, after an unsettled dispatch or an abort: cancel, observe the terminal, discard it.
cancelExecution(hung) ==
  /\ At("cancel")
  /\ \/ ~ hung /\ ~ spent /\ Answered(Cancels(run.n))
     \/ Fails(hung, spent, turns[run.n] # "running" \/ scope # "active", Cancels(run.n))
  /\ Go("observe")
  /\ UNCHANGED late /\ OnlyRun /\ Clean

\* Five looks within a tenth of a second.
observe(hung) ==
  /\ At("observe")
  /\ \/ /\ ~ hung /\ ~ spent /\ NoFault /\ Found(run.n) /\ turns[run.n] \in Terminals
        /\ run' = [run EXCEPT !.pc = "ack", !.disposition = "discarded", !.outcome = "failed",
                              !.under = "budget"]
     \/ Fails(hung, spent, ~ Found(run.n) \/ turns[run.n] = "running", Same) /\ turnDone("failed")
  /\ UNCHANGED hostVars /\ OnlyRun /\ Clean

Transcript(report) ==
  files' = [files EXCEPT !.transcript = records', !.report = IF report # None THEN report ELSE @]

\* makePersist and makeReporterPersist: the record stays in memory whatever the files do.
persist ==
  /\ At("persist")
  /\ records' = records \cup {run.n}
  /\ \/ /\ NoFault
        /\ IF run.n = Reporter
           THEN /\ Transcript("success")
                /\ run' = [run EXCEPT !.pc = "ack", !.disposition = "committed", !.outcome = "completed",
                                      !.under = IF Deadline THEN "budget" ELSE "deadline",
                                      !.success = TRUE]
           ELSE Transcript(None) /\ startAck("committed", "completed")
     \/ /\ Fault
        /\ UNCHANGED files \/ (run.n = Reporter /\ Transcript(None))
        /\ startAck("discarded", "io")
  /\ UNCHANGED <<hostVars, aborted, timedOut, spent, lost>>

\* ackOnce: an abort during the ACK is not a conflict; remapIfAborted comes after it.
ackOnce(hung) ==
  LET signal == IF run.under = "deadline" THEN Deadline ELSE spent
      Effect == Acknowledges(run.n, run.disposition)
  IN /\ At("ack")
     /\ \/ ~ hung /\ ~ signal /\ Answered(Effect) /\ turnDone(run.outcome)
        \/ Fails(hung, signal, ~ Found(run.n), Effect) /\ turnDone("failed")
     /\ UNCHANGED late /\ OnlyRun /\ Clean

\* patchLastTurnDuration.
patchDuration ==
  /\ At("patch")
  /\ \/ NoFault /\ files' = [files EXCEPT !.transcript = records] /\ Go("next")
     \/ Fault /\ UNCHANGED files
        /\ run' = [run EXCEPT !.pc = "close", !.status = "failed", !.failure = "io"]
  /\ UNCHANGED <<hostVars, records, aborted, timedOut, spent, lost>>

-----------------------------------------------------------------------------
(* The finally block, the artifacts and the exit code.                     *)

closeScope(hung) ==
  /\ At("close")
  /\ \/ ~ hung /\ ~ spent /\ Answered(Closes) /\ Go("settle") /\ Clean
     \/ /\ Fails(hung, spent, scope = "closed", Closes) /\ Cut
        /\ run' = [run EXCEPT !.pc = "settle", !.closeFailed = TRUE]
  /\ UNCHANGED late /\ OnlyRun

\* The verdict: a signal outranks a failed close, which outranks a completed run.
settle ==
  /\ At("settle")
  /\ LET closing == IF run.closeFailed THEN "cleanup" ELSE None
         why     == IF aborted THEN "signal" ELSE closing
     IN run' = [run EXCEPT
                  !.pc = "report",
                  !.status = IF aborted THEN "interrupted"
                             ELSE IF @ = "completed" /\ run.closeFailed THEN "failed" ELSE @,
                  !.failure = IF @ = None THEN why ELSE @]
  /\ UNCHANGED <<hostVars, diskVars, aborted, timedOut, spent, faults, lost>>

\* An error of an artifact, recorded beside the failure that came before it.
artifactFails(phase, status, pc) ==
  /\ Fault
  /\ run' = [run EXCEPT !.pc = pc, !.artifactIo = TRUE, !.status = status,
                        !.failure = IF @ = None THEN phase ELSE @]
  /\ UNCHANGED files

Downgraded == IF run.status = "completed" THEN "failed" ELSE run.status

\* `success` now says what report.md is known to hold (canonicalIsSuccess).
writeReport ==
  /\ At("report")
  /\ \/ /\ NoFault
        /\ files' = [files EXCEPT !.report = IF run.status = "completed" THEN "success" ELSE "partial"]
        /\ run' = [run EXCEPT !.pc = IF run.out THEN "out" ELSE "finish",
                              !.success = run.status = "completed"]
     \/ artifactFails("report", Downgraded, "finish")
  /\ UNCHANGED <<hostVars, records, aborted, timedOut, spent, lost>>

\* A copy that fails makes the run failed, an interrupted one too.
writeCopy ==
  /\ At("out")
  /\ \/ NoFault /\ Go("finish") /\ UNCHANGED files
     \/ artifactFails("report", "failed", "finish")
  /\ UNCHANGED <<hostVars, records, aborted, timedOut, spent, lost>>

finishTranscript ==
  /\ At("finish")
  /\ \/ /\ NoFault /\ Go("reconcile")
        /\ files' = [files EXCEPT !.transcript = records, !.finished = run.status]
     \/ artifactFails("io", Downgraded, "reconcile")
  /\ UNCHANGED <<hostVars, records, aborted, timedOut, spent, lost>>

\* Mutant: the report stays as it was.
reconcile_Never == At("reconcile") /\ Go("done") /\ UNCHANGED <<hostVars, diskVars, aborted, timedOut, spent, faults, lost>>

\* A success report of a run that has failed since is replaced.
reconcile ==
  /\ At("reconcile")
  /\ IF run.status # "completed" /\ run.success
     THEN \/ /\ NoFault /\ files' = [files EXCEPT !.report = "partial"]
             /\ run' = [run EXCEPT !.pc = "done", !.success = FALSE] /\ Clean
          \/ /\ Fault /\ UNCHANGED files /\ lost' = lost \cup {"report"}
             /\ run' = [run EXCEPT !.pc = "done", !.success = FALSE, !.artifactIo = TRUE]
     ELSE Go("done") /\ NoFault /\ UNCHANGED files /\ Clean
  /\ UNCHANGED <<hostVars, records, aborted, timedOut, spent>>

exitCode ==
  IF aborted /\ run.status = "interrupted" THEN 130
  ELSE IF run.artifactIo THEN 5
  ELSE IF run.status = "completed" THEN 0
  ELSE IF run.failure \in {"io", "report"} THEN 5 ELSE 4

-----------------------------------------------------------------------------
Request(hung) ==
  \/ createScope(hung) \/ retryCreate(hung) \/ recoverCreate(hung) \/ recoverClose(hung)
  \/ activateScope(hung) \/ execute(hung) \/ probe(hung) \/ follow(hung)
  \/ cancelExecution(hung) \/ observe(hung) \/ ackOnce(hung) \/ closeScope(hung)

Local ==
  \/ start \/ nextTurn \/ persist \/ patchDuration \/ settle
  \/ writeReport \/ writeCopy \/ finishTranscript \/ reconcile

Next ==
  \/ Local \/ \E hung \in BOOLEAN : Request(hung)
  \/ Interrupt \/ GenerationTimeout \/ BudgetEnds
  \/ \E e \in Turns : TurnEnds(e)
  \/ HostLoses \/ LateLands

\* The process runs, an aborted request rejects and the timer of the budget fires.  The Host
\* need not answer anything.
Fairness == WF_vars(Local) /\ WF_vars(Request(TRUE)) /\ WF_vars(BudgetEnds)

Spec == Init /\ [][Next]_vars /\ Fairness

-----------------------------------------------------------------------------
(* What a run promises.                                                    *)

\* An output the Host was told is committed, and may forget, is in the transcript, and the
\* Reporter's in a report: whenever the process is killed, whatever write has failed
\* (persist before the committed ACK; makePersist, makeReporterPersist, ackOnce).
CommittedIsDurable ==
  \A e \in Turns : acks[e] = "committed" =>
    e \in files.transcript /\ (e = Reporter => files.report # None)

\* Exit code, transcript and report tell one story.  A run that exits 0 has every turn on
\* disk and acknowledged, its Scope closed and its success report written.  Any other leaves
\* no report of success, though an earlier write of the partial one failed, unless its last
\* attempt failed too; and the status in the transcript is the run's unless a failed write is
\* what the run reports (settle, the INCOMPLETE reconciliation, exitCodeForRun).
ArtifactsTellTheVerdict ==
  At("done") =>
    /\ exitCode = 0 => /\ files = [transcript |-> Turns, finished |-> "completed", report |-> "success"]
                       /\ \A e \in Turns : acks[e] = "committed"
                       /\ scope \notin {"creating", "active"}
    /\ files.report = "success" => exitCode = 0 \/ "report" \in lost
    /\ files.finished # run.status => run.artifactIo /\ exitCode \in {5, 130}

\* A run that is over has left nothing at the Host: no Scope that holds its seats and no turn
\* that goes on, whenever it was interrupted, unless a request to clean up failed or ran out
\* of its budget, or a create that was cut off landed after all (recoverAndCloseCreate,
\* closeScopeBounded).
NothingRunsOn ==
  At("done") /\ "host" \notin lost =>
    scope \notin {"creating", "active"} /\ \A e \in Turns : turns[e] # "running"

\* An interrupted run ends, though the Host may never answer again: every request it waits
\* for carries a signal that is aborted by then or will be (raceAbort, cleanupOf, RunCleanup.arm).
InterruptedRunEnds == aborted ~> At("done")
=============================================================================
