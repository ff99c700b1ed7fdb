----------------------------- MODULE CouncilProofs -----------------------------
(***************************************************************************)
(* What holds of a run of the command line for any number of turns and     *)
(* faults: its state is well formed, what was acknowledged as committed is *)
(* on disk, its exit code agrees with its transcript and its report, and   *)
(* nothing of it runs on at the Host once it is over.                      *)
(***************************************************************************)
EXTENDS CouncilRun, TLAPS

\* executeTurn runs for a turn.
RunType == run \in Runs /\ (run.pc \in TurnPcs \cup {"patch"} => run.n \in Turns)

Typed == RunType /\ HostType /\ DiskType /\ SignalsType

-----------------------------------------------------------------------------
LEMMA InitTyped ==
  ASSUME Init
  PROVE  Typed
<1>1. RunType
  BY TurnsAssumption DEF Init, RunType, Runs, Pcs, TurnPcs
<1>2. HostType
  BY DEF Init, HostType
<1>3. DiskType
  <2>1. files = [transcript |-> {}, finished |-> None, report |-> None] /\ records = {}
    BY DEF Init
  <2>2. files \in Files
    BY <2>1 DEF Files
  <2>3. QED
    BY <2>1, <2>2 DEF DiskType
<1>4. SignalsType
  <2>1. aborted = FALSE /\ timedOut = FALSE /\ spent = FALSE /\ faults = 0 /\ lost = {}
    BY DEF Init
  <2>2. 0 \in 0 .. MaxFaults
    BY TurnsAssumption
  <2>3. QED
    BY <2>1, <2>2 DEF SignalsType
<1>5. QED
  BY <1>1, <1>2, <1>3, <1>4 DEF Typed

-----------------------------------------------------------------------------
(* Where the run is.                                                       *)

LEMMA EndTyped ==
  ASSUME RunType, NEW pc \in {"close", "settle"}, NEW status \in {"interrupted", "failed"},
         NEW failure \in {"signal", "io", "run"},
         run' = [run EXCEPT !.pc = pc, !.status = status, !.failure = failure]
  PROVE  RunType'
BY DEF RunType, Runs, Pcs, TurnPcs

LEMMA StopTyped ==
  ASSUME RunType, NEW status \in {"interrupted", "failed"}, NEW failure \in {"signal", "io", "run"},
         Stop(status, failure)
  PROVE  RunType'
BY EndTyped, Zenon DEF Stop

LEMMA TurnDoneTyped ==
  ASSUME RunType, run.pc \in TurnPcs, NEW outcome \in {"completed", "failed", "interrupted", "io"},
         turnDone(outcome)
  PROVE  RunType'
<1>1. CASE Go("patch")
  BY <1>1 DEF Go, RunType, Runs, Pcs, TurnPcs
<1>2. CASE \E status \in {"interrupted", "failed"}, failure \in {"io", "run"} : Stop(status, failure)
  BY <1>2, StopTyped
<1>3. QED
  BY <1>1, <1>2 DEF turnDone

LEMMA GoTyped ==
  ASSUME RunType, NEW pc \in Pcs, pc \in TurnPcs \cup {"patch"} => run.n \in Turns, Go(pc)
  PROVE  RunType'
BY DEF Go, RunType, Runs

LEMMA OpeningRuns ==
  ASSUME RunType, NEW hung \in BOOLEAN,
         createScope(hung) \/ retryCreate(hung) \/ recoverCreate(hung) \/ recoverClose(hung)
           \/ activateScope(hung) \/ closeScope(hung)
  PROVE  RunType'
<1>1. \/ \E pc \in {"recoverCreate", "retryCreate", "recoverClose", "next", "settle"} : Go(pc)
      \/ run' = [run EXCEPT !.pc = "activate", !.known = TRUE]
      \/ run' = [run EXCEPT !.pc = "settle", !.closeFailed = TRUE]
      \/ Stop("failed", "run")
  BY DEF createScope, retryCreate, recoverCreate, recoverClose, activateScope, closeScope
<1>2. CASE \E pc \in {"recoverCreate", "retryCreate", "recoverClose", "next", "settle"} : Go(pc)
  BY <1>2, GoTyped DEF Pcs, TurnPcs
<1>3. CASE run' = [run EXCEPT !.pc = "activate", !.known = TRUE]
  BY <1>3 DEF RunType, Runs, Pcs, TurnPcs
<1>4. CASE run' = [run EXCEPT !.pc = "settle", !.closeFailed = TRUE]
  BY <1>4 DEF RunType, Runs, Pcs, TurnPcs
<1>5. QED
  BY <1>1, <1>2, <1>3, <1>4, StopTyped

LEMMA StartAckTyped ==
  ASSUME RunType, run.pc \in TurnPcs, NEW disposition \in {"committed", "discarded"},
         NEW outcome \in {"completed", "failed", "interrupted", "io"},
         startAck(disposition, outcome)
  PROVE  RunType'
<1> DEFINE under == IF Deadline THEN "budget" ELSE "deadline"
<1>1. run' = [run EXCEPT !.pc = "ack", !.disposition = disposition, !.outcome = outcome,
                         !.under = under]
  BY DEF startAck
<1>2. under \in {"deadline", "budget"}
  OBVIOUS
<1> HIDE DEF under
<1>3. QED
  BY <1>1, <1>2 DEF RunType, Runs, Pcs, TurnPcs

LEMMA TurnRuns ==
  ASSUME RunType, NEW hung \in BOOLEAN,
         execute(hung) \/ probe(hung) \/ follow(hung) \/ cancelExecution(hung) \/ observe(hung)
           \/ ackOnce(hung)
  PROVE  RunType'
<1>1. run.pc \in TurnPcs
  BY DEF execute, probe, follow, cancelExecution, observe, ackOnce, At, TurnPcs
<1>2. run.n \in Turns
  BY <1>1 DEF RunType
<1>3. run.outcome \in {"completed", "failed", "interrupted", "io"}
  BY DEF RunType, Runs
<1>4. \/ \E pc \in {"follow", "probe", "cancel", "observe", "persist"} : Go(pc)
      \/ \E outcome \in {"failed", "interrupted"} : startAck("discarded", outcome)
      \/ \E outcome \in {"failed", run.outcome} : turnDone(outcome)
      \/ run' = [run EXCEPT !.pc = "ack", !.disposition = "discarded", !.outcome = "failed",
                            !.under = "budget"]
  BY DEF execute, probe, follow, cancelExecution, observe, ackOnce
<1>5. CASE \E pc \in {"follow", "probe", "cancel", "observe", "persist"} : Go(pc)
  BY <1>2, <1>5, GoTyped DEF Pcs, TurnPcs
<1>6. CASE \E outcome \in {"failed", "interrupted"} : startAck("discarded", outcome)
  BY <1>1, <1>6, StartAckTyped
<1>7. CASE \E outcome \in {"failed", run.outcome} : turnDone(outcome)
  BY <1>1, <1>3, <1>7, TurnDoneTyped
<1>8. CASE run' = [run EXCEPT !.pc = "ack", !.disposition = "discarded", !.outcome = "failed",
                              !.under = "budget"]
  BY <1>2, <1>8 DEF RunType, Runs, Pcs, TurnPcs
<1>9. QED
  BY <1>4, <1>5, <1>6, <1>7, <1>8

LEMMA VerdictRuns ==
  ASSUME RunType, settle \/ writeReport \/ writeCopy \/ finishTranscript \/ reconcile
  PROVE  RunType'
<1>1. CASE \E pc \in {"finish", "reconcile", "done"} : Go(pc)
  BY <1>1, GoTyped DEF Pcs, TurnPcs
<1>2. ASSUME NEW failure \in {None, "signal", "io", "report", "cleanup", "run"},
             NEW status \in {"completed", "interrupted", "failed"},
             NEW pc \in {"report", "out", "finish", "reconcile", "done"},
             \/ run' = [run EXCEPT !.pc = pc, !.status = status, !.failure = failure]
             \/ run' = [run EXCEPT !.pc = pc, !.artifactIo = TRUE, !.status = status, !.failure = failure]
      PROVE  RunType'
  <2>1. CASE run' = [run EXCEPT !.pc = pc, !.status = status, !.failure = failure]
    BY <2>1, ZenonT(60) DEF RunType, Runs, Pcs, TurnPcs
  <2>2. CASE run' = [run EXCEPT !.pc = pc, !.artifactIo = TRUE, !.status = status, !.failure = failure]
    BY <2>2, ZenonT(60) DEF RunType, Runs, Pcs, TurnPcs
  <2>3. QED
    BY <1>2, <2>1, <2>2
<1>3. ASSUME NEW pc \in {"out", "finish", "done"}, NEW success \in BOOLEAN,
             \/ run' = [run EXCEPT !.pc = pc, !.success = success]
             \/ run' = [run EXCEPT !.pc = pc, !.success = success, !.artifactIo = TRUE]
      PROVE  RunType'
  BY <1>3, ZenonT(60) DEF RunType, Runs, Pcs, TurnPcs
<1>4. /\ run.status \in {"completed", "interrupted", "failed"}
      /\ run.failure \in {None, "signal", "io", "report", "cleanup", "run"}
      /\ Downgraded \in {"completed", "interrupted", "failed"}
  BY DEF RunType, Runs, Downgraded
<1>5. ASSUME NEW phase \in {"io", "report"}, NEW status \in {"completed", "interrupted", "failed"},
             NEW pc \in {"finish", "reconcile"}, artifactFails(phase, status, pc)
      PROVE  RunType'
  BY <1>2, <1>4, <1>5, ZenonT(60) DEF artifactFails
<1>6. CASE settle
  BY <1>2, <1>4, <1>6, ZenonT(60) DEF settle
<1>7. CASE writeReport
  BY <1>3, <1>4, <1>5, <1>7 DEF writeReport
<1>8. CASE writeCopy
  BY <1>1, <1>5, <1>8 DEF writeCopy
<1>9. CASE finishTranscript
  BY <1>1, <1>4, <1>5, <1>9 DEF finishTranscript
<1>10. CASE reconcile
  BY <1>1, <1>3, <1>10 DEF reconcile
<1>11. QED
  BY <1>6, <1>7, <1>8, <1>9, <1>10

LEMMA WorkRuns ==
  ASSUME RunType, start \/ nextTurn \/ persist \/ patchDuration
  PROVE  RunType'
<1>1. CASE start
  <2>1. CASE Go("create")
    BY <2>1, GoTyped DEF Pcs, TurnPcs
  <2>2. CASE run' = [run EXCEPT !.pc = "settle", !.status = "failed", !.failure = "io"]
    BY <2>2, ZenonT(60) DEF RunType, Runs, Pcs, TurnPcs
  <2>3. QED
    BY <1>1, <2>1, <2>2, StopTyped DEF start
<1>2. CASE nextTurn
  <2>1. CASE Go("close")
    BY <2>1, GoTyped DEF Pcs, TurnPcs
  <2>2. CASE run.n # Reporter /\ run' = [run EXCEPT !.pc = "execute", !.n = @ + 1]
    <3>1. run.n + 1 \in Turns
      BY <2>2, TurnsAssumption DEF RunType, Runs, Turns, Reporter
    <3>2. run.n + 1 \in 0 .. MessageTurns + 1
      BY <3>1, TurnsAssumption DEF Turns
    <3>3. run' = [run EXCEPT !.pc = "execute", !.n = run.n + 1] /\ run \in Runs
      BY <2>2 DEF RunType
    <3>4. run' \in Runs
      BY <3>2, <3>3 DEF Runs, Pcs, TurnPcs
    <3>5. run'.n = run.n + 1
      BY <3>3 DEF Runs
    <3>6. QED
      BY <3>1, <3>4, <3>5 DEF RunType, Turns
  <2>3. QED
    BY <1>2, <2>1, <2>2, StopTyped DEF nextTurn
<1>3. CASE persist
  <2>1. CASE \E disposition \in {"committed", "discarded"}, outcome \in {"completed", "io"} :
               startAck(disposition, outcome)
    BY <1>3, <2>1, StartAckTyped DEF persist, At, TurnPcs
  <2>2. ASSUME NEW under \in {"deadline", "budget"},
               run' = [run EXCEPT !.pc = "ack", !.disposition = "committed", !.outcome = "completed",
                                  !.under = under, !.success = TRUE]
        PROVE  RunType'
    BY <1>3, <2>2 DEF persist, At, RunType, Runs, Pcs, TurnPcs
  <2>3. QED
    BY <1>3, <2>1, <2>2 DEF persist
<1>4. CASE patchDuration
  <2>1. CASE Go("next")
    BY <2>1, GoTyped DEF Pcs, TurnPcs
  <2>2. CASE run' = [run EXCEPT !.pc = "close", !.status = "failed", !.failure = "io"]
    BY <2>2, ZenonT(60) DEF RunType, Runs, Pcs, TurnPcs
  <2>3. QED
    BY <1>4, <2>1, <2>2 DEF patchDuration
<1>5. QED
  BY <1>1, <1>2, <1>3, <1>4

LEMMA RunTypeKept ==
  ASSUME RunType, [Next]_vars
  PROVE  RunType'
<1>1. CASE Local
  BY <1>1, VerdictRuns, WorkRuns DEF Local
<1>2. CASE \E hung \in BOOLEAN : Request(hung)
  BY <1>2, OpeningRuns, TurnRuns DEF Request
<1>3. CASE UNCHANGED run
  BY <1>3 DEF RunType
<1>4. QED
  BY <1>1, <1>2, <1>3
     DEF Next, Interrupt, GenerationTimeout, BudgetEnds, TurnEnds, HostLoses, LateLands, vars

-----------------------------------------------------------------------------
(* The Host.                                                               *)

\* What a request, a turn or a failure of the Host does to the Scope and its executions.
HostStep ==
  \/ Same \/ Creates \/ Activates \/ Closes
  \/ \E e \in Turns \cup {run.n} :
       Executes(e) \/ Cancels(e) \/ (UNCHANGED <<scope, turns>> /\ acks' = [acks EXCEPT ![e] = run.disposition])
  \/ \E e \in Turns, end \in Terminals :
       turns' = [turns EXCEPT ![e] = end] /\ UNCHANGED <<scope, acks>>

LEMMA OpeningHost ==
  ASSUME NEW hung \in BOOLEAN,
         createScope(hung) \/ retryCreate(hung) \/ recoverCreate(hung) \/ recoverClose(hung)
           \/ activateScope(hung) \/ closeScope(hung)
  PROVE  HostStep /\ late' \subseteq late \cup {"create"} /\ UNCHANGED acks
<1>1. Same \/ Creates \/ Activates \/ Closes
  BY DEF createScope, retryCreate, recoverCreate, recoverClose, activateScope, closeScope,
         Answered, Fails
<1>2. late' \subseteq late \cup {"create"}
  BY DEF createScope, retryCreate, recoverCreate, recoverClose, activateScope, closeScope, Delayed
<1>3. QED
  BY <1>1, <1>2 DEF HostStep, Same, Creates, Activates, Closes

LEMMA TurnHost ==
  ASSUME NEW hung \in BOOLEAN,
         execute(hung) \/ probe(hung) \/ follow(hung) \/ cancelExecution(hung) \/ observe(hung)
           \/ ackOnce(hung)
  PROVE  HostStep /\ late' \subseteq late \cup {"execute"}
<1>1. CASE execute(hung)
  BY <1>1 DEF execute, Answered, Fails, Delayed, HostStep
<1>2. CASE cancelExecution(hung)
  BY <1>2 DEF cancelExecution, Answered, Fails, HostStep
<1>3. CASE ackOnce(hung)
  BY <1>3 DEF ackOnce, Answered, Fails, HostStep, Acknowledges
<1>4. CASE probe(hung) \/ follow(hung) \/ observe(hung)
  BY <1>4 DEF probe, follow, observe, hostVars, HostStep, Same
<1>5. QED
  BY <1>1, <1>2, <1>3, <1>4

LEMMA NextHost ==
  ASSUME [Next]_vars
  PROVE  HostStep /\ late' \subseteq late \cup {"create", "execute"}
<1>1. CASE Local
  BY <1>1 DEF Local, start, nextTurn, persist, patchDuration, settle, writeReport, writeCopy,
              finishTranscript, reconcile, hostVars, HostStep, Same
<1>2. CASE \E hung \in BOOLEAN : Request(hung)
  BY <1>2, OpeningHost, TurnHost DEF Request
<1>3. CASE \E e \in Turns : TurnEnds(e)
  BY <1>3 DEF TurnEnds, HostStep
<1>4. CASE HostLoses
  BY <1>4 DEF HostLoses, HostStep
<1>5. CASE LateLands
  BY <1>5 DEF LateLands, HostStep
<1>6. CASE Interrupt \/ GenerationTimeout \/ BudgetEnds \/ UNCHANGED vars
  BY <1>6 DEF Interrupt, GenerationTimeout, BudgetEnds, vars, hostVars, HostStep, Same
<1>7. QED
  BY <1>1, <1>2, <1>3, <1>4, <1>5, <1>6 DEF Next

LEMMA HostTypeKept ==
  ASSUME RunType, HostType, [Next]_vars
  PROVE  HostType'
<1>1. HostStep /\ late' \subseteq {"create", "execute"}
  BY NextHost DEF HostType
<1>2. run.disposition \in {"committed", "discarded"}
  BY DEF RunType, Runs
<1>3. CASE Same \/ Creates \/ Activates
  BY <1>1, <1>3 DEF HostType, Same, Creates, Activates
<1>4. CASE Closes
  BY <1>1, <1>4 DEF HostType, Closes, Killed
<1>5. ASSUME NEW e, Executes(e) \/ Cancels(e)
      PROVE  HostType'
  BY <1>1, <1>5 DEF HostType, Executes, Cancels, Terminals
<1>6. ASSUME NEW e, UNCHANGED <<scope, turns>>, acks' = [acks EXCEPT ![e] = run.disposition]
      PROVE  HostType'
  BY <1>1, <1>2, <1>6 DEF HostType
<1>7. ASSUME NEW e, NEW end \in Terminals, turns' = [turns EXCEPT ![e] = end], UNCHANGED <<scope, acks>>
      PROVE  HostType'
  BY <1>1, <1>7 DEF HostType
<1>8. QED
  BY <1>1, <1>3, <1>4, <1>5, <1>6, <1>7 DEF HostStep

-----------------------------------------------------------------------------
(* The disk.                                                               *)

Kept == DiskType /\ files.transcript \subseteq records

\* A write only adds to the transcript, and never takes the report away.
Grown ==
  /\ Kept'
  /\ files.transcript \subseteq files'.transcript
  /\ files.report # None => files'.report # None

LEMMA NothingWritten ==
  ASSUME Kept, UNCHANGED files, records \subseteq records', records' \subseteq Turns
  PROVE  Grown
BY DEF Kept, DiskType, Grown

LEMMA Written ==
  ASSUME Kept, records \subseteq records', records' \subseteq Turns,
         NEW finished \in {None, "completed", "interrupted", "failed"},
         NEW report \in {"success", "partial"},
         \/ files' = [files EXCEPT !.transcript = records']
         \/ files' = [files EXCEPT !.transcript = records', !.report = report]
         \/ files' = [files EXCEPT !.transcript = records', !.finished = finished]
         \/ files' = [files EXCEPT !.report = report]
  PROVE  Grown
<1> USE NoneAssumption DEF Kept, DiskType, Files, Grown
<1>1. CASE files' = [files EXCEPT !.transcript = records']
  BY <1>1
<1>2. CASE files' = [files EXCEPT !.transcript = records', !.report = report]
  BY <1>2
<1>3. CASE files' = [files EXCEPT !.transcript = records', !.finished = finished]
  BY <1>3
<1>4. CASE files' = [files EXCEPT !.report = report]
  BY <1>4
<1>5. QED
  BY <1>1, <1>2, <1>3, <1>4

\* What persist has written when it goes on to a committed ACK.
PersistedTurn ==
  /\ run'.n = run.n
  /\ run.n \in files'.transcript
  /\ run.n = Reporter => files'.report # None

LEMMA PersistWrites ==
  ASSUME RunType, Kept, persist
  PROVE  Grown /\ (run'.disposition = "committed" => PersistedTurn)
<1>1. /\ run.n \in Turns /\ run \in Runs /\ At("persist")
      /\ records' = records \cup {run.n} /\ records' \subseteq Turns /\ records \subseteq records'
  BY DEF RunType, persist, At, TurnPcs, Kept, DiskType
<1>2. CASE run.n = Reporter /\ Transcript("success")
  <2>1. files' = [files EXCEPT !.transcript = records', !.report = "success"]
    BY <1>2, NoneAssumption DEF Transcript
  <2>2. Grown
    BY <1>1, <2>1, Written
  <2>3. files'.transcript = records' /\ files'.report = "success"
    BY <2>1 DEF Kept, DiskType, Files
  <2>4. run'.n = run.n
    BY <1>1 DEF persist, startAck, Runs
  <2>5. QED
    BY <1>1, <2>2, <2>3, <2>4, NoneAssumption DEF PersistedTurn
<1>3. CASE run.n # Reporter /\ Transcript(None)
  <2>1. files' = [files EXCEPT !.transcript = records']
        \/ files' = [files EXCEPT !.transcript = records', !.report = files.report]
    BY <1>3 DEF Transcript
  <2>2. files' = [files EXCEPT !.transcript = records']
    BY <2>1 DEF Kept, DiskType, Files
  <2>3. Grown
    BY <1>1, <2>2, Written
  <2>4. files'.transcript = records'
    BY <2>2 DEF Kept, DiskType, Files
  <2>5. run'.n = run.n
    BY <1>1 DEF persist, startAck, Runs
  <2>6. QED
    BY <1>1, <1>3, <2>3, <2>4, <2>5 DEF PersistedTurn
<1>4. CASE (UNCHANGED files \/ Transcript(None)) /\ startAck("discarded", "io")
  <2>1. UNCHANGED files \/ files' = [files EXCEPT !.transcript = records', !.report = files.report]
    BY <1>4 DEF Transcript
  <2>2. UNCHANGED files \/ files' = [files EXCEPT !.transcript = records']
    BY <2>1 DEF Kept, DiskType, Files
  <2>3. Grown
    BY <1>1, <2>2, Written, NothingWritten
  <2>4. run'.disposition = "discarded"
    BY <1>1, <1>4 DEF startAck, Runs
  <2>5. QED
    BY <2>3, <2>4
<1>5. QED
  BY <1>2, <1>3, <1>4 DEF persist

LEMMA FilesGrow ==
  ASSUME RunType, Kept, [Next]_vars
  PROVE  Grown
<1>1. CASE persist
  BY <1>1, PersistWrites
<1>2. CASE UNCHANGED <<files, records>>
  BY <1>2, NothingWritten DEF Kept, DiskType
<1>3. CASE patchDuration \/ writeReport \/ finishTranscript \/ reconcile \/ writeCopy
  <2>1. UNCHANGED records
    BY <1>3 DEF patchDuration, writeReport, finishTranscript, reconcile, writeCopy
  <2>2. run.status \in {"completed", "interrupted", "failed"}
    BY DEF RunType, Runs
  <2>3. \/ UNCHANGED files
        \/ files' = [files EXCEPT !.transcript = records']
        \/ files' = [files EXCEPT !.transcript = records', !.finished = run.status]
        \/ \E report \in {"success", "partial"} : files' = [files EXCEPT !.report = report]
    BY <1>3, <2>1 DEF patchDuration, writeReport, finishTranscript, reconcile, writeCopy, artifactFails
  <2>4. records \subseteq records' /\ records' \subseteq Turns
    BY <2>1 DEF Kept, DiskType
  <2>5. QED
    BY <2>2, <2>3, <2>4, Written, NothingWritten
<1>4. CASE Local
  BY <1>1, <1>2, <1>3, <1>4 DEF Local, start, nextTurn, settle, diskVars
<1>5. CASE \E hung \in BOOLEAN : Request(hung)
  BY <1>2, <1>5 DEF Request, createScope, retryCreate, recoverCreate, recoverClose, activateScope,
       execute, probe, follow, cancelExecution, observe, ackOnce, closeScope, OnlyRun, diskVars
<1>6. QED
  BY <1>2, <1>4, <1>5
     DEF Next, Interrupt, GenerationTimeout, BudgetEnds, TurnEnds, HostLoses, LateLands, vars, diskVars

LEMMA SignalsKept ==
  ASSUME SignalsType, [Next]_vars
  PROVE  SignalsType'
<1>1. faults' = faults \/ (faults < MaxFaults /\ faults' = faults + 1)
  BY DEF Next, Local, Request, NoFault, Fault, Fails, Answered, Interrupt, GenerationTimeout, BudgetEnds,
       TurnEnds, HostLoses, LateLands, vars, start, nextTurn, persist, patchDuration, settle,
       writeReport, writeCopy, artifactFails, finishTranscript, reconcile, createScope, retryCreate,
       recoverCreate, recoverClose, activateScope, execute, probe, follow, cancelExecution, observe,
       ackOnce, closeScope
<1>2. faults' \in 0 .. MaxFaults
  BY <1>1, TurnsAssumption DEF SignalsType
<1>3. lost' \subseteq lost \cup {"host", "report"}
  BY DEF Next, Local, Request, Clean, Cut, Interrupt, GenerationTimeout, BudgetEnds,
       TurnEnds, HostLoses, LateLands, vars, start, nextTurn, persist, patchDuration, settle,
       writeReport, writeCopy, finishTranscript, reconcile, createScope, retryCreate,
       recoverCreate, recoverClose, activateScope, execute, probe, follow, cancelExecution, observe,
       ackOnce, closeScope
<1>4. /\ UNCHANGED aborted \/ aborted' = TRUE
      /\ UNCHANGED timedOut \/ timedOut' \in BOOLEAN
      /\ UNCHANGED spent \/ spent' = TRUE
  BY DEF Next, Local, Request, OnlyRun, Interrupt, GenerationTimeout, BudgetEnds,
       TurnEnds, HostLoses, LateLands, vars, start, nextTurn, persist, patchDuration, settle,
       writeReport, writeCopy, finishTranscript, reconcile, createScope, retryCreate,
       recoverCreate, recoverClose, activateScope, execute, probe, follow, cancelExecution, observe,
       ackOnce, closeScope
<1>5. QED
  BY <1>2, <1>3, <1>4 DEF SignalsType

-----------------------------------------------------------------------------
(* The ACK.                                                                *)

\* A turn the Host was, or is about to be, told is committed.
Told(e) == acks[e] = "committed" \/ (At("ack") /\ run.disposition = "committed" /\ run.n = e)

Durable(e) == e \in files.transcript /\ (e = Reporter => files.report # None)

IInv == RunType /\ HostType /\ Kept /\ SignalsType /\ \A e \in Turns : Told(e) => Durable(e)

LEMMA AckSteps ==
  ASSUME RunType, HostType, [Next]_vars, NEW e \in Turns, acks'[e] = "committed"
  PROVE  Told(e)
<1>1. CASE UNCHANGED acks
  BY <1>1 DEF Told
<1>2. ASSUME NEW hung \in BOOLEAN, ackOnce(hung)
      PROVE  Told(e)
  <2>1. CASE acks' = [acks EXCEPT ![run.n] = run.disposition]
    BY <1>2, <2>1 DEF Told, ackOnce, HostType
  <2>2. QED
    BY <1>1, <1>2, <2>1 DEF ackOnce, Answered, Fails, Acknowledges, Same
<1>3. CASE Local
  BY <1>1, <1>3 DEF Local, start, nextTurn, persist, patchDuration, settle, writeReport, writeCopy,
       finishTranscript, reconcile, hostVars
<1>4. CASE \E hung \in BOOLEAN : Request(hung)
  <2>1. PICK hung \in BOOLEAN : Request(hung)
    BY <1>4
  <2>2. CASE execute(hung) \/ cancelExecution(hung)
    BY <1>1, <2>2 DEF execute, cancelExecution, Answered, Fails, Same, Executes, Cancels
  <2>3. CASE probe(hung) \/ follow(hung) \/ observe(hung)
    BY <1>1, <2>3 DEF probe, follow, observe, hostVars
  <2>4. QED
    BY <1>1, <1>2, <2>1, <2>2, <2>3, OpeningHost DEF Request
<1>5. QED
  BY <1>1, <1>3, <1>4 DEF Next, Interrupt, GenerationTimeout, BudgetEnds, TurnEnds, HostLoses, LateLands,
       vars, hostVars, Closes, Creates, Executes

\* Only persist goes on to a committed ACK.
LEMMA CommitsAfterPersist ==
  ASSUME RunType, [Next]_vars, run'.pc = "ack", run'.disposition = "committed"
  PROVE  persist \/ UNCHANGED run
<1>1. ASSUME NEW pc, pc # "ack", Go(pc)
      PROVE  FALSE
  BY <1>1 DEF Go, RunType, Runs
<1>2. ASSUME NEW status, NEW failure, Stop(status, failure)
      PROVE  FALSE
  BY <1>2 DEF Stop, RunType, Runs
<1>3. ASSUME NEW outcome, turnDone(outcome)
      PROVE  FALSE
  BY <1>1, <1>2, <1>3 DEF turnDone
<1>4. ASSUME NEW outcome, startAck("discarded", outcome)
      PROVE  FALSE
  BY <1>4 DEF startAck, RunType, Runs
<1>5. ASSUME NEW hung \in BOOLEAN, Request(hung)
      PROVE  FALSE
  <2>1. CASE createScope(hung) \/ retryCreate(hung) \/ recoverCreate(hung) \/ recoverClose(hung)
             \/ activateScope(hung)
    <3>1. CASE run' = [run EXCEPT !.pc = "activate", !.known = TRUE]
      BY <3>1 DEF RunType, Runs
    <3>2. QED
      BY <1>1, <1>2, <2>1, <3>1 DEF createScope, retryCreate, recoverCreate, recoverClose, activateScope
  <2>2. CASE execute(hung) \/ probe(hung) \/ cancelExecution(hung) \/ ackOnce(hung) \/ follow(hung)
    BY <1>1, <1>3, <1>4, <2>2 DEF execute, probe, cancelExecution, ackOnce, follow
  <2>3. CASE observe(hung)
    <3>1. CASE run' = [run EXCEPT !.pc = "ack", !.disposition = "discarded", !.outcome = "failed",
                                  !.under = "budget"]
      BY <3>1 DEF RunType, Runs
    <3>2. QED
      BY <1>3, <2>3, <3>1 DEF observe
  <2>4. CASE closeScope(hung)
    <3>1. CASE run' = [run EXCEPT !.pc = "settle", !.closeFailed = TRUE]
      BY <3>1 DEF RunType, Runs
    <3>2. QED
      BY <1>1, <2>4, <3>1 DEF closeScope
  <2>5. QED
    BY <1>5, <2>1, <2>2, <2>3, <2>4 DEF Request
<1>6. CASE Local /\ ~ persist
  <2>1. ASSUME NEW phase, NEW status, NEW pc \in {"finish", "reconcile"}, artifactFails(phase, status, pc)
        PROVE  FALSE
    BY <2>1 DEF artifactFails, RunType, Runs
  <2>2. CASE start \/ nextTurn \/ patchDuration
    <3>1. run'.pc # "ack" \/ Go("create") \/ Go("close") \/ Go("next") \/ \E s, f : Stop(s, f)
      BY <2>2 DEF start, nextTurn, patchDuration, RunType, Runs
    <3>2. QED
      BY <1>1, <1>2, <3>1
  <2>3. CASE settle \/ writeReport \/ writeCopy \/ finishTranscript \/ reconcile
    <3>1. CASE settle
      BY <3>1 DEF settle, RunType, Runs
    <3>2. CASE writeReport
      <4>1. CASE run' = [run EXCEPT !.pc = IF run.out THEN "out" ELSE "finish",
                                    !.success = run.status = "completed"]
        BY <4>1 DEF RunType, Runs
      <4>2. QED
        BY <2>1, <3>2, <4>1 DEF writeReport
    <3>3. CASE writeCopy
      BY <1>1, <2>1, <3>3 DEF writeCopy
    <3>4. CASE finishTranscript
      BY <1>1, <2>1, <3>4 DEF finishTranscript
    <3>5. CASE reconcile
      <4>1. CASE run' = [run EXCEPT !.pc = "done", !.success = FALSE]
        BY <4>1 DEF RunType, Runs
      <4>2. CASE run' = [run EXCEPT !.pc = "done", !.success = FALSE, !.artifactIo = TRUE]
        BY <4>2 DEF RunType, Runs
      <4>3. QED
        BY <1>1, <3>5, <4>1, <4>2 DEF reconcile
    <3>6. QED
      BY <2>3, <3>1, <3>2, <3>3, <3>4, <3>5
  <2>4. QED
    BY <1>6, <2>2, <2>3 DEF Local
<1>7. QED
  BY <1>5, <1>6 DEF Next, Interrupt, GenerationTimeout, BudgetEnds, TurnEnds, HostLoses, LateLands, vars

LEMMA ToldIsDurable ==
  ASSUME IInv, [Next]_vars, NEW e \in Turns, Told(e)'
  PROVE  Durable(e)'
<1>1. Grown
  BY FilesGrow DEF IInv
<1>2. CASE Told(e)
  BY <1>1, <1>2 DEF IInv, Durable, Grown
<1>3. CASE acks'[e] = "committed"
  BY <1>2, <1>3, AckSteps DEF IInv
<1>4. CASE run'.pc = "ack" /\ run'.disposition = "committed" /\ run'.n = e
  <2>1. CASE persist
    BY <1>4, <2>1, PersistWrites DEF IInv, PersistedTurn, Durable
  <2>2. CASE UNCHANGED run
    BY <1>2, <1>4, <2>2 DEF Told, At
  <2>3. QED
    BY <1>4, <2>1, <2>2, CommitsAfterPersist DEF IInv
<1>5. QED
  BY <1>3, <1>4 DEF Told, At

LEMMA IInvKept ==
  ASSUME IInv, [Next]_vars
  PROVE  IInv'
<1>1. RunType' /\ HostType' /\ SignalsType'
  BY RunTypeKept, HostTypeKept, SignalsKept DEF IInv
<1>2. Kept'
  BY FilesGrow DEF IInv, Grown
<1>3. \A e \in Turns : Told(e)' => Durable(e)'
  BY ToldIsDurable
<1>4. QED
  BY <1>1, <1>2, <1>3 DEF IInv

LEMMA InitIInv ==
  ASSUME Init
  PROVE  IInv
<1>1. Typed
  BY InitTyped
<1>2. Kept
  BY <1>1 DEF Typed, Kept, Init
<1>3. ASSUME NEW e \in Turns
      PROVE  ~ Told(e)
  <2>1. acks[e] = None /\ run.pc = "start"
    BY DEF Init
  <2>2. QED
    BY <2>1, NoneAssumption DEF Told, At
<1>4. QED
  BY <1>1, <1>2, <1>3 DEF Typed, IInv

LEMMA IInvHolds == Spec => []IInv
<1>1. Init => IInv
  BY InitIInv
<1>2. IInv /\ [Next]_vars => IInv'
  BY IInvKept
<1>3. QED
  BY <1>1, <1>2, PTL DEF Spec

\* Every variable of a run keeps its type: in particular executeTurn never runs for a turn
\* the run does not have.
THEOREM RunIsTyped == Spec => []CouncilTypeOK
<1>1. IInv => CouncilTypeOK
  BY DEF IInv, CouncilTypeOK, RunType, Kept
<1>2. QED
  BY <1>1, IInvHolds, PTL

\* An output the Host was told is committed is on disk, for any number of turns, whatever
\* is interrupted, refused, lost or late and whatever write fails: persist writes before the
\* committed ACK is sent, and no later write takes anything away.
THEOREM Durability == Spec => []CommittedIsDurable
<1>1. IInv => CommittedIsDurable
  BY DEF IInv, CommittedIsDurable, Told, Durable
<1>2. QED
  BY <1>1, IInvHolds, PTL

-----------------------------------------------------------------------------
(* Nothing of a run goes on.                                               *)

Open    == {"creating", "active"}
Opening == {"start", "create", "retryCreate", "recoverCreate", "recoverClose", "activate"}
Ending  == {"settle", "report", "out", "finish", "reconcile", "done"}

\* What a step of the run leaves of its locals: Go and Stop.
LEMMA GoFields ==
  ASSUME run \in Runs, NEW pc, Go(pc)
  PROVE  /\ run'.pc = pc /\ run'.n = run.n
         /\ run'.known = run.known
         /\ run'.status = run.status
         /\ run'.closeFailed = run.closeFailed
         /\ run'.artifactIo = run.artifactIo
         /\ run'.success = run.success
         /\ run'.outcome = run.outcome
         /\ run'.disposition = run.disposition
BY DEF Go, Runs

LEMMA StopFields ==
  ASSUME run \in Runs, NEW status \in {"interrupted", "failed"}, NEW failure, Stop(status, failure)
  PROVE  /\ run'.pc = IF run.known THEN "close" ELSE "settle"
         /\ run'.n = run.n
         /\ run'.known = run.known
         /\ run'.status # "completed"
         /\ run'.closeFailed = run.closeFailed
         /\ run'.artifactIo = run.artifactIo
         /\ run'.success = run.success
BY DEF Stop, Runs

LEMMA TurnDoneFields ==
  ASSUME run \in Runs, NEW outcome, turnDone(outcome)
  PROVE  /\ run'.n = run.n
         /\ run'.known = run.known
         /\ run'.closeFailed = run.closeFailed
         /\ run'.artifactIo = run.artifactIo
         /\ run'.success = run.success
         /\ \/ run'.pc = "patch" /\ outcome = "completed" /\ run'.status = run.status
            \/ run'.pc = (IF run.known THEN "close" ELSE "settle") /\ run'.status # "completed"
<1>1. CASE Go("patch") /\ outcome = "completed"
  BY <1>1, GoFields
<1>2. CASE \E status \in {"interrupted", "failed"}, failure \in {"io", "run"} : Stop(status, failure)
  BY <1>2, StopFields
<1>3. QED
  BY <1>1, <1>2 DEF turnDone

\* Where the run is and what it knows of itself: until its body ends it is on its way to
\* "completed", and at its end it is so only after the Reporter's turn and a Scope closed.
RunStory ==
  /\ run.status = "completed" => ~ run.artifactIo
  /\ run.pc \notin {"close"} \cup Ending => run.status = "completed"
  /\ run.pc \notin Ending => ~ run.closeFailed
  /\ run.pc \in Opening => run.n = 0
  /\ run.pc \in {"close"} \cup Ending /\ run.status = "completed" => run.n = Reporter
  /\ run.pc \in Ending \ {"settle"} /\ run.status = "completed" => ~ run.closeFailed
  /\ run.pc \in {"activate", "next", "patch"} \cup TurnPcs => run.known

LEMMA StopStory ==
  ASSUME RunType, RunStory, run.pc \notin {"close"} \cup Ending,
         NEW status \in {"interrupted", "failed"}, NEW failure, Stop(status, failure)
  PROVE  RunStory'
BY StopFields DEF RunType, RunStory, Ending, Opening, TurnPcs

LEMMA OpeningStory ==
  ASSUME RunType, RunStory, NEW hung \in BOOLEAN,
         createScope(hung) \/ retryCreate(hung) \/ recoverCreate(hung) \/ recoverClose(hung)
           \/ activateScope(hung)
  PROVE  RunStory'
<1>1. run.pc \in Opening \ {"start"} /\ run \in Runs
  BY DEF createScope, retryCreate, recoverCreate, recoverClose, activateScope, At, Opening, RunType
<1>2. \/ \E pc \in {"recoverCreate", "retryCreate", "recoverClose"} : Go(pc)
      \/ run.pc = "activate" /\ Go("next")
      \/ run' = [run EXCEPT !.pc = "activate", !.known = TRUE]
      \/ Stop("failed", "run")
  BY DEF createScope, retryCreate, recoverCreate, recoverClose, activateScope, At
<1>3. CASE \E pc \in {"recoverCreate", "retryCreate", "recoverClose"} : Go(pc)
  BY <1>1, <1>3, GoFields DEF RunStory, Ending, Opening, TurnPcs
<1>4. CASE run.pc = "activate" /\ Go("next")
  BY <1>1, <1>4, GoFields DEF RunStory, Ending, Opening, TurnPcs
<1>5. CASE run' = [run EXCEPT !.pc = "activate", !.known = TRUE]
  BY <1>1, <1>5 DEF RunStory, Ending, Opening, TurnPcs, Runs
<1>6. CASE Stop("failed", "run")
  BY <1>1, <1>6, StopStory DEF Ending, Opening
<1>7. QED
  BY <1>2, <1>3, <1>4, <1>5, <1>6

LEMMA TurnRunStory ==
  ASSUME RunType, RunStory, NEW hung \in BOOLEAN,
         execute(hung) \/ probe(hung) \/ follow(hung) \/ cancelExecution(hung) \/ observe(hung)
           \/ ackOnce(hung)
  PROVE  RunStory'
<1>1. run.pc \in TurnPcs /\ run \in Runs
  BY DEF execute, probe, follow, cancelExecution, observe, ackOnce, At, TurnPcs, RunType
<1>2. \/ \E pc \in {"follow", "probe", "cancel", "observe", "persist"} : Go(pc)
      \/ \E outcome : startAck("discarded", outcome)
      \/ \E outcome : turnDone(outcome)
      \/ run' = [run EXCEPT !.pc = "ack", !.disposition = "discarded", !.outcome = "failed",
                            !.under = "budget"]
  BY DEF execute, probe, follow, cancelExecution, observe, ackOnce
<1>3. CASE \E pc \in {"follow", "probe", "cancel", "observe", "persist"} : Go(pc)
  BY <1>1, <1>3, GoFields DEF RunStory, Ending, Opening, TurnPcs
<1>4. CASE \E outcome : startAck("discarded", outcome)
  BY <1>1, <1>4 DEF startAck, RunStory, Ending, Opening, TurnPcs, Runs
<1>5. CASE \E outcome : turnDone(outcome)
  BY <1>1, <1>5, TurnDoneFields DEF RunStory, Ending, Opening, TurnPcs
<1>6. CASE run' = [run EXCEPT !.pc = "ack", !.disposition = "discarded", !.outcome = "failed",
                              !.under = "budget"]
  BY <1>1, <1>6 DEF RunStory, Ending, Opening, TurnPcs, Runs
<1>7. QED
  BY <1>2, <1>3, <1>4, <1>5, <1>6

LEMMA WorkStory ==
  ASSUME RunType, RunStory, start \/ nextTurn \/ persist \/ patchDuration
  PROVE  RunStory'
<1>1. run \in Runs
  BY DEF RunType
<1>2. CASE start
  <2>1. CASE Go("create")
    BY <1>1, <1>2, <2>1, GoFields DEF start, At, RunStory, Ending, Opening, TurnPcs
  <2>2. CASE run' = [run EXCEPT !.pc = "settle", !.status = "failed", !.failure = "io"]
    BY <1>1, <1>2, <2>2 DEF start, At, RunStory, Ending, Opening, TurnPcs, Runs
  <2>3. CASE Stop("failed", "run")
    BY <1>2, <2>3, StopStory DEF start, At, Ending
  <2>4. QED
    BY <1>2, <2>1, <2>2, <2>3 DEF start
<1>3. CASE nextTurn
  <2>1. CASE run.n = Reporter /\ Go("close")
    BY <1>1, <1>3, <2>1, GoFields DEF nextTurn, At, RunStory, Ending, Opening, TurnPcs
  <2>2. CASE run' = [run EXCEPT !.pc = "execute", !.n = @ + 1]
    <3>1. /\ run'.pc = "execute" /\ run'.known = run.known /\ run'.status = run.status
          /\ run'.closeFailed = run.closeFailed /\ run'.artifactIo = run.artifactIo
      BY <1>1, <2>2 DEF Runs
    <3>2. QED
      BY <1>3, <3>1 DEF nextTurn, At, RunStory, Ending, Opening, TurnPcs
  <2>3. CASE Stop("interrupted", "signal")
    BY <1>3, <2>3, StopStory DEF nextTurn, At, Ending
  <2>4. QED
    BY <1>3, <2>1, <2>2, <2>3 DEF nextTurn
<1>4. CASE persist
  <2>1. /\ run.pc = "persist" /\ run'.pc = "ack"
        /\ run'.n = run.n /\ run'.known = run.known /\ run'.status = run.status
        /\ run'.closeFailed = run.closeFailed /\ run'.artifactIo = run.artifactIo
    BY <1>1, <1>4 DEF persist, At, startAck, Runs
  <2>2. QED
    BY <2>1 DEF RunStory, Ending, Opening, TurnPcs
<1>5. CASE patchDuration
  <2>1. CASE Go("next")
    BY <1>1, <1>5, <2>1, GoFields DEF patchDuration, At, RunStory, Ending, Opening, TurnPcs
  <2>2. CASE run' = [run EXCEPT !.pc = "close", !.status = "failed", !.failure = "io"]
    BY <1>1, <1>5, <2>2 DEF patchDuration, At, RunStory, Ending, Opening, TurnPcs, Runs
  <2>3. QED
    BY <1>5, <2>1, <2>2 DEF patchDuration
<1>6. QED
  BY <1>2, <1>3, <1>4, <1>5

\* What settle and the writes after it leave of a completed run.
LEMMA VerdictFields ==
  ASSUME RunType, settle \/ writeReport \/ writeCopy \/ finishTranscript \/ reconcile
  PROVE  /\ run.pc \in Ending /\ run'.pc \in Ending \ {"settle"}
         /\ run'.n = run.n /\ run'.closeFailed = run.closeFailed
         /\ run'.status = "completed" =>
              /\ run.status = "completed"
              /\ run'.artifactIo => run.artifactIo
              /\ settle => ~ run.closeFailed
         /\ UNCHANGED <<hostVars, records>>
<1> DEFINE Same2 == /\ run'.n = run.n /\ run'.closeFailed = run.closeFailed
                    /\ run'.status = "completed" =>
                         /\ run.status = "completed"
                         /\ run'.artifactIo => run.artifactIo
<1>1. run \in Runs /\ UNCHANGED <<hostVars, records>> /\ run.pc \in Ending
  BY DEF RunType, settle, writeReport, writeCopy, finishTranscript, reconcile, diskVars, At, Ending
<1>2. ASSUME NEW pc, Go(pc)
      PROVE  run'.pc = pc /\ Same2
  BY <1>1, <1>2, GoFields
<1>3. ASSUME NEW phase, NEW status, NEW pc, status # "completed", artifactFails(phase, status, pc)
      PROVE  run'.pc = pc /\ Same2
  BY <1>1, <1>3 DEF artifactFails, Runs
<1>4. Downgraded # "completed" /\ (settle => run.pc = "settle")
  BY DEF Downgraded, settle, At
<1>5. CASE settle
  BY <1>1, <1>5 DEF settle, Runs, Ending
<1>6. CASE writeReport
  <2>1. CASE run' = [run EXCEPT !.pc = IF run.out THEN "out" ELSE "finish",
                                !.success = run.status = "completed"]
    BY <1>1, <1>4, <1>6, <2>1 DEF Runs, Ending, writeReport, At
  <2>2. CASE artifactFails("report", Downgraded, "finish")
    BY <1>3, <1>4, <1>6, <2>2 DEF Ending, writeReport, At
  <2>3. QED
    BY <1>1, <1>4, <1>6, <2>1, <2>2 DEF writeReport, At
<1>7. CASE writeCopy
  BY <1>1, <1>2, <1>3, <1>4, <1>7 DEF writeCopy, Ending, At
<1>8. CASE finishTranscript
  BY <1>1, <1>2, <1>3, <1>4, <1>8 DEF finishTranscript, Ending, At
<1>9. CASE reconcile
  <2>1. CASE run.status # "completed" /\ \/ run' = [run EXCEPT !.pc = "done", !.success = FALSE]
                                         \/ run' = [run EXCEPT !.pc = "done", !.success = FALSE, !.artifactIo = TRUE]
    BY <1>1, <1>4, <1>9, <2>1 DEF reconcile, Runs, Ending, At
  <2>2. QED
    BY <1>1, <1>2, <1>4, <1>9, <2>1 DEF reconcile, Ending, At
<1>10. QED
  BY <1>5, <1>6, <1>7, <1>8, <1>9

LEMMA VerdictStory ==
  ASSUME RunType, RunStory, settle \/ writeReport \/ writeCopy \/ finishTranscript \/ reconcile
  PROVE  RunStory'
<1>1. CASE settle
  BY <1>1, VerdictFields DEF RunStory, Ending, Opening, TurnPcs
<1>2. CASE ~ settle
  <2>1. run.pc \in Ending \ {"settle"}
    BY <1>2 DEF writeReport, writeCopy, finishTranscript, reconcile, At, Ending
  <2>2. QED
    BY <2>1, VerdictFields DEF RunStory, Ending, Opening, TurnPcs
<1>3. QED
  BY <1>1, <1>2

LEMMA CloseFields ==
  ASSUME RunType, NEW hung \in BOOLEAN, closeScope(hung)
  PROVE  /\ run.pc = "close" /\ run'.pc = "settle"
         /\ run'.n = run.n /\ run'.status = run.status /\ run'.artifactIo = run.artifactIo
         /\ run'.success = run.success
         /\ ~ run'.closeFailed => Closes /\ Clean
         /\ run'.closeFailed \/ run'.closeFailed = run.closeFailed
         /\ Cut \/ (Closes /\ Clean)
<1>1. run \in Runs /\ run.pc = "close"
  BY DEF RunType, closeScope, At
<1>2. CASE Go("settle") /\ Closes /\ Clean
  BY <1>1, <1>2, GoFields
<1>3. CASE run' = [run EXCEPT !.pc = "settle", !.closeFailed = TRUE] /\ Cut
  BY <1>1, <1>3 DEF Runs
<1>4. QED
  BY <1>2, <1>3 DEF closeScope, Answered

LEMMA RunStoryKept ==
  ASSUME RunType, RunStory, [Next]_vars
  PROVE  RunStory'
<1>1. CASE Local
  BY <1>1, VerdictStory, WorkStory DEF Local
<1>2. ASSUME NEW hung \in BOOLEAN, closeScope(hung)
      PROVE  RunStory'
  BY <1>2, CloseFields DEF RunStory, Ending, Opening, TurnPcs
<1>3. CASE \E hung \in BOOLEAN : Request(hung)
  BY <1>2, <1>3, OpeningStory, TurnRunStory DEF Request
<1>4. CASE UNCHANGED run
  BY <1>4 DEF RunStory
<1>5. QED
  BY <1>1, <1>3, <1>4
     DEF Next, Interrupt, GenerationTimeout, BudgetEnds, TurnEnds, HostLoses, LateLands, vars

\* No turn goes on without its Scope.
TurnsInScope == \A e \in Turns : turns[e] = "running" => scope = "active"

LEMMA TurnsInScopeKept ==
  ASSUME HostType, TurnsInScope, [Next]_vars
  PROVE  TurnsInScope'
<1>1. HostStep
  BY NextHost
<1>2. CASE Same \/ Creates \/ Activates \/ UNCHANGED <<scope, turns>>
  BY <1>2 DEF Same, Creates, Activates, TurnsInScope
<1>3. CASE Closes
  BY <1>3 DEF Closes, Killed, TurnsInScope, HostType
<1>4. ASSUME NEW e, Executes(e) \/ Cancels(e)
      PROVE  TurnsInScope'
  BY <1>4 DEF Executes, Cancels, TurnsInScope, HostType
<1>5. ASSUME NEW e \in Turns, NEW end \in Terminals, turns' = [turns EXCEPT ![e] = end],
             UNCHANGED scope
      PROVE  TurnsInScope'
  BY <1>5 DEF TurnsInScope, HostType, Terminals
<1>6. QED
  BY <1>1, <1>2, <1>3, <1>4, <1>5 DEF HostStep

\* The Scope at both ends of a run.  A create that was cut off is still on its way only in a
\* run that was interrupted or failed: that is why a completed run needs no history of what
\* its cleanups met.
ScopeStory ==
  /\ run.pc \in {"start", "create"} => scope = "none" /\ late = {}
  /\ run.pc \in Ending /\ "host" \notin lost => scope \notin Open
  /\ "create" \in late =>
       \/ run.pc \in {"recoverCreate", "recoverClose"}
       \/ run.pc \in {"close"} \cup Ending /\ run.status # "completed"
  /\ run.pc \in Ending /\ run.status = "completed" /\ ~ run.closeFailed => scope \notin Open

\* A request that its signal did not abort leaves nothing behind.
LEMMA OpeningScope ==
  ASSUME RunType, RunStory, ScopeStory, NEW hung \in BOOLEAN,
         createScope(hung) \/ retryCreate(hung) \/ recoverCreate(hung) \/ recoverClose(hung)
           \/ activateScope(hung)
  PROVE  ScopeStory'
<1>1. run \in Runs
  BY DEF RunType
<1>2. CASE createScope(hung)
  <2>1. run.pc = "create" /\ UNCHANGED lost /\ scope = "none" /\ late = {}
    BY <1>2 DEF createScope, At, Clean, ScopeStory
  <2>2. CASE UNCHANGED late /\ run' = [run EXCEPT !.pc = "activate", !.known = TRUE]
    BY <1>1, <2>1, <2>2 DEF ScopeStory, Runs, Ending
  <2>3. CASE late' \subseteq {"create"} /\ Go("recoverCreate")
    BY <1>1, <2>1, <2>3, GoFields DEF ScopeStory, Ending
  <2>4. CASE UNCHANGED late /\ Go("retryCreate")
    BY <1>1, <2>1, <2>4, GoFields DEF ScopeStory, Ending
  <2>5. CASE Same /\ UNCHANGED late /\ Stop("failed", "run")
    BY <1>1, <2>1, <2>5, StopFields DEF ScopeStory, Ending, Same, Open
  <2>6. QED
    BY <1>2, <2>1, <2>2, <2>3, <2>4, <2>5 DEF createScope, Fails, Delayed
<1>3. CASE retryCreate(hung)
  <2>1. run.pc = "retryCreate" /\ "create" \notin late
    BY <1>3 DEF retryCreate, At, ScopeStory, Ending
  <2>2. CASE UNCHANGED late /\ run' = [run EXCEPT !.pc = "activate", !.known = TRUE]
    <3>1. run'.pc = "activate"
      BY <1>1, <2>2 DEF Runs
    <3>2. QED
      BY <2>1, <2>2, <3>1 DEF ScopeStory, Ending
  <2>3. CASE Go("recoverCreate")
    BY <1>1, <2>1, <2>3, GoFields DEF ScopeStory, Ending
  <2>4. QED
    BY <1>3, <2>2, <2>3 DEF retryCreate
<1>4. CASE recoverCreate(hung)
  <2>1. run.pc = "recoverCreate"
    BY <1>4 DEF recoverCreate, At
  <2>2. CASE Go("recoverClose")
    BY <1>1, <2>1, <2>2, GoFields DEF ScopeStory, Ending
  <2>3. CASE Stop("failed", "run") /\ Cut
    BY <1>1, <2>1, <2>3, StopFields DEF ScopeStory, Ending, Cut
  <2>4. QED
    BY <1>4, <2>2, <2>3 DEF recoverCreate
<1>5. CASE recoverClose(hung)
  <2>1. run.pc = "recoverClose" /\ Stop("failed", "run") /\ UNCHANGED late
    BY <1>5 DEF recoverClose, At
  <2>2. Cut \/ scope' \notin Open
    BY <1>5 DEF recoverClose, Answered, Closes, Open
  <2>3. QED
    BY <1>1, <2>1, <2>2, StopFields DEF ScopeStory, Ending, Cut
<1>6. CASE activateScope(hung)
  <2>1. run.pc = "activate" /\ run.known /\ UNCHANGED late /\ "create" \notin late
    BY <1>6 DEF activateScope, At, ScopeStory, RunStory, Ending
  <2>2. run'.pc \in {"next", "close"}
    BY <1>1, <1>6, <2>1, GoFields, StopFields DEF activateScope
  <2>3. QED
    BY <2>1, <2>2 DEF ScopeStory, Ending
<1>7. QED
  BY <1>2, <1>3, <1>4, <1>5, <1>6

LEMMA TurnScope ==
  ASSUME RunType, RunStory, ScopeStory, NEW hung \in BOOLEAN,
         execute(hung) \/ probe(hung) \/ follow(hung) \/ cancelExecution(hung) \/ observe(hung)
           \/ ackOnce(hung)
  PROVE  ScopeStory'
<1>1. run.pc \in TurnPcs /\ run \in Runs /\ run.known
  BY DEF execute, probe, follow, cancelExecution, observe, ackOnce, At, TurnPcs, RunType, RunStory
<1>2. \/ \E pc \in {"follow", "probe", "cancel", "observe", "persist"} : Go(pc)
      \/ \E outcome : startAck("discarded", outcome)
      \/ \E outcome : turnDone(outcome)
      \/ run' = [run EXCEPT !.pc = "ack", !.disposition = "discarded", !.outcome = "failed",
                            !.under = "budget"]
  BY DEF execute, probe, follow, cancelExecution, observe, ackOnce
<1>3. run'.pc \in TurnPcs \cup {"patch", "close"}
  <2>1. CASE \E pc \in {"follow", "probe", "cancel", "observe", "persist"} : Go(pc)
    BY <1>1, <2>1, GoFields DEF TurnPcs
  <2>2. CASE \E outcome : startAck("discarded", outcome)
    BY <1>1, <2>2 DEF startAck, TurnPcs, Runs
  <2>3. CASE \E outcome : turnDone(outcome)
    BY <1>1, <2>3, TurnDoneFields
  <2>4. CASE run' = [run EXCEPT !.pc = "ack", !.disposition = "discarded", !.outcome = "failed",
                                !.under = "budget"]
    BY <1>1, <2>4 DEF TurnPcs, Runs
  <2>5. QED
    BY <1>2, <2>1, <2>2, <2>3, <2>4
<1>4. "create" \notin late' /\ late' \subseteq late \cup {"execute"}
  BY <1>1, TurnHost DEF ScopeStory, TurnPcs, Ending
<1>5. QED
  BY <1>3, <1>4 DEF ScopeStory, TurnPcs, Ending

LEMMA CloseScope ==
  ASSUME RunType, RunStory, ScopeStory, NEW hung \in BOOLEAN, closeScope(hung)
  PROVE  ScopeStory'
<1>1. late' = late
  BY DEF closeScope
<1>2. Closes => scope' \notin Open
  BY DEF Closes, Open
<1>3. QED
  BY <1>1, <1>2, CloseFields DEF ScopeStory, Ending, Cut

LEMMA LocalScope ==
  ASSUME RunType, RunStory, ScopeStory, Local
  PROVE  ScopeStory'
<1>1. run \in Runs
  BY DEF RunType
<1>2. CASE start
  <2>1. run.pc = "start" /\ scope = "none" /\ late = {} /\ UNCHANGED <<scope, late>>
    BY <1>2 DEF start, At, ScopeStory, hostVars
  <2>2. run'.pc # "retryCreate"
    <3>1. CASE run' = [run EXCEPT !.pc = "settle", !.status = "failed", !.failure = "io"]
      BY <1>1, <3>1 DEF Runs
    <3>2. QED
      BY <1>1, <1>2, <3>1, GoFields, StopFields DEF start
  <2>3. QED
    BY <2>1, <2>2 DEF ScopeStory, Open
<1>3. CASE nextTurn \/ persist \/ patchDuration
  <2>1. UNCHANGED <<scope, late, lost>> /\ run.pc \in TurnPcs \cup {"next", "patch"} /\ run.known
    BY <1>3 DEF nextTurn, persist, patchDuration, hostVars, At, TurnPcs, RunStory
  <2>2. run'.pc \in {"execute", "ack", "next", "close"}
    <3>1. CASE nextTurn
      <4>1. CASE run' = [run EXCEPT !.pc = "execute", !.n = @ + 1]
        BY <1>1, <4>1 DEF Runs
      <4>2. QED
        BY <1>1, <2>1, <3>1, <4>1, GoFields, StopFields DEF nextTurn
    <3>2. CASE persist
      BY <1>1, <3>2 DEF persist, startAck, Runs
    <3>3. CASE patchDuration
      <4>1. CASE run' = [run EXCEPT !.pc = "close", !.status = "failed", !.failure = "io"]
        BY <1>1, <4>1 DEF Runs
      <4>2. QED
        BY <1>1, <3>3, <4>1, GoFields DEF patchDuration
    <3>4. QED
      BY <1>3, <3>1, <3>2, <3>3
  <2>3. QED
    BY <2>1, <2>2 DEF ScopeStory, Ending, TurnPcs
<1>4. CASE settle \/ writeReport \/ writeCopy \/ finishTranscript \/ reconcile
  <2>1. UNCHANGED lost \/ lost' = lost \cup {"report"}
    BY <1>4 DEF settle, writeReport, writeCopy, finishTranscript, reconcile, Clean
  <2>2. UNCHANGED <<scope, late>>
    BY <1>4, VerdictFields DEF hostVars
  <2>3. QED
    BY <1>4, <2>1, <2>2, VerdictFields DEF ScopeStory, Ending
<1>5. QED
  BY <1>2, <1>3, <1>4 DEF Local

LEMMA ScopeStoryKept ==
  ASSUME RunType, RunStory, ScopeStory, [Next]_vars
  PROVE  ScopeStory'
<1>1. CASE \E hung \in BOOLEAN : Request(hung)
  BY <1>1, OpeningScope, TurnScope, CloseScope DEF Request
<1>2. CASE UNCHANGED <<scope, late, run, lost>>
  BY <1>2 DEF ScopeStory
<1>3. ASSUME NEW e, TurnEnds(e)
      PROVE  ScopeStory'
  BY <1>2, <1>3 DEF TurnEnds
<1>4. CASE HostLoses
  BY <1>4 DEF HostLoses, Closes, ScopeStory, Open
<1>5. CASE LateLands
  <2>1. CASE "create" \in late /\ late' = late \ {"create"} /\ lost' = lost \cup {"host"}
    <3>1. run' = run /\ "create" \notin late' /\ "host" \in lost' /\ late # {}
      BY <1>5, <2>1 DEF LateLands
    <3>2. run.pc \notin {"start", "create"} /\ ~ (run.pc \in Ending /\ run.status = "completed")
      BY <2>1 DEF ScopeStory, Ending
    <3>3. QED
      BY <3>1, <3>2 DEF ScopeStory
  <2>2. CASE "execute" \in late /\ Executes(run.n) /\ late' = late \ {"execute"} /\ UNCHANGED lost
    BY <1>5, <2>2 DEF LateLands, Executes, ScopeStory
  <2>3. QED
    BY <1>5, <2>1, <2>2 DEF LateLands
<1>6. QED
  BY <1>1, <1>2, <1>3, <1>4, <1>5, LocalScope
     DEF Next, Interrupt, GenerationTimeout, BudgetEnds, vars, hostVars

-----------------------------------------------------------------------------
(* What a completed run has to show.                                       *)

\* The turns of a run that is still on its way to "completed": those behind it are recorded
\* and acknowledged as committed, and the ACK on its way is of a turn that was recorded.
TurnStory ==
  /\ run.status = "completed" =>
       \A e \in Turns : e < run.n \/ (e = run.n /\ run.pc \notin TurnPcs) =>
         e \in records /\ acks[e] = "committed"
  /\ run.pc = "ack" /\ run.outcome = "completed" =>
       run.disposition = "committed" /\ run.n \in records

\* Records are only appended and a committed turn stays committed.
AccountGrows ==
  records \subseteq records' /\ \A e \in Turns : acks[e] = "committed" => acks'[e] = "committed"

LEMMA AcksStay ==
  ASSUME HostType, [Next]_vars, NEW e \in Turns, acks[e] = "committed"
  PROVE  acks'[e] = "committed"
<1>1. ASSUME NEW hung \in BOOLEAN, ackOnce(hung)
      PROVE  acks'[e] = "committed"
  <2>1. CASE UNCHANGED acks
    BY <2>1
  <2>2. CASE acks[run.n] = None /\ acks' = [acks EXCEPT ![run.n] = run.disposition]
    BY <2>2, NoneAssumption DEF HostType
  <2>3. QED
    BY <1>1, <2>1, <2>2 DEF ackOnce, Answered, Fails, Acknowledges, Same
<1>2. ASSUME NEW hung \in BOOLEAN, Request(hung), ~ ackOnce(hung)
      PROVE  UNCHANGED acks
  <2>1. CASE execute(hung) \/ cancelExecution(hung)
    BY <2>1 DEF execute, cancelExecution, Answered, Fails, Same, Executes, Cancels
  <2>2. CASE probe(hung) \/ follow(hung) \/ observe(hung)
    BY <2>2 DEF probe, follow, observe, hostVars
  <2>3. QED
    BY <1>2, <2>1, <2>2, OpeningHost DEF Request
<1>3. CASE Local
  BY <1>3 DEF Local, start, nextTurn, persist, patchDuration, settle, writeReport, writeCopy,
       finishTranscript, reconcile, hostVars
<1>4. QED
  BY <1>1, <1>2, <1>3 DEF Next, Interrupt, GenerationTimeout, BudgetEnds, TurnEnds, HostLoses, LateLands,
       vars, hostVars, Closes, Creates, Executes

LEMMA RecordsStay ==
  ASSUME [Next]_vars
  PROVE  records \subseteq records'
<1>1. CASE Local
  BY <1>1 DEF Local, start, nextTurn, persist, patchDuration, settle, writeReport, writeCopy,
       finishTranscript, reconcile, diskVars
<1>2. CASE \E hung \in BOOLEAN : Request(hung)
  BY <1>2 DEF Request, createScope, retryCreate, recoverCreate, recoverClose, activateScope,
       execute, probe, follow, cancelExecution, observe, ackOnce, closeScope, OnlyRun, diskVars
<1>3. QED
  BY <1>1, <1>2 DEF Next, Interrupt, GenerationTimeout, BudgetEnds, TurnEnds, HostLoses, LateLands,
       vars, diskVars

LEMMA AccountGrowing ==
  ASSUME HostType, [Next]_vars
  PROVE  AccountGrows
BY AcksStay, RecordsStay DEF AccountGrows

\* A step that starts no turn and ends none in "completed" keeps the account.
LEMMA SameTurns ==
  ASSUME TurnStory, AccountGrows, run'.n = run.n,
         run'.status = "completed" => run.status = "completed",
         run.pc \in TurnPcs => run'.pc \in TurnPcs \/ run'.status # "completed",
         run'.pc = "ack" => \/ run'.outcome # "completed"
                            \/ run'.disposition = "committed" /\ run'.n \in records'
  PROVE  TurnStory'
BY DEF TurnStory, AccountGrows

LEMMA OpeningFields ==
  ASSUME RunType, NEW hung \in BOOLEAN,
         createScope(hung) \/ retryCreate(hung) \/ recoverCreate(hung) \/ recoverClose(hung)
           \/ activateScope(hung)
  PROVE  /\ run.pc \in Opening
         /\ run'.pc \in Opening \cup {"next", "close", "settle"}
         /\ run'.n = run.n /\ run'.success = run.success
         /\ run'.status = "completed" => run.status = "completed"
<1>1. run.pc \in Opening /\ run \in Runs
  BY DEF createScope, retryCreate, recoverCreate, recoverClose, activateScope, At, Opening, RunType
<1>2. \/ \E pc \in {"recoverCreate", "retryCreate", "recoverClose", "next"} : Go(pc)
      \/ run' = [run EXCEPT !.pc = "activate", !.known = TRUE]
      \/ Stop("failed", "run")
  BY DEF createScope, retryCreate, recoverCreate, recoverClose, activateScope
<1>3. CASE \E pc \in {"recoverCreate", "retryCreate", "recoverClose", "next"} : Go(pc)
  BY <1>1, <1>3, GoFields DEF Opening
<1>4. CASE run' = [run EXCEPT !.pc = "activate", !.known = TRUE]
  BY <1>1, <1>4 DEF Opening, Runs
<1>5. CASE Stop("failed", "run")
  BY <1>1, <1>5, StopFields
<1>6. QED
  BY <1>2, <1>3, <1>4, <1>5

\* A turn's request goes on within the turn, gives it up, or ends it in "completed".
LEMMA TurnFields ==
  ASSUME RunType, NEW hung \in BOOLEAN,
         execute(hung) \/ probe(hung) \/ follow(hung) \/ cancelExecution(hung) \/ observe(hung)
           \/ ackOnce(hung)
  PROVE  /\ run.pc \in TurnPcs /\ run'.n = run.n /\ run'.success = run.success
         /\ run'.status = "completed" => run.status = "completed"
         /\ \/ run'.pc \in TurnPcs /\ (run'.pc = "ack" => run'.outcome # "completed")
            \/ run'.pc \in {"close", "settle"} /\ run'.status # "completed"
            \/ run'.pc = "patch" /\ run.pc = "ack" /\ run.outcome = "completed"
               /\ acks' = [acks EXCEPT ![run.n] = run.disposition]
<1>1. run.pc \in TurnPcs /\ run \in Runs
  BY DEF execute, probe, follow, cancelExecution, observe, ackOnce, At, TurnPcs, RunType
<1>2. \/ \E pc \in {"follow", "probe", "cancel", "observe", "persist"} : Go(pc)
      \/ \E outcome \in {"failed", "interrupted"} : startAck("discarded", outcome)
      \/ turnDone("failed")
      \/ /\ turnDone(run.outcome) /\ run.pc = "ack"
         /\ acks' = [acks EXCEPT ![run.n] = run.disposition]
      \/ run' = [run EXCEPT !.pc = "ack", !.disposition = "discarded", !.outcome = "failed",
                            !.under = "budget"]
  BY DEF execute, probe, follow, cancelExecution, observe, ackOnce, At, Answered, Acknowledges
<1>3. CASE \E pc \in {"follow", "probe", "cancel", "observe", "persist"} : Go(pc)
  BY <1>1, <1>3, GoFields DEF TurnPcs
<1>4. CASE \E outcome \in {"failed", "interrupted"} : startAck("discarded", outcome)
  BY <1>1, <1>4 DEF startAck, TurnPcs, Runs
<1>5. CASE turnDone("failed")
  BY <1>1, <1>5, TurnDoneFields
<1>6. CASE turnDone(run.outcome) /\ run.pc = "ack"
           /\ acks' = [acks EXCEPT ![run.n] = run.disposition]
  BY <1>1, <1>6, TurnDoneFields
<1>7. CASE run' = [run EXCEPT !.pc = "ack", !.disposition = "discarded", !.outcome = "failed",
                              !.under = "budget"]
  BY <1>1, <1>7 DEF TurnPcs, Runs
<1>8. QED
  BY <1>2, <1>3, <1>4, <1>5, <1>6, <1>7

LEMMA RequestTurns ==
  ASSUME RunType, HostType, RunStory, TurnStory, AccountGrows, NEW hung \in BOOLEAN, Request(hung)
  PROVE  TurnStory'
<1>1. CASE createScope(hung) \/ retryCreate(hung) \/ recoverCreate(hung) \/ recoverClose(hung)
             \/ activateScope(hung)
  BY <1>1, OpeningFields, SameTurns DEF Opening, TurnPcs
<1>2. CASE execute(hung) \/ probe(hung) \/ follow(hung) \/ cancelExecution(hung) \/ observe(hung)
             \/ ackOnce(hung)
  <2>1. CASE run'.pc # "patch"
    BY <1>2, <2>1, TurnFields, SameTurns DEF TurnPcs
  <2>2. CASE run'.pc = "patch"
    <3>1. /\ run.pc = "ack" /\ run.outcome = "completed" /\ run'.n = run.n
          /\ acks' = [acks EXCEPT ![run.n] = run.disposition]
          /\ run'.status = "completed" => run.status = "completed"
      BY <1>2, <2>2, TurnFields DEF TurnPcs
    <3>2. run.disposition = "committed" /\ run.n \in records /\ run.n \in Turns
      BY <3>1 DEF TurnStory, RunType, TurnPcs
    <3>3. run.n \in records' /\ acks'[run.n] = "committed"
      BY <3>1, <3>2 DEF AccountGrows, HostType
    <3>4. QED
      BY <2>2, <3>1, <3>3 DEF TurnStory, AccountGrows
  <2>3. QED
    BY <2>1, <2>2
<1>3. CASE closeScope(hung)
  BY <1>3, CloseFields, SameTurns DEF TurnPcs
<1>4. QED
  BY <1>1, <1>2, <1>3 DEF Request

LEMMA LocalTurns ==
  ASSUME RunType, RunStory, TurnStory, AccountGrows, Local
  PROVE  TurnStory'
<1>1. run \in Runs
  BY DEF RunType
<1>2. CASE start
  <2>1. CASE run' = [run EXCEPT !.pc = "settle", !.status = "failed", !.failure = "io"]
    BY <1>1, <2>1 DEF TurnStory, Runs
  <2>2. CASE Go("create")
    BY <1>1, <1>2, <2>2, GoFields, SameTurns DEF start, At, TurnPcs
  <2>3. CASE Stop("failed", "run")
    BY <1>1, <2>3, StopFields DEF TurnStory
  <2>4. QED
    BY <1>2, <2>1, <2>2, <2>3 DEF start
<1>3. CASE nextTurn
  <2>1. run.pc = "next"
    BY <1>3 DEF nextTurn, At
  <2>2. CASE Go("close")
    BY <1>1, <2>1, <2>2, GoFields, SameTurns DEF TurnPcs
  <2>3. CASE run' = [run EXCEPT !.pc = "execute", !.n = @ + 1]
    <3>1. run' = [run EXCEPT !.pc = "execute", !.n = run.n + 1]
      BY <2>3
    <3>2. run'.pc = "execute" /\ run'.n = run.n + 1 /\ run'.status = run.status
      BY <1>1, <3>1 DEF Runs
    <3>3. run.n \in Nat
      BY <1>1, TurnsAssumption DEF Runs
    <3>4. ASSUME NEW e \in Turns, e < run'.n
          PROVE  e < run.n \/ e = run.n
      BY <3>2, <3>3, <3>4, TurnsAssumption DEF Turns
    <3>5. run'.pc \in TurnPcs /\ run.pc \notin TurnPcs
      BY <2>1, <3>2 DEF TurnPcs
    <3>6. ASSUME NEW e \in Turns, run'.status = "completed",
                 e < run'.n \/ (e = run'.n /\ run'.pc \notin TurnPcs)
          PROVE  e \in records' /\ acks'[e] = "committed"
      BY <3>2, <3>4, <3>5, <3>6, Zenon DEF TurnStory, AccountGrows
    <3>7. QED
      BY <3>2, <3>6, Zenon DEF TurnStory
  <2>4. CASE Stop("interrupted", "signal")
    BY <1>1, <2>4, StopFields DEF TurnStory
  <2>5. QED
    BY <1>3, <2>2, <2>3, <2>4 DEF nextTurn
<1>4. CASE persist
  <2>1. /\ run.pc = "persist" /\ run'.pc = "ack" /\ run'.n = run.n /\ run'.status = run.status
        /\ run'.outcome = "completed" => run'.disposition = "committed"
    BY <1>1, <1>4 DEF persist, At, startAck, Runs
  <2>2. run.n \in records'
    BY <1>4 DEF persist
  <2>3. QED
    BY <2>1, <2>2, SameTurns DEF TurnPcs
<1>5. CASE patchDuration
  <2>1. CASE run' = [run EXCEPT !.pc = "close", !.status = "failed", !.failure = "io"]
    BY <1>1, <2>1 DEF TurnStory, Runs
  <2>2. CASE Go("next")
    BY <1>1, <1>5, <2>2, GoFields, SameTurns DEF patchDuration, At, TurnPcs
  <2>3. QED
    BY <1>5, <2>1, <2>2 DEF patchDuration
<1>6. CASE settle \/ writeReport \/ writeCopy \/ finishTranscript \/ reconcile
  BY <1>6, VerdictFields, SameTurns DEF Ending, TurnPcs
<1>7. QED
  BY <1>2, <1>3, <1>4, <1>5, <1>6 DEF Local

LEMMA TurnStoryKept ==
  ASSUME RunType, HostType, RunStory, TurnStory, [Next]_vars
  PROVE  TurnStory'
<1>1. AccountGrows
  BY AccountGrowing
<1>2. CASE UNCHANGED run
  BY <1>1, <1>2 DEF TurnStory, AccountGrows
<1>3. QED
  BY <1>1, <1>2, RequestTurns, LocalTurns
     DEF Next, Interrupt, GenerationTimeout, BudgetEnds, TurnEnds, HostLoses, LateLands, vars

\* The report and the transcript of a run that is being written up.  `success` stands for a
\* report of success that may be on disk until the last step has dealt with it.
WrittenUp == {"out", "finish", "reconcile", "done"}
Finished  == {"reconcile", "done"}

FileStory ==
  /\ run.pc \in WrittenUp /\ run.status = "completed" => files.report = "success"
  /\ run.pc \in Finished /\ run.status = "completed" =>
       files.transcript = Turns /\ files.finished = "completed"
  /\ run.pc # "done" /\ files.report = "success" => run.success
  /\ run.pc = "done" /\ files.report = "success" => run.status = "completed" \/ "report" \in lost
  /\ run.pc \in Finished => files.finished = run.status \/ run.artifactIo

\* Before the write-up only the Reporter's own write makes a report of success.
LEMMA EarlyFiles ==
  ASSUME FileStory, run.pc \notin WrittenUp, run'.pc \notin WrittenUp,
         files'.report = "success" => run'.success \/ (files.report = "success" /\ run'.success = run.success)
  PROVE  FileStory'
BY DEF FileStory, WrittenUp, Finished

LEMMA RequestFiles ==
  ASSUME RunType, FileStory, NEW hung \in BOOLEAN, Request(hung)
  PROVE  FileStory'
<1>1. UNCHANGED files
  BY DEF Request, createScope, retryCreate, recoverCreate, recoverClose, activateScope,
     execute, probe, follow, cancelExecution, observe, ackOnce, closeScope, OnlyRun, diskVars
<1>2. CASE createScope(hung) \/ retryCreate(hung) \/ recoverCreate(hung) \/ recoverClose(hung)
             \/ activateScope(hung)
  BY <1>1, <1>2, OpeningFields, EarlyFiles DEF Opening, WrittenUp
<1>3. CASE execute(hung) \/ probe(hung) \/ follow(hung) \/ cancelExecution(hung) \/ observe(hung)
             \/ ackOnce(hung)
  BY <1>1, <1>3, TurnFields, EarlyFiles DEF TurnPcs, WrittenUp
<1>4. CASE closeScope(hung)
  BY <1>1, <1>4, CloseFields, EarlyFiles DEF WrittenUp
<1>5. QED
  BY <1>2, <1>3, <1>4 DEF Request

LEMMA WorkFiles ==
  ASSUME RunType, DiskType, FileStory, start \/ nextTurn \/ persist \/ patchDuration \/ settle
  PROVE  FileStory'
<1>1. run \in Runs /\ files \in Files
  BY DEF RunType, DiskType
<1>2. CASE start
  <2>1. run.pc = "start" /\ UNCHANGED files
    BY <1>2 DEF start, At, diskVars
  <2>2. run'.pc \in {"create", "settle", "close"} /\ run'.success = run.success
    <3>1. CASE run' = [run EXCEPT !.pc = "settle", !.status = "failed", !.failure = "io"]
      BY <1>1, <3>1 DEF Runs
    <3>2. QED
      BY <1>1, <1>2, <3>1, GoFields, StopFields DEF start
  <2>3. QED
    BY <2>1, <2>2, EarlyFiles DEF WrittenUp
<1>3. CASE nextTurn
  <2>1. run.pc = "next" /\ UNCHANGED files
    BY <1>3 DEF nextTurn, At, diskVars
  <2>2. run'.pc \in {"execute", "settle", "close"} /\ run'.success = run.success
    <3>1. CASE run' = [run EXCEPT !.pc = "execute", !.n = @ + 1]
      BY <1>1, <3>1 DEF Runs
    <3>2. QED
      BY <1>1, <1>3, <3>1, GoFields, StopFields DEF nextTurn
  <2>3. QED
    BY <2>1, <2>2, EarlyFiles DEF WrittenUp
<1>4. CASE persist
  <2>1. run.pc = "persist" /\ run'.pc = "ack"
    BY <1>1, <1>4 DEF persist, At, startAck, Runs
  <2>2. CASE Transcript(None) \/ UNCHANGED files
    <3>1. files'.report = files.report
      BY <1>1, <2>2 DEF Transcript, Files
    <3>2. run'.success = run.success \/ run'.success
      BY <1>1, <1>4 DEF persist, startAck, Runs
    <3>3. QED
      BY <2>1, <3>1, <3>2, EarlyFiles DEF WrittenUp
  <2>3. CASE run' = [run EXCEPT !.pc = "ack", !.disposition = "committed", !.outcome = "completed",
                                !.under = IF Deadline THEN "budget" ELSE "deadline",
                                !.success = TRUE]
    <3>1. run'.success
      BY <1>1, <2>3 DEF Runs
    <3>2. QED
      BY <2>1, <3>1, EarlyFiles DEF WrittenUp
  <2>4. QED
    BY <1>4, <2>2, <2>3 DEF persist
<1>5. CASE patchDuration
  <2>1. run.pc = "patch" /\ files'.report = files.report
    BY <1>1, <1>5 DEF patchDuration, At, Files
  <2>2. run'.pc \in {"next", "close"} /\ run'.success = run.success
    <3>1. CASE run' = [run EXCEPT !.pc = "close", !.status = "failed", !.failure = "io"]
      BY <1>1, <3>1 DEF Runs
    <3>2. QED
      BY <1>1, <1>5, <3>1, GoFields DEF patchDuration
  <2>3. QED
    BY <2>1, <2>2, EarlyFiles DEF WrittenUp
<1>6. CASE settle
  <2>1. run.pc = "settle" /\ run'.pc = "report" /\ run'.success = run.success /\ UNCHANGED files
    BY <1>1, <1>6 DEF settle, At, Runs, diskVars
  <2>2. QED
    BY <2>1, EarlyFiles DEF WrittenUp
<1>7. QED
  BY <1>2, <1>3, <1>4, <1>5, <1>6

LEMMA ArtifactFields ==
  ASSUME run \in Runs, NEW phase, NEW status, NEW pc, artifactFails(phase, status, pc)
  PROVE  run'.pc = pc /\ run'.status = status /\ run'.artifactIo /\ run'.success = run.success
         /\ files' = files
BY DEF artifactFails, Runs

LEMMA ReportFiles ==
  ASSUME RunType, DiskType, FileStory, writeReport \/ writeCopy
  PROVE  FileStory'
<1>1. run \in Runs /\ files \in Files
  BY DEF RunType, DiskType
<1>2. CASE writeReport
  <2>1. run.pc = "report"
    BY <1>2 DEF writeReport, At
  <2>2. CASE /\ files' = [files EXCEPT !.report = IF run.status = "completed" THEN "success" ELSE "partial"]
             /\ run' = [run EXCEPT !.pc = IF run.out THEN "out" ELSE "finish",
                                   !.success = run.status = "completed"]
    <3>1. /\ run'.pc \in {"out", "finish"} /\ run'.status = run.status
          /\ run.status = "completed" => run'.success
      BY <1>1, <2>2 DEF Runs
    <3>2. files'.report = IF run.status = "completed" THEN "success" ELSE "partial"
      BY <1>1, <2>2 DEF Files
    <3>3. QED
      BY <3>1, <3>2 DEF FileStory, WrittenUp, Finished
  <2>3. CASE artifactFails("report", Downgraded, "finish")
    <3>1. Downgraded # "completed"
      BY DEF Downgraded
    <3>2. QED
      BY <1>1, <2>1, <2>3, <3>1, ArtifactFields DEF FileStory, WrittenUp, Finished
  <2>4. QED
    BY <1>2, <2>2, <2>3 DEF writeReport
<1>3. CASE writeCopy
  <2>1. run.pc = "out"
    BY <1>3 DEF writeCopy, At
  <2>2. CASE Go("finish") /\ UNCHANGED files
    BY <1>1, <2>1, <2>2, GoFields DEF FileStory, WrittenUp, Finished
  <2>3. CASE artifactFails("report", "failed", "finish")
    BY <1>1, <2>1, <2>3, ArtifactFields DEF FileStory, WrittenUp, Finished
  <2>4. QED
    BY <1>3, <2>2, <2>3 DEF writeCopy
<1>4. QED
  BY <1>2, <1>3

LEMMA FinishFiles ==
  ASSUME RunType, DiskType, RunStory, TurnStory, FileStory, finishTranscript
  PROVE  FileStory'
<1>1. run \in Runs /\ files \in Files /\ run.pc = "finish" /\ records \subseteq Turns
  BY DEF RunType, DiskType, finishTranscript, At
<1>2. run.status = "completed" => records = Turns
  <2>1. SUFFICES ASSUME run.status = "completed", NEW e \in Turns
                 PROVE  e \in records
    BY <1>1
  <2>2. run.n = Reporter /\ run.pc \notin TurnPcs
    BY <1>1, <2>1 DEF RunStory, Ending, TurnPcs
  <2>3. e < run.n \/ e = run.n
    BY <2>2, TurnsAssumption DEF Turns, Reporter
  <2>4. QED
    BY <2>1, <2>2, <2>3 DEF TurnStory
<1>3. CASE Go("reconcile") /\ files' = [files EXCEPT !.transcript = records, !.finished = run.status]
  <2>1. files'.transcript = records /\ files'.finished = run.status /\ files'.report = files.report
    BY <1>1, <1>3 DEF Files
  <2>2. QED
    BY <1>1, <1>2, <1>3, <2>1, GoFields DEF FileStory, WrittenUp, Finished
<1>4. CASE artifactFails("io", Downgraded, "reconcile")
  <2>1. Downgraded # "completed"
    BY DEF Downgraded
  <2>2. QED
    BY <1>1, <1>4, <2>1, ArtifactFields DEF FileStory, WrittenUp, Finished
<1>5. QED
  BY <1>3, <1>4 DEF finishTranscript

LEMMA ReconcileFiles ==
  ASSUME RunType, DiskType, FileStory, reconcile
  PROVE  FileStory'
<1>1. run \in Runs /\ files \in Files /\ run.pc = "reconcile"
  BY DEF RunType, DiskType, reconcile, At
<1>2. CASE /\ run.status # "completed" /\ files' = [files EXCEPT !.report = "partial"]
           /\ run' = [run EXCEPT !.pc = "done", !.success = FALSE]
  <2>1. run'.pc = "done" /\ run'.status = run.status /\ run'.artifactIo = run.artifactIo
    BY <1>1, <1>2 DEF Runs
  <2>2. files'.report = "partial" /\ files'.finished = files.finished
    BY <1>1, <1>2 DEF Files
  <2>3. QED
    BY <1>1, <1>2, <2>1, <2>2 DEF FileStory, WrittenUp, Finished
<1>3. CASE /\ run.status # "completed" /\ UNCHANGED files /\ lost' = lost \cup {"report"}
           /\ run' = [run EXCEPT !.pc = "done", !.success = FALSE, !.artifactIo = TRUE]
  <2>1. run'.pc = "done" /\ run'.status = run.status /\ run'.artifactIo
    BY <1>1, <1>3 DEF Runs
  <2>2. QED
    BY <1>1, <1>3, <2>1 DEF FileStory, WrittenUp, Finished
<1>4. CASE /\ ~ (run.status # "completed" /\ run.success)
           /\ Go("done") /\ UNCHANGED files
  BY <1>1, <1>4, GoFields DEF FileStory, WrittenUp, Finished
<1>5. QED
  BY <1>2, <1>3, <1>4 DEF reconcile

LEMMA FileStoryKept ==
  ASSUME RunType, DiskType, RunStory, TurnStory, FileStory, [Next]_vars
  PROVE  FileStory'
<1>1. CASE Local
  BY <1>1, WorkFiles, ReportFiles, FinishFiles, ReconcileFiles DEF Local
<1>2. CASE UNCHANGED <<files, run>> /\ lost \subseteq lost'
  BY <1>2 DEF FileStory
<1>3. CASE LateLands
  BY <1>2, <1>3 DEF LateLands, diskVars
<1>4. QED
  BY <1>1, <1>2, <1>3, RequestFiles
     DEF Next, Interrupt, GenerationTimeout, BudgetEnds, TurnEnds, HostLoses, vars, diskVars

-----------------------------------------------------------------------------
Story == IInv /\ RunStory /\ TurnsInScope /\ ScopeStory /\ TurnStory /\ FileStory

LEMMA InitStory ==
  ASSUME Init
  PROVE  Story
<1>1. IInv
  BY InitIInv
<1>2. /\ run.pc = "start" /\ run.n = 0 /\ run.status = "completed" /\ ~ run.artifactIo
      /\ ~ run.closeFailed
  BY DEF Init
<1>3. scope = "none" /\ late = {} /\ files.report = None /\ \A e \in Turns : turns[e] = "none"
  BY DEF Init
<1>4. RunStory
  BY <1>2 DEF RunStory, Ending, Opening, TurnPcs
<1>5. TurnsInScope /\ ScopeStory
  BY <1>2, <1>3 DEF TurnsInScope, ScopeStory, Ending
<1>6. TurnStory
  <2>1. \A e \in Turns : ~ (e < 0) /\ e # 0
    BY TurnsAssumption DEF Turns
  <2>2. QED
    BY <1>2, <2>1 DEF TurnStory
<1>7. FileStory
  BY <1>2, <1>3, NoneAssumption DEF FileStory, WrittenUp, Finished
<1>8. QED
  BY <1>1, <1>4, <1>5, <1>6, <1>7 DEF Story

LEMMA StoryKept ==
  ASSUME Story, [Next]_vars
  PROVE  Story'
<1>1. RunType /\ HostType /\ DiskType
  BY DEF Story, IInv, Kept
<1>2. IInv' /\ RunStory' /\ TurnsInScope'
  BY <1>1, IInvKept, RunStoryKept, TurnsInScopeKept DEF Story
<1>3. ScopeStory' /\ TurnStory' /\ FileStory'
  BY <1>1, ScopeStoryKept, TurnStoryKept, FileStoryKept DEF Story
<1>4. QED
  BY <1>2, <1>3 DEF Story

LEMMA StoryHolds == Spec => []Story
<1>1. Init => Story
  BY InitStory
<1>2. Story /\ [Next]_vars => Story'
  BY StoryKept
<1>3. QED
  BY <1>1, <1>2, PTL DEF Spec

\* A run that is over has left no Scope and no turn at the Host, for any number of turns and
\* faults and wherever a signal reached it, unless a cleanup failed: every way into the end
\* of a run goes by a close that was answered, by a failure, or by a create never sent.
THEOREM NothingLeftRunning == Spec => []NothingRunsOn
<1>1. ASSUME Story, At("done"), "host" \notin lost
      PROVE  scope \notin {"creating", "active"} /\ \A e \in Turns : turns[e] # "running"
  BY <1>1 DEF Story, ScopeStory, TurnsInScope, Ending, Open, At
<1>2. Story => NothingRunsOn
  BY <1>1 DEF NothingRunsOn
<1>3. QED
  BY <1>2, StoryHolds, PTL

\* The exit code, the transcript and the report agree for any number of turns and faults: a
\* run that exits 0 has every turn recorded, acknowledged and on disk, and no other leaves a
\* report of success that a last attempt did not try to replace.
THEOREM ArtifactsAgree == Spec => []ArtifactsTellTheVerdict
<1>1. ASSUME Story, At("done")
      PROVE  /\ exitCode = 0 => /\ files = [transcript |-> Turns, finished |-> "completed", report |-> "success"]
                                /\ \A e \in Turns : acks[e] = "committed"
                                /\ scope \notin {"creating", "active"}
             /\ files.report = "success" => exitCode = 0 \/ "report" \in lost
             /\ files.finished # run.status => run.artifactIo /\ exitCode \in {5, 130}
  <2>1. run.pc = "done" /\ run \in Runs /\ files \in Files
    BY <1>1 DEF At, Story, IInv, RunType, Kept, DiskType
  <2>2. /\ exitCode = 0 => run.status = "completed"
        /\ run.status = "completed" /\ ~ run.artifactIo => exitCode = 0
        /\ run.artifactIo => exitCode \in {5, 130}
    BY DEF exitCode
  <2>3. run.status = "completed" => ~ run.artifactIo /\ ~ run.closeFailed /\ run.n = Reporter
    BY <1>1, <2>1 DEF Story, RunStory, Ending
  <2>4. ASSUME exitCode = 0
        PROVE  /\ files = [transcript |-> Turns, finished |-> "completed", report |-> "success"]
               /\ \A e \in Turns : acks[e] = "committed"
               /\ scope \notin {"creating", "active"}
    <3>1. run.status = "completed"
      BY <2>2, <2>4
    <3>2. files.transcript = Turns /\ files.finished = "completed" /\ files.report = "success"
      BY <1>1, <2>1, <3>1 DEF Story, FileStory, WrittenUp, Finished
    <3>3. files = [transcript |-> Turns, finished |-> "completed", report |-> "success"]
      BY <2>1, <3>2 DEF Files
    <3>4. scope \notin {"creating", "active"}
      BY <1>1, <2>1, <2>3, <3>1 DEF Story, ScopeStory, Ending, Open
    <3>5. ASSUME NEW e \in Turns
          PROVE  acks[e] = "committed"
      <4>1. e < run.n \/ e = run.n
        BY <2>3, <3>1, TurnsAssumption DEF Turns, Reporter
      <4>2. QED
        BY <1>1, <2>1, <3>1, <4>1 DEF Story, TurnStory, TurnPcs
    <3>6. QED
      BY <3>3, <3>4, <3>5
  <2>5. files.report = "success" => exitCode = 0 \/ "report" \in lost
    BY <1>1, <2>1, <2>2, <2>3 DEF Story, FileStory
  <2>6. files.finished # run.status => run.artifactIo /\ exitCode \in {5, 130}
    BY <1>1, <2>1, <2>2 DEF Story, FileStory, Finished
  <2>7. QED
    BY <2>4, <2>5, <2>6
<1>2. Story => ArtifactsTellTheVerdict
  BY <1>1 DEF ArtifactsTellTheVerdict
<1>3. QED
  BY <1>2, StoryHolds, PTL
=============================================================================
