---------------------------- MODULE RepairSafety ----------------------------
(***************************************************************************)
(* What the repair of a branch promises about its lease, its deadline      *)
(* records, its pushes and its approvals, for any number of runs, cycles,  *)
(* loops, writers and faults.                                              *)
(*                                                                         *)
(* First, every state is well formed.  The types need what each step of    *)
(* the loop may rely on: a cycle in progress, a commit to review, a review *)
(* to judge and a budget to count in.  Last comes the budget of the chain: *)
(* a source fix is paid one step before its cycle is on record, and a stop *)
(* command that writes back an older record only forgets cycles (ChainInv).*)
(***************************************************************************)
EXTENDS RepairProperties, FiniteSetTheorems, WellFoundedInduction, TLAPS

\* The steps of a loop that work on the last cycle of its run, that hold a review of it,
\* and that publish it.
CycleSteps   == Pcs \ {"done", "preflight", "acquire", "top", "reserve", "release"}
JudgingSteps == {"reviewed", "inspect", "gate", "published", "final", "verdict"}
PublishSteps == {"publish", "push", "pushed", "receipt"}

\* A run that has a phase has a cycle, a task that is ready has a commit.
RowOK(s)  == s.phase # "none" => s.outerUsed # 0
RowsOK    == /\ \A r \in Runs : RowOK(st[r])
             /\ RowOK(stopper.snapshot) /\ (stopper # NoStop => stopper.run \in Runs)
TasksOK   == \A r \in Runs, k \in Cycles : tasks[r][k].status = "ready" => tasks[r][k].sha # NoSha

LoopOK ==
  /\ loop.pc # "done" => me \in Runs
  /\ loop.pc \notin {"done", "release", "preflight"} /\ isV2(mine) => chain # None
  /\ loop.pc = "reserve" => cycleN < OuterMax
  /\ loop.pc \in CycleSteps => cycleN # 0
  /\ loop.pc = "review" => loop.sha # NoSha
  /\ loop.pc \in JudgingSteps => loop.review # None
  /\ loop.pc \in PublishSteps /\ isV2(mine) => loop.review # None

Typed == RepairTypeOK /\ RowsOK /\ TasksOK /\ LoopOK

-----------------------------------------------------------------------------
\* What several steps need.

LEMMA Bounds ==
  /\ MaxRuns \in Nat /\ OuterMax \in Nat /\ SourceFixMax \in Nat /\ MaxLoops \in Nat
  /\ MaxSpawns \in Nat /\ MaxFaults \in Nat /\ MaxShas \in Nat /\ MaxShas > 1
BY RepairAssumption

LEMMA Mine ==
  ASSUME Typed, loop.pc # "done"
  PROVE  me \in Runs /\ mine \in States /\ cycleN \in 0 .. OuterMax /\ loop \in Loops
BY DEF Typed, LoopOK, RepairTypeOK, mine, cycleN, States

LEMMA MyTask ==
  ASSUME Typed, loop.pc \in CycleSteps
  PROVE  cycleN \in Cycles /\ task \in Tasks /\ execution \in Executions
<1>1. loop.pc # "done"
  BY DEF CycleSteps
<1>2. cycleN \in Cycles
  BY <1>1, Mine, RepairAssumption DEF Typed, LoopOK, Cycles
<1> QED
  BY <1>1, <1>2, Mine DEF Typed, RepairTypeOK, task, execution

\* A write of repair.json of the loop's own run.
LEMMA Write ==
  ASSUME Typed, loop.pc # "done", NEW s \in States, RowOK(s),
         st' = [st EXCEPT ![me] = s], stopper' = stopper
  PROVE  st' \in [Runs -> States] /\ RowsOK' /\ st'[me] = s
BY Mine DEF Typed, RepairTypeOK, RowsOK, RowOK

\* finish.
LEMMA Finish ==
  ASSUME Typed, loop.pc # "done", NEW result \in {"approved", "needs_attention", "stopped"},
         finish(result), stopper' = stopper
  PROVE  st' \in [Runs -> States] /\ RowsOK' /\ loop' \in Loops /\ LoopOK'
<1>1. me \in Runs /\ mine \in States /\ loop \in Loops
  BY Mine
<1>2. [mine EXCEPT !.result = result] \in States /\ RowOK([mine EXCEPT !.result = result])
  BY <1>1 DEF States, Typed, RowsOK, RowOK, mine
<1>3. st' = [st EXCEPT ![me] = [mine EXCEPT !.result = result]]
  BY <1>1 DEF finish, mine, Typed, RepairTypeOK
<1>4. loop' \in Loops /\ loop'.pc = "release" /\ loop'.run = me
  BY <1>1 DEF finish, Loops, NoLoop, Pcs, NoSha
<1>5. LoopOK'
  BY <1>1, <1>4 DEF LoopOK, me, CycleSteps, JudgingSteps, PublishSteps
<1> QED
  BY <1>2, <1>3, <1>4, <1>5, Write

\* A loop that is gone.
LEMMA Gone ==
  ASSUME loop' = NoLoop
  PROVE  loop' \in Loops /\ LoopOK'
BY RepairAssumption DEF NoLoop, Loops, LoopOK, Pcs, NoSha, CycleSteps, JudgingSteps, PublishSteps

\* bridge.stop, complete or not.
LEMMA Stopped ==
  ASSUME Typed, NEW r \in Runs, NEW K \in SUBSET Cycles, stop(r, K) \/ stopThrew(r, K)
  PROVE  live' \subseteq Pids /\ tasks' \in [Runs -> [Cycles -> Tasks]] /\ TasksOK'
<1>1. live' \subseteq Pids
  BY DEF stop, stopThrew, Typed, RepairTypeOK
<1>2. CASE stopThrew(r, K)
  BY <1>1, <1>2 DEF stopThrew, Typed, RepairTypeOK, TasksOK
<1>3. CASE stop(r, K)
  <2> DEFINE row == [k \in Cycles |-> IF k \in K THEN [tasks[r][k] EXCEPT !.status = "stopped"]
                                       ELSE tasks[r][k]]
  <2>1. tasks' = [tasks EXCEPT ![r] = row]
    BY <1>3 DEF stop, Typed, RepairTypeOK
  <2>2. \A k \in Cycles : /\ row[k] \in Tasks
                          /\ row[k].status = "ready" => row[k].sha # NoSha
    <3> SUFFICES ASSUME NEW k \in Cycles
                 PROVE  row[k] \in Tasks /\ (row[k].status = "ready" => row[k].sha # NoSha)
      OBVIOUS
    <3>1. tasks[r][k] \in Tasks /\ (tasks[r][k].status = "ready" => tasks[r][k].sha # NoSha)
      BY DEF Typed, RepairTypeOK, TasksOK
    <3> QED
      BY <3>1 DEF Tasks
  <2> HIDE DEF row
  <2>3. row \in [Cycles -> Tasks]
    BY <2>2 DEF row
  <2> QED
    BY <1>1, <2>1, <2>2, <2>3 DEF Typed, RepairTypeOK, TasksOK
<1> QED
  BY <1>2, <1>3

-----------------------------------------------------------------------------
\* Every action keeps the types: the loop.

LEMMA BeginTyped ==
  ASSUME Typed, NEW r \in Runs, NEW p \in Protocols, Begin(r, p)
  PROVE  Typed'
<1>1. st[r] \in States /\ RowOK(st[r])
  BY DEF Typed, RepairTypeOK, RowsOK
<1> DEFINE s == [st[r] EXCEPT !.protocol = p, !.result = None]
<1>2. s \in States /\ RowOK(s)
  BY <1>1 DEF States, RowOK
<1>3. st' = [st EXCEPT ![r] = s]
  BY <1>1 DEF Begin, Typed, RepairTypeOK
<1>4. st' \in [Runs -> States] /\ RowsOK'
  BY <1>2, <1>3 DEF Begin, Typed, RepairTypeOK, RowsOK
<1>5. count' \in [loops : 0 .. MaxLoops, spawns : 0 .. MaxSpawns, shas : Shas, faults : 0 .. MaxFaults]
      /\ count.loops + 1 \in 0 .. MaxLoops
  BY RepairAssumption DEF Begin, Typed, RepairTypeOK
<1>6. loop' \in Loops /\ loop'.pc = "preflight" /\ loop'.run = r
  BY <1>5 DEF Begin, Loops, NoLoop, NoSha, Pcs
<1>7. LoopOK'
  BY <1>6 DEF LoopOK, me, CycleSteps, JudgingSteps, PublishSteps
<1> QED
  BY <1>4, <1>5, <1>6, <1>7 DEF Begin, Typed, RepairTypeOK, TasksOK

LEMMA PreflightTyped ==
  ASSUME Typed, Preflight
  PROVE  Typed'
<1>1. loop.pc = "preflight" /\ me \in Runs /\ mine \in States /\ loop \in Loops
  BY Mine DEF Preflight, At
<1>2. chain' \in {None} \cup 0 .. SourceFixMax /\ (isV2(mine) => chain' # None)
  BY Bounds, NoneAssumption DEF Preflight, loadOrCreateChain, Typed, RepairTypeOK
<1> DEFINE drift == remote # expectedRemoteSha(mine)
           s     == [mine EXCEPT !.package = IF drift THEN remote ELSE mine.package]
<1>3. CASE drift /\ mine.published # NoSha
  <2>1. finish("needs_attention") /\ stopper' = stopper
    BY <1>3 DEF Preflight, attention
  <2> QED
    BY <1>1, <1>2, <2>1, Finish DEF Preflight, Typed, RepairTypeOK, TasksOK
<1>4. CASE ~ (drift /\ mine.published # NoSha)
  <2>1. s \in States /\ RowOK(s)
    BY <1>1 DEF States, Typed, RepairTypeOK, RowsOK, RowOK, mine
  <2>2. st' = [st EXCEPT ![me] = s] /\ stopper' = stopper
    BY <1>1, <1>4 DEF Preflight, Typed, RepairTypeOK, mine
  <2>3. st' \in [Runs -> States] /\ RowsOK' /\ st'[me] = s
    BY <1>1, <2>1, <2>2, Write
  <2>4. loop' = [loop EXCEPT !.pc = "acquire", !.base = mine.package]
    BY <1>4 DEF Preflight
  <2>5. loop' \in Loops /\ loop'.pc = "acquire" /\ loop'.run = me
    BY <1>1, <2>4 DEF Loops, Pcs, States, me
  <2>6. isV2(mine)' = isV2(mine)
    BY <1>1, <2>3, <2>5 DEF isV2, mine, me, States
  <2>7. LoopOK'
    BY <1>1, <1>2, <2>5, <2>6 DEF LoopOK, me, CycleSteps, JudgingSteps, PublishSteps
  <2> QED
    BY <1>2, <2>3, <2>5, <2>7 DEF Preflight, Typed, RepairTypeOK, TasksOK
<1> QED
  BY <1>3, <1>4

LEMMA acquireWriterLeaseTyped ==
  ASSUME Typed, acquireWriterLease
  PROVE  Typed'
<1>1. loop.pc = "acquire" /\ me \in Runs /\ loop \in Loops /\ (isV2(mine) => chain # None)
  BY Mine DEF acquireWriterLease, At, Typed, LoopOK
<1>2. count' \in [loops : 0 .. MaxLoops, spawns : 0 .. MaxSpawns, shas : Shas, faults : 0 .. MaxFaults]
  BY RepairAssumption DEF acquireWriterLease, fault, Typed, RepairTypeOK
<1>3. lease' \in Leases
  <2>1. lease \in Leases /\ NoLease \in Leases /\ loop.pid \in 0 .. MaxLoops
    BY <1>1, Bounds DEF NoLease, Leases, Loops, Typed, RepairTypeOK
  <2>2. [state |-> "held", holder |-> me, pid |-> loop.pid, writers |-> {}] \in Leases
    BY <1>1, <2>1 DEF Leases
  <2>3. [NoLease EXCEPT !.state = "empty"] \in Leases
    BY <2>1 DEF Leases
  <2>4. [lease EXCEPT !.holder = me, !.pid = loop.pid,
                      !.writers = IF lease.holder = me THEN @ ELSE {}] \in Leases
    BY <1>1, <2>1 DEF Leases
  <2> QED
    BY <2>1, <2>2, <2>3, <2>4 DEF acquireWriterLease
<1>4. CASE Goto("top")
  <2>1. loop' \in Loops /\ loop'.pc = "top" /\ loop'.run = me
    BY <1>1, <1>4 DEF Goto, Loops, Pcs, me
  <2>2. LoopOK'
    BY <1>1, <2>1 DEF acquireWriterLease, LoopOK, me, mine, isV2, CycleSteps, JudgingSteps, PublishSteps
  <2> QED
    BY <1>2, <1>3, <2>1, <2>2 DEF acquireWriterLease, Typed, RepairTypeOK, RowsOK, TasksOK
<1>5. CASE loop' = NoLoop
  BY <1>2, <1>3, <1>5, Gone DEF acquireWriterLease, Typed, RepairTypeOK, RowsOK, TasksOK
<1> QED
  BY <1>4, <1>5 DEF acquireWriterLease

LEMMA NextCycleTyped ==
  ASSUME Typed, NextCycle
  PROVE  Typed'
<1>1. loop.pc = "top" /\ me \in Runs /\ loop \in Loops /\ mine \in States /\ (isV2(mine) => chain # None)
  BY Mine DEF NextCycle, At, Typed, LoopOK
<1>2. CASE attention /\ UNCHANGED chain
  BY <1>1, <1>2, Finish DEF NextCycle, attention, Typed, RepairTypeOK, TasksOK
<1>3. CASE /\ resumeSlot(mine) /\ UNCHANGED <<chain, st>>
           /\ Goto(IF mine.phase \in {"reviewed", "published"} THEN "candidate"
                   ELSE IF mine.task THEN "spawn" ELSE "start")
  <2>1. loop' \in Loops /\ loop'.pc \in {"candidate", "spawn", "start"} /\ loop'.run = me
    BY <1>1, <1>3 DEF Goto, Loops, Pcs, me
  <2>2. mine.outerUsed # 0
    BY <1>1, <1>3 DEF resumeSlot, Typed, RowsOK, RowOK, mine
  <2>3. LoopOK'
    BY <1>1, <1>3, <2>1, <2>2 DEF LoopOK, me, mine, cycleN, isV2, CycleSteps, JudgingSteps, PublishSteps
  <2> QED
    BY <1>3, <2>1, <2>3 DEF NextCycle, Typed, RepairTypeOK, RowsOK, TasksOK
<1>4. CASE /\ cycleN < OuterMax /\ (isV2(mine) => canOpenSourceFix)
           /\ chain' = IF isV2(mine) THEN chain + 1 ELSE chain
           /\ Goto("reserve") /\ UNCHANGED st
  <2>1. loop' \in Loops /\ loop'.pc = "reserve" /\ loop'.run = me
    BY <1>1, <1>4 DEF Goto, Loops, Pcs, me
  <2>2. chain' \in {None} \cup 0 .. SourceFixMax /\ (isV2(mine) => chain' # None)
    BY <1>1, <1>4, Bounds, NoneAssumption DEF canOpenSourceFix, Typed, RepairTypeOK
  <2>3. LoopOK'
    BY <1>1, <1>4, <2>1, <2>2 DEF LoopOK, me, mine, cycleN, isV2, CycleSteps, JudgingSteps, PublishSteps
  <2> QED
    BY <1>4, <2>1, <2>2, <2>3 DEF NextCycle, Typed, RepairTypeOK, RowsOK, TasksOK
<1> QED
  BY <1>2, <1>3, <1>4 DEF NextCycle

LEMMA ReserveTyped ==
  ASSUME Typed, Reserve
  PROVE  Typed'
<1>1. /\ loop.pc = "reserve" /\ me \in Runs /\ loop \in Loops /\ mine \in States
      /\ cycleN \in 0 .. OuterMax /\ cycleN < OuterMax /\ (isV2(mine) => chain # None)
  BY Mine DEF Reserve, At, Typed, LoopOK
<1> DEFINE s == [mine EXCEPT !.outerUsed = cycleN + 1, !.phase = "reserved", !.task = FALSE,
                             !.review = None]
<1>2. s \in States /\ RowOK(s)
  <2>1. cycleN + 1 \in 0 .. OuterMax /\ cycleN + 1 # 0
    BY <1>1, Bounds
  <2> QED
    BY <1>1, <2>1 DEF States, RowOK
<1>3. st' = [st EXCEPT ![me] = s] /\ stopper' = stopper
  BY <1>1 DEF Reserve, Typed, RepairTypeOK, mine
<1>4. st' \in [Runs -> States] /\ RowsOK' /\ st'[me] = s
  BY <1>1, <1>2, <1>3, Write
<1>5. [state |-> "intent", pids |-> {}] \in Executions
  BY DEF Executions
<1>6. executions' \in [Runs -> [Cycles -> Executions]]
  BY <1>1, <1>5 DEF Reserve, Typed, RepairTypeOK
<1>7. loop' \in Loops /\ loop'.pc = "start" /\ loop'.run = me
  BY <1>1 DEF Reserve, Goto, Loops, Pcs, me
<1>8. s.outerUsed = cycleN + 1 /\ s.protocol = mine.protocol
  BY <1>1 DEF States
<1>9. LoopOK'
  BY <1>1, <1>4, <1>7, <1>8 DEF Reserve, LoopOK, me, mine, cycleN, isV2, CycleSteps, JudgingSteps, PublishSteps
<1> QED
  BY <1>4, <1>6, <1>7, <1>9 DEF Reserve, Typed, RepairTypeOK, TasksOK

LEMMA StartTaskTyped ==
  ASSUME Typed, StartTask
  PROVE  Typed'
<1>1. /\ loop.pc = "start" /\ me \in Runs /\ loop \in Loops /\ mine \in States
      /\ (isV2(mine) => chain # None)
  BY Mine DEF StartTask, At, Typed, LoopOK
<1>2. cycleN \in Cycles /\ cycleN # 0 /\ mine.outerUsed = cycleN
  BY <1>1, MyTask, Bounds DEF CycleSteps, Pcs, Cycles, cycleN
<1>3. live' \subseteq Pids
  BY DEF StartTask, Typed, RepairTypeOK
<1>4. CASE attention /\ UNCHANGED tasks
  BY <1>1, <1>3, <1>4, Finish DEF StartTask, attention, Typed, RepairTypeOK, TasksOK
<1>5. CASE /\ tasks' = [tasks EXCEPT ![me][cycleN] = NoTask]
           /\ st' = [st EXCEPT ![me].phase = "active", ![me].task = TRUE] /\ Goto("spawn")
  <2> DEFINE s == [mine EXCEPT !.phase = "active", !.task = TRUE]
  <2>1. s \in States /\ RowOK(s) /\ s.outerUsed = cycleN /\ s.protocol = mine.protocol
    BY <1>1, <1>2 DEF States, RowOK
  <2>2. st' = [st EXCEPT ![me] = s] /\ stopper' = stopper
    BY <1>1, <1>5 DEF StartTask, Typed, RepairTypeOK, mine
  <2>3. st' \in [Runs -> States] /\ RowsOK' /\ st'[me] = s
    BY <1>1, <2>1, <2>2, Write
  <2>4. NoTask \in Tasks /\ NoTask.status # "ready"
    BY DEF NoTask, Tasks, NoSha
  <2>5. tasks' \in [Runs -> [Cycles -> Tasks]] /\ TasksOK'
    BY <1>1, <1>2, <1>5, <2>4 DEF Typed, RepairTypeOK, TasksOK
  <2>6. loop' \in Loops /\ loop'.pc = "spawn" /\ loop'.run = me
    BY <1>1, <1>5 DEF Goto, Loops, Pcs, me
  <2>7. LoopOK'
    BY <1>1, <1>2, <2>1, <2>3, <2>6
       DEF StartTask, LoopOK, me, mine, cycleN, isV2, CycleSteps, JudgingSteps, PublishSteps
  <2> QED
    BY <1>3, <2>3, <2>5, <2>6, <2>7 DEF StartTask, Typed, RepairTypeOK
<1> QED
  BY <1>4, <1>5 DEF StartTask

LEMMA spawnForTaskTyped ==
  ASSUME Typed, spawnForTask
  PROVE  Typed'
<1>1. /\ loop.pc = "spawn" /\ me \in Runs /\ loop \in Loops /\ mine \in States
      /\ (isV2(mine) => chain # None)
  BY Mine DEF spawnForTask, At, Typed, LoopOK
<1>2. cycleN \in Cycles /\ cycleN # 0 /\ task \in Tasks
  BY <1>1, MyTask, Bounds DEF CycleSteps, Pcs, Cycles
<1>3. CASE attention /\ UNCHANGED <<tasks, live, count>>
  BY <1>1, <1>3, Finish DEF spawnForTask, attention, Typed, RepairTypeOK, TasksOK
<1>4. CASE /\ mayLaunch /\ count.spawns < MaxSpawns
           /\ count' = [count EXCEPT !.spawns = @ + 1]
           /\ live' = live \cup {count'.spawns}
           /\ tasks' = [tasks EXCEPT ![me][cycleN] = spawnChild(@, count'.spawns)]
           /\ Goto("session") /\ UNCHANGED st
  <2>1. count.spawns + 1 \in 1 .. MaxSpawns /\ count.spawns + 1 \in 0 .. MaxSpawns
    BY <1>4, Bounds DEF Typed, RepairTypeOK
  <2>2. /\ count' \in [loops : 0 .. MaxLoops, spawns : 0 .. MaxSpawns, shas : Shas, faults : 0 .. MaxFaults]
        /\ count'.spawns \in Pids
    BY <1>4, <2>1 DEF Typed, RepairTypeOK, Pids
  <2>3. live' \subseteq Pids
    BY <1>4, <2>2 DEF Typed, RepairTypeOK
  <2>4. /\ spawnChild(task, count'.spawns) \in Tasks
        /\ spawnChild(task, count'.spawns).status = "ready" =>
             task.status = "ready" /\ spawnChild(task, count'.spawns).sha = task.sha
    BY <1>2, <2>2 DEF spawnChild, Tasks
  <2>5. tasks' = [tasks EXCEPT ![me] = [tasks[me] EXCEPT ![cycleN] = spawnChild(task, count'.spawns)]]
    BY <1>1, <1>2, <1>4 DEF task, Typed, RepairTypeOK
  <2>6. tasks' \in [Runs -> [Cycles -> Tasks]] /\ TasksOK'
    BY <1>1, <1>2, <2>4, <2>5 DEF task, Typed, RepairTypeOK, TasksOK
  <2>7. loop' \in Loops /\ loop'.pc = "session" /\ loop'.run = me
    BY <1>1, <1>4 DEF Goto, Loops, Pcs, me
  <2>8. LoopOK'
    BY <1>1, <1>2, <1>4, <2>7
       DEF spawnForTask, LoopOK, me, mine, cycleN, isV2, CycleSteps, JudgingSteps, PublishSteps
  <2> QED
    BY <1>4, <2>2, <2>3, <2>6, <2>7, <2>8 DEF spawnForTask, Typed, RepairTypeOK, RowsOK, RowOK
<1> QED
  BY <1>3, <1>4 DEF spawnForTask

LEMMA SessionTyped ==
  ASSUME Typed, Session
  PROVE  Typed'
<1>1. /\ loop.pc = "session" /\ me \in Runs /\ loop \in Loops /\ mine \in States
      /\ (isV2(mine) => chain # None) /\ cycleN # 0
  BY Mine DEF Session, At, Typed, LoopOK, CycleSteps, Pcs
<1>2. CASE abortSpawn
  <2>1. live' \subseteq Pids /\ finish("needs_attention")
    BY <1>2 DEF abortSpawn, attention, Typed, RepairTypeOK
  <2> QED
    BY <1>1, <2>1, Finish DEF Session, Typed, RepairTypeOK, TasksOK
<1>3. CASE Goto("settle") /\ UNCHANGED <<live, st>>
  <2>1. loop' \in Loops /\ loop'.pc = "settle" /\ loop'.run = me
    BY <1>1, <1>3 DEF Goto, Loops, Pcs, me
  <2>2. LoopOK'
    BY <1>1, <1>3, <2>1
       DEF Session, LoopOK, me, mine, cycleN, isV2, CycleSteps, JudgingSteps, PublishSteps
  <2> QED
    BY <1>3, <2>1, <2>2 DEF Session, Typed, RepairTypeOK, RowsOK, TasksOK
<1> QED
  BY <1>2, <1>3 DEF Session

LEMMA settleLaunchedWriterTyped ==
  ASSUME Typed, settleLaunchedWriter
  PROVE  Typed'
<1>1. /\ loop.pc = "settle" /\ me \in Runs /\ loop \in Loops /\ mine \in States
      /\ (isV2(mine) => chain # None) /\ cycleN # 0
  BY Mine DEF settleLaunchedWriter, At, Typed, LoopOK, CycleSteps, Pcs
<1>2. cycleN \in Cycles
  BY <1>1, MyTask DEF CycleSteps, Pcs
<1> DEFINE reported == {task.pid} \cap live
<1>3. reported \subseteq Pids
  BY DEF Typed, RepairTypeOK
<1>4. CASE /\ attention /\ UNCHANGED executions
           /\ stop(me, {cycleN}) \/ stopThrew(me, {cycleN})
  <2>1. live' \subseteq Pids /\ tasks' \in [Runs -> [Cycles -> Tasks]] /\ TasksOK'
    BY <1>1, <1>2, <1>4, Stopped
  <2> QED
    BY <1>1, <1>4, <2>1, Finish DEF settleLaunchedWriter, attention, Typed, RepairTypeOK
<1>5. CASE loop' = NoLoop /\ UNCHANGED <<st, executions, tasks, live>>
  BY <1>5, Gone DEF settleLaunchedWriter, Typed, RepairTypeOK, RowsOK, TasksOK
<1>6. CASE /\ executions' = IF isV2(mine)
                THEN [executions EXCEPT ![me][cycleN] = [state |-> "started", pids |-> reported]]
                ELSE executions
           /\ loop' = [loop EXCEPT !.pc = "record", !.pids = reported]
           /\ UNCHANGED <<st, tasks, live>>
  <2>1. [state |-> "started", pids |-> reported] \in Executions
    BY <1>3 DEF Executions
  <2>2. executions' \in [Runs -> [Cycles -> Executions]]
    BY <1>1, <1>6, <2>1 DEF Typed, RepairTypeOK
  <2>3. loop' \in Loops /\ loop'.pc = "record" /\ loop'.run = me
    BY <1>1, <1>3, <1>6 DEF Loops, Pcs, me
  <2>4. LoopOK'
    BY <1>1, <1>6, <2>3
       DEF settleLaunchedWriter, LoopOK, me, mine, cycleN, isV2, CycleSteps, JudgingSteps, PublishSteps
  <2> QED
    BY <1>6, <2>2, <2>3, <2>4 DEF settleLaunchedWriter, Typed, RepairTypeOK, RowsOK, TasksOK
<1> QED
  BY <1>4, <1>5, <1>6 DEF settleLaunchedWriter

LEMMA updateWriterPidsTyped ==
  ASSUME Typed, updateWriterPids
  PROVE  Typed'
<1>1. /\ loop.pc = "record" /\ me \in Runs /\ loop \in Loops /\ mine \in States
      /\ (isV2(mine) => chain # None) /\ cycleN # 0
  BY Mine DEF updateWriterPids, At, Typed, LoopOK, CycleSteps, Pcs
<1> DEFINE s == [mine EXCEPT !.writers = loop.pids]
<1>2. s \in States /\ RowOK(s) /\ s.outerUsed = cycleN /\ s.protocol = mine.protocol
  BY <1>1 DEF States, Loops, RowOK, cycleN
<1>3. st' = [st EXCEPT ![me] = s] /\ stopper' = stopper
  BY <1>1 DEF updateWriterPids, Typed, RepairTypeOK, mine
<1>4. st' \in [Runs -> States] /\ RowsOK' /\ st'[me] = s
  BY <1>1, <1>2, <1>3, Write
<1>5. lease' \in Leases
  BY <1>1 DEF updateWriterPids, Leases, Loops, Typed, RepairTypeOK
<1>6. loop' \in Loops /\ loop'.pc = "wait" /\ loop'.run = me
  BY <1>1 DEF updateWriterPids, Loops, Pcs, me
<1>7. LoopOK'
  BY <1>1, <1>2, <1>4, <1>6
     DEF updateWriterPids, LoopOK, me, mine, cycleN, isV2, CycleSteps, JudgingSteps, PublishSteps
<1> QED
  BY <1>4, <1>5, <1>6, <1>7 DEF updateWriterPids, Typed, RepairTypeOK, TasksOK

LEMMA waitForCandidateTyped ==
  ASSUME Typed, waitForCandidate
  PROVE  Typed'
<1>1. /\ loop.pc = "wait" /\ me \in Runs /\ loop \in Loops /\ mine \in States
      /\ (isV2(mine) => chain # None) /\ cycleN # 0
  BY Mine DEF waitForCandidate, At, Typed, LoopOK, CycleSteps, Pcs
<1>2. cycleN \in Cycles /\ task \in Tasks
  BY <1>1, MyTask DEF CycleSteps, Pcs
<1>3. CASE /\ UNCHANGED <<st, tasks, live>>
           /\ loop' = IF isV2(mine) THEN [loop EXCEPT !.pc = "candidate"]
                      ELSE [loop EXCEPT !.pc = "publish", !.target = task.sha]
  <2>1. /\ loop' \in Loops /\ loop'.run = me
        /\ loop'.pc = IF isV2(mine) THEN "candidate" ELSE "publish"
    BY <1>1, <1>2, <1>3 DEF Loops, Tasks, Pcs, me
  <2>2. LoopOK'
    BY <1>1, <1>3, <2>1
       DEF waitForCandidate, LoopOK, me, mine, cycleN, isV2, CycleSteps, JudgingSteps, PublishSteps
  <2> QED
    BY <1>3, <2>1, <2>2 DEF waitForCandidate, Typed, RepairTypeOK, RowsOK, TasksOK
<1>4. CASE finish("stopped") /\ UNCHANGED <<tasks, live>>
  BY <1>1, <1>4, Finish DEF waitForCandidate, Typed, RepairTypeOK, TasksOK
<1>5. CASE attention /\ UNCHANGED <<tasks, live>>
  BY <1>1, <1>5, Finish DEF waitForCandidate, attention, Typed, RepairTypeOK, TasksOK
<1>6. CASE attention /\ (stop(me, {cycleN}) \/ stopThrew(me, {cycleN}))
  <2>1. live' \subseteq Pids /\ tasks' \in [Runs -> [Cycles -> Tasks]] /\ TasksOK'
    BY <1>1, <1>2, <1>6, Stopped
  <2> QED
    BY <1>1, <1>6, <2>1, Finish DEF waitForCandidate, attention, Typed, RepairTypeOK
<1> QED
  BY <1>3, <1>4, <1>5, <1>6 DEF waitForCandidate

LEMMA CandidateTyped ==
  ASSUME Typed, Candidate
  PROVE  Typed'
<1>1. /\ me \in Runs /\ loop \in Loops /\ mine \in States /\ loop.pc # "done"
      /\ (isV2(mine) => chain # None) /\ cycleN # 0
      /\ loop.pc = "candidate"
  BY Mine DEF Candidate, At, Typed, LoopOK, CycleSteps, JudgingSteps, Pcs
<1>2. cycleN \in Cycles /\ task \in Tasks
  BY <1>1, MyTask DEF CycleSteps, Pcs
<1> DEFINE journal == journalSha(task)
           own     == orElse(journal, orElse(mine.candidate, mine.published))
           sha     == IF isV2(mine) THEN own ELSE orElse(own, loop.base)
           s       == [mine EXCEPT !.candidate = orElse(journal, mine.candidate)]
<1>3. CASE sha = NoSha
  BY <1>1, <1>3, Finish DEF Candidate, attention, Typed, RepairTypeOK, TasksOK
<1>4. CASE sha # NoSha
  <2>1. journal \in {NoSha} \cup Shas
    BY <1>2 DEF journalSha, Tasks
  <2>2. sha \in {NoSha} \cup Shas /\ orElse(journal, mine.candidate) \in {NoSha} \cup Shas
    BY <1>1, <2>1 DEF orElse, States, Loops
  <2> HIDE DEF journal, own, sha
  <2>3. s \in States /\ RowOK(s) /\ s.outerUsed = cycleN /\ s.protocol = mine.protocol
    BY <1>1, <2>2 DEF States, RowOK, cycleN
  <2>4. st' = [st EXCEPT ![me] = s] /\ stopper' = stopper
    BY <1>1, <1>4 DEF Candidate, Typed, RepairTypeOK, mine, journal, own, sha
  <2>5. st' \in [Runs -> States] /\ RowsOK' /\ st'[me] = s
    BY <1>1, <2>3, <2>4, Write
  <2>6. loop' = [loop EXCEPT !.sha = sha, !.review = mine.review,
                             !.pc = IF mine.review = None THEN "review" ELSE "reviewed"]
    BY <1>4 DEF Candidate, journal, own, sha
  <2>7. mine.review \in Reviews \cup {None}
    BY <1>1 DEF States
  <2>8. /\ loop' \in Loops /\ loop'.run = me /\ loop'.sha = sha /\ loop'.review = mine.review
        /\ loop'.pc = IF mine.review = None THEN "review" ELSE "reviewed"
    BY <1>1, <2>2, <2>6, <2>7, ZenonT(60) DEF Loops, Pcs, me
  <2>9. LoopOK'
    BY <1>1, <1>4, <2>3, <2>5, <2>8, ZenonT(60) DEF Candidate, LoopOK, me, mine, cycleN, isV2, CycleSteps, JudgingSteps, PublishSteps
  <2> QED
    BY <2>5, <2>8, <2>9 DEF Candidate, Typed, RepairTypeOK, TasksOK
<1> QED
  BY <1>3, <1>4

LEMMA ReviewTyped ==
  ASSUME Typed, Review
  PROVE  Typed'
<1>1. /\ me \in Runs /\ loop \in Loops /\ mine \in States /\ loop.pc # "done"
      /\ (isV2(mine) => chain # None) /\ cycleN # 0
      /\ loop.sha # NoSha
  BY Mine DEF Review, At, Typed, LoopOK, CycleSteps, JudgingSteps, Pcs
<1>2. CASE attention
  BY <1>1, <1>2, Finish DEF Review, attention, Typed, RepairTypeOK, TasksOK
<1>3. ASSUME NEW verdict \in {"clean", "open"}, UNCHANGED st,
             loop' = [loop EXCEPT !.pc = "reviewed",
                        !.review = [sha |-> IF isV2(mine) THEN loop.sha ELSE remote,
                                    verdict |-> verdict]]
      PROVE  Typed'
  <2> DEFINE review == [sha |-> IF isV2(mine) THEN loop.sha ELSE remote, verdict |-> verdict]
  <2>1. review \in Reviews
    BY <1>1 DEF Reviews, Loops, Typed, RepairTypeOK
  <2>2. review # None
    BY <2>1, NoneAssumption
  <2> HIDE DEF review
  <2>3. loop' \in Loops /\ loop'.run = me /\ loop'.pc = "reviewed" /\ loop'.review = review
    BY <1>1, <1>3, <2>1 DEF Loops, Pcs, me, review
  <2>4. LoopOK'
    BY <1>1, <1>3, <2>2, <2>3 DEF Review, LoopOK, me, mine, cycleN, isV2, CycleSteps, JudgingSteps, PublishSteps
  <2> QED
    BY <1>3, <2>3, <2>4 DEF Review, Typed, RepairTypeOK, RowsOK, TasksOK
<1> QED
  BY <1>2, <1>3 DEF Review

LEMMA ReviewedTyped ==
  ASSUME Typed, Reviewed
  PROVE  Typed'
<1>1. /\ me \in Runs /\ loop \in Loops /\ mine \in States /\ loop.pc # "done"
      /\ (isV2(mine) => chain # None) /\ cycleN # 0
      /\ loop.review # None
  BY Mine DEF Reviewed, At, Typed, LoopOK, CycleSteps, JudgingSteps, Pcs
<1> DEFINE s == [mine EXCEPT !.review = loop.review, !.phase = "reviewed"]
<1>2. s \in States /\ RowOK(s) /\ s.outerUsed = cycleN /\ s.protocol = mine.protocol
  BY <1>1 DEF States, Loops, RowOK, cycleN
<1>3. st' = [st EXCEPT ![me] = s] /\ stopper' = stopper
  BY <1>1 DEF Reviewed, Typed, RepairTypeOK, mine
<1>4. st' \in [Runs -> States] /\ RowsOK' /\ st'[me] = s
  BY <1>1, <1>2, <1>3, Write
<1>5. loop' \in Loops /\ loop'.run = me /\ loop'.pc = "inspect" /\ loop'.review = loop.review
  BY <1>1 DEF Reviewed, Goto, Loops, Pcs, me
<1>6. LoopOK'
  BY <1>1, <1>2, <1>4, <1>5 DEF Reviewed, LoopOK, me, mine, cycleN, isV2, CycleSteps, JudgingSteps, PublishSteps
<1> QED
  BY <1>4, <1>5, <1>6 DEF Reviewed, Typed, RepairTypeOK, TasksOK

LEMMA InspectTyped ==
  ASSUME Typed, Inspect
  PROVE  Typed'
<1>1. /\ me \in Runs /\ loop \in Loops /\ mine \in States /\ loop.pc # "done"
      /\ (isV2(mine) => chain # None) /\ cycleN # 0
      /\ loop.pc = "inspect" /\ loop.review # None
  BY Mine DEF Inspect, At, Typed, LoopOK, CycleSteps, JudgingSteps, Pcs
<1>2. task \in Tasks
  BY <1>1, MyTask DEF CycleSteps, Pcs
<1>3. journalSha(task) \in {NoSha} \cup Shas
  BY <1>2 DEF journalSha, Tasks
<1>4. /\ loop' \in Loops /\ loop'.run = me /\ loop'.pc \in {"gate", "final"}
      /\ loop'.review = loop.review
  BY <1>1, <1>3 DEF Inspect, Loops, Pcs, me, Typed, RepairTypeOK
<1>5. LoopOK'
  BY <1>1, <1>4 DEF Inspect, LoopOK, me, mine, cycleN, isV2, CycleSteps, JudgingSteps, PublishSteps
<1> QED
  BY <1>4, <1>5 DEF Inspect, Typed, RepairTypeOK, RowsOK, TasksOK

LEMMA LocalGateTyped ==
  ASSUME Typed, LocalGate
  PROVE  Typed'
<1>1. /\ me \in Runs /\ loop \in Loops /\ mine \in States /\ loop.pc # "done"
      /\ (isV2(mine) => chain # None) /\ cycleN # 0
      /\ loop.review # None
  BY Mine DEF LocalGate, At, Typed, LoopOK, CycleSteps, JudgingSteps, Pcs
<1>2. gate(candidateMatches(loop), loop.review) \in {"failed", "open", "passed"}
  BY DEF gate
<1>3. /\ loop' \in Loops /\ loop'.run = me /\ loop'.pc \in {"publish", "verdict"}
      /\ loop'.review = loop.review
  BY <1>1, <1>2, ZenonT(60) DEF LocalGate, Loops, Pcs, me
<1>4. LoopOK'
  BY <1>1, <1>3 DEF LocalGate, LoopOK, me, mine, cycleN, isV2, CycleSteps, JudgingSteps, PublishSteps
<1> QED
  BY <1>3, <1>4 DEF LocalGate, Typed, RepairTypeOK, RowsOK, TasksOK

LEMMA publishIntentTyped ==
  ASSUME Typed, publishIntent
  PROVE  Typed'
<1>1. /\ me \in Runs /\ loop \in Loops /\ mine \in States /\ loop.pc # "done"
      /\ (isV2(mine) => chain # None) /\ cycleN # 0
      /\ loop.pc = "publish" /\ (isV2(mine) => loop.review # None)
  BY Mine DEF publishIntent, At, Typed, LoopOK, CycleSteps, JudgingSteps, PublishSteps, Pcs
<1>2. ASSUME NEW pc \in {"candidate", "receipt"}, Goto(pc), UNCHANGED st
      PROVE  Typed'
  <2>1. loop' \in Loops /\ loop'.run = me /\ loop'.pc = pc /\ loop'.review = loop.review
    BY <1>1, <1>2 DEF Goto, Loops, Pcs, me
  <2>2. LoopOK'
    BY <1>1, <1>2, <2>1 DEF publishIntent, LoopOK, me, mine, cycleN, isV2, CycleSteps, JudgingSteps, PublishSteps
  <2> QED
    BY <1>2, <2>1, <2>2 DEF publishIntent, Typed, RepairTypeOK, RowsOK, TasksOK
<1>3. CASE /\ Goto("push")
           /\ st' = [st EXCEPT ![me].ladder = "intent", ![me].candidate = loop.target]
  <2> DEFINE s == [mine EXCEPT !.ladder = "intent", !.candidate = loop.target]
  <2>1. s \in States /\ RowOK(s) /\ s.outerUsed = cycleN /\ s.protocol = mine.protocol
    BY <1>1 DEF States, Loops, RowOK, cycleN
  <2>2. st' = [st EXCEPT ![me] = s] /\ stopper' = stopper
    BY <1>1, <1>3 DEF publishIntent, Typed, RepairTypeOK, mine
  <2>3. st' \in [Runs -> States] /\ RowsOK' /\ st'[me] = s
    BY <1>1, <2>1, <2>2, Write
  <2>4. loop' \in Loops /\ loop'.run = me /\ loop'.pc = "push" /\ loop'.review = loop.review
    BY <1>1, <1>3 DEF Goto, Loops, Pcs, me
  <2>5. LoopOK'
    BY <1>1, <2>1, <2>3, <2>4 DEF publishIntent, LoopOK, me, mine, cycleN, isV2, CycleSteps, JudgingSteps, PublishSteps
  <2> QED
    BY <2>3, <2>4, <2>5 DEF publishIntent, Typed, RepairTypeOK, TasksOK
<1> QED
  BY <1>2, <1>3 DEF publishIntent

LEMMA requestPublishTyped ==
  ASSUME Typed, requestPublish
  PROVE  Typed'
<1>1. /\ me \in Runs /\ loop \in Loops /\ mine \in States /\ loop.pc # "done"
      /\ (isV2(mine) => chain # None) /\ cycleN # 0
      /\ loop.pc = "push" /\ (isV2(mine) => loop.review # None)
  BY Mine DEF requestPublish, At, Typed, LoopOK, CycleSteps, JudgingSteps, PublishSteps, Pcs
<1>2. cycleN \in Cycles /\ task \in Tasks
  BY <1>1, MyTask DEF CycleSteps, Pcs
<1>3. task.status = "ready" => task.sha # NoSha
  BY <1>1, <1>2 DEF Typed, TasksOK, task
<1>4. remote' \in Shas
  BY <1>1, <1>2, <1>3 DEF requestPublish, status, Loops, Tasks, Typed, RepairTypeOK
<1>5. CASE attention
  BY <1>1, <1>4, <1>5, Finish DEF requestPublish, attention, Typed, RepairTypeOK, TasksOK
<1>6. CASE Goto("pushed") /\ UNCHANGED st
  <2>1. loop' \in Loops /\ loop'.run = me /\ loop'.pc = "pushed" /\ loop'.review = loop.review
    BY <1>1, <1>6 DEF Goto, Loops, Pcs, me
  <2>2. LoopOK'
    BY <1>1, <1>6, <2>1 DEF requestPublish, LoopOK, me, mine, cycleN, isV2, CycleSteps, JudgingSteps, PublishSteps
  <2> QED
    BY <1>4, <1>6, <2>1, <2>2 DEF requestPublish, Typed, RepairTypeOK, RowsOK, TasksOK
<1> QED
  BY <1>5, <1>6 DEF requestPublish

LEMMA ReceiptTyped ==
  ASSUME Typed, Receipt
  PROVE  Typed'
<1>1. /\ me \in Runs /\ loop \in Loops /\ mine \in States /\ loop.pc # "done"
      /\ (isV2(mine) => chain # None) /\ cycleN # 0
      /\ (isV2(mine) => loop.review # None)
  BY Mine DEF Receipt, At, Typed, LoopOK, CycleSteps, JudgingSteps, PublishSteps, Pcs
<1> DEFINE s == [mine EXCEPT !.ladder = "receipt"]
<1>2. s \in States /\ RowOK(s) /\ s.outerUsed = cycleN /\ s.protocol = mine.protocol
  BY <1>1 DEF States, RowOK, cycleN
<1>3. st' = [st EXCEPT ![me] = s] /\ stopper' = stopper
  BY <1>1 DEF Receipt, Typed, RepairTypeOK, mine
<1>4. st' \in [Runs -> States] /\ RowsOK' /\ st'[me] = s
  BY <1>1, <1>2, <1>3, Write
<1>5. loop' \in Loops /\ loop'.run = me /\ loop'.pc = "receipt" /\ loop'.review = loop.review
  BY <1>1 DEF Receipt, Goto, Loops, Pcs, me
<1>6. LoopOK'
  BY <1>1, <1>2, <1>4, <1>5 DEF Receipt, LoopOK, me, mine, cycleN, isV2, CycleSteps, JudgingSteps, PublishSteps
<1> QED
  BY <1>4, <1>5, <1>6 DEF Receipt, Typed, RepairTypeOK, TasksOK

LEMMA recoverPublishReceiptTyped ==
  ASSUME Typed, recoverPublishReceipt
  PROVE  Typed'
<1>1. /\ me \in Runs /\ loop \in Loops /\ mine \in States /\ loop.pc # "done"
      /\ (isV2(mine) => chain # None) /\ cycleN # 0
      /\ (isV2(mine) => loop.review # None)
  BY Mine DEF recoverPublishReceipt, At, Typed, LoopOK, CycleSteps, JudgingSteps, PublishSteps, Pcs
<1>2. CASE attention
  BY <1>1, <1>2, Finish DEF recoverPublishReceipt, attention, Typed, RepairTypeOK, TasksOK
<1>3. CASE loop' = NoLoop /\ UNCHANGED st
  BY <1>3, Gone DEF recoverPublishReceipt, Typed, RepairTypeOK, RowsOK, TasksOK
<1>4. CASE /\ st' = [st EXCEPT ![me].ladder = "published", ![me].published = loop.target,
                               ![me].phase = "published"]
           /\ Goto(IF isV2(mine) THEN "published" ELSE "candidate")
  <2> DEFINE s == [mine EXCEPT !.ladder = "published", !.published = loop.target,
                               !.phase = "published"]
  <2>1. s \in States /\ RowOK(s) /\ s.outerUsed = cycleN /\ s.protocol = mine.protocol
    BY <1>1, ZenonT(60) DEF States, Loops, RowOK, cycleN
  <2>2. st' = [st EXCEPT ![me] = s] /\ stopper' = stopper
    BY <1>1, <1>4 DEF recoverPublishReceipt, Typed, RepairTypeOK, mine
  <2>3. st' \in [Runs -> States] /\ RowsOK' /\ st'[me] = s
    BY <1>1, <2>1, <2>2, Write
  <2>4. /\ loop' \in Loops /\ loop'.run = me /\ loop'.review = loop.review
        /\ loop'.pc = IF isV2(mine) THEN "published" ELSE "candidate"
    BY <1>1, <1>4 DEF Goto, Loops, Pcs, me
  <2>5. LoopOK'
    BY <1>1, <2>1, <2>3, <2>4 DEF recoverPublishReceipt, LoopOK, me, mine, cycleN, isV2, CycleSteps, JudgingSteps, PublishSteps
  <2> QED
    BY <2>3, <2>4, <2>5 DEF recoverPublishReceipt, Typed, RepairTypeOK, TasksOK
<1> QED
  BY <1>2, <1>3, <1>4 DEF recoverPublishReceipt

LEMMA InspectPublishedTyped ==
  ASSUME Typed, InspectPublished
  PROVE  Typed'
<1>1. /\ me \in Runs /\ loop \in Loops /\ mine \in States /\ loop.pc # "done"
      /\ (isV2(mine) => chain # None) /\ cycleN # 0
      /\ loop.review # None
  BY Mine DEF InspectPublished, At, Typed, LoopOK, CycleSteps, JudgingSteps, PublishSteps, Pcs
<1>2. /\ loop' \in Loops /\ loop'.run = me /\ loop'.pc = "final" /\ loop'.review = loop.review
  BY <1>1 DEF InspectPublished, Loops, Pcs, me, Typed, RepairTypeOK
<1>3. LoopOK'
  BY <1>1, <1>2 DEF InspectPublished, LoopOK, me, mine, cycleN, isV2, CycleSteps, JudgingSteps, PublishSteps
<1> QED
  BY <1>2, <1>3 DEF InspectPublished, Typed, RepairTypeOK, RowsOK, TasksOK

LEMMA FinalGateTyped ==
  ASSUME Typed, FinalGate
  PROVE  Typed'
<1>1. /\ me \in Runs /\ loop \in Loops /\ mine \in States /\ loop.pc # "done"
      /\ (isV2(mine) => chain # None) /\ cycleN # 0
      /\ loop.review # None
  BY Mine DEF FinalGate, At, Typed, LoopOK, CycleSteps, JudgingSteps, PublishSteps, Pcs
<1> DEFINE published == IF mine.published = NoSha /\ loop.head = loop.sha THEN loop.sha
                        ELSE mine.published
           s         == [mine EXCEPT !.published = published, !.phase = "gated"]
           verdict   == gate(publishedMatches(loop, published), loop.review)
<1>2. published \in {NoSha} \cup Shas
  BY <1>1 DEF States, Loops
<1>3. verdict \in {"failed", "open", "passed"}
  BY DEF gate
<1> HIDE DEF published, verdict
<1>4. s \in States /\ RowOK(s) /\ s.outerUsed = cycleN /\ s.protocol = mine.protocol
  BY <1>1, <1>2 DEF States, RowOK, cycleN
<1>5. st' = [st EXCEPT ![me] = s] /\ stopper' = stopper
  BY <1>1 DEF FinalGate, Typed, RepairTypeOK, mine, published
<1>6. st' \in [Runs -> States] /\ RowsOK' /\ st'[me] = s
  BY <1>1, <1>4, <1>5, Write
<1>7. loop' = [loop EXCEPT !.pc = "verdict", !.verdict = verdict]
  BY DEF FinalGate, published, verdict
<1>8. loop' \in Loops /\ loop'.run = me /\ loop'.pc = "verdict" /\ loop'.review = loop.review
  BY <1>1, <1>3, <1>7 DEF Loops, Pcs, me
<1>9. LoopOK'
  BY <1>1, <1>4, <1>6, <1>8 DEF FinalGate, LoopOK, me, mine, cycleN, isV2, CycleSteps, JudgingSteps, PublishSteps
<1> QED
  BY <1>6, <1>8, <1>9 DEF FinalGate, Typed, RepairTypeOK, TasksOK

LEMMA VerdictTyped ==
  ASSUME Typed, Verdict
  PROVE  Typed'
<1>1. /\ me \in Runs /\ loop \in Loops /\ mine \in States /\ loop.pc # "done"
      /\ (isV2(mine) => chain # None) /\ cycleN # 0
      /\ loop.review # None
  BY Mine DEF Verdict, At, Typed, LoopOK, CycleSteps, JudgingSteps, PublishSteps, Pcs
<1>2. CASE finish("approved")
  BY <1>1, <1>2, Finish DEF Verdict, Typed, RepairTypeOK, TasksOK
<1>3. CASE attention
  BY <1>1, <1>3, Finish DEF Verdict, attention, Typed, RepairTypeOK, TasksOK
<1>4. CASE /\ Goto("top")
           /\ st' = [st EXCEPT ![me].phase = "closed", ![me].ladder = "none",
                               ![me].package = loop.review.sha]
  <2> DEFINE s == [mine EXCEPT !.phase = "closed", !.ladder = "none", !.package = loop.review.sha]
  <2>1. loop.review.sha \in Shas
    BY <1>1 DEF Loops, Reviews
  <2>2. s \in States /\ RowOK(s) /\ s.outerUsed = cycleN /\ s.protocol = mine.protocol
    BY <1>1, <2>1 DEF States, RowOK, cycleN
  <2>3. st' = [st EXCEPT ![me] = s] /\ stopper' = stopper
    BY <1>1, <1>4 DEF Verdict, Typed, RepairTypeOK, mine
  <2>4. st' \in [Runs -> States] /\ RowsOK' /\ st'[me] = s
    BY <1>1, <2>2, <2>3, Write
  <2>5. loop' \in Loops /\ loop'.run = me /\ loop'.pc = "top"
    BY <1>1, <1>4 DEF Goto, Loops, Pcs, me
  <2>6. LoopOK'
    BY <1>1, <2>2, <2>4, <2>5, ZenonT(60) DEF Verdict, LoopOK, me, mine, cycleN, isV2, CycleSteps, JudgingSteps, PublishSteps
  <2> QED
    BY <2>4, <2>5, <2>6 DEF Verdict, Typed, RepairTypeOK, TasksOK
<1> QED
  BY <1>2, <1>3, <1>4 DEF Verdict

LEMMA GiveUpTyped ==
  ASSUME Typed, GiveUp
  PROVE  Typed'
<1>1. loop.pc # "done" /\ finish("needs_attention") /\ stopper' = stopper
  BY DEF GiveUp, attention
<1> QED
  BY <1>1, Finish DEF GiveUp, Typed, RepairTypeOK, TasksOK

LEMMA ReleaseTyped ==
  ASSUME Typed, Release
  PROVE  Typed'
<1>1. lease' \in Leases
  BY Bounds DEF Release, releaseWriterLease, NoLease, Leases, Typed, RepairTypeOK
<1> QED
  BY <1>1, Gone DEF Release, Typed, RepairTypeOK, RowsOK, TasksOK

LEMMA CrashTyped ==
  ASSUME Typed, Crash
  PROVE  Typed'
<1>1. count' \in [loops : 0 .. MaxLoops, spawns : 0 .. MaxSpawns, shas : Shas, faults : 0 .. MaxFaults]
  BY Bounds DEF Crash, fault, Typed, RepairTypeOK
<1> QED
  BY <1>1, Gone DEF Crash, Typed, RepairTypeOK, RowsOK, TasksOK

-----------------------------------------------------------------------------
\* The stop command, the supervisors, the writers and the world.

\* What leaves the loop, its run and the chain alone leaves LoopOK alone.
LEMMA LoopStays ==
  ASSUME LoopOK, UNCHANGED <<loop, st, chain>>
  PROVE  LoopOK'
BY DEF LoopOK, me, mine, cycleN, isV2

LEMMA StopBeginTyped ==
  ASSUME Typed, NEW r \in Runs, StopBegin(r)
  PROVE  Typed'
<1>1. count' \in [loops : 0 .. MaxLoops, spawns : 0 .. MaxSpawns, shas : Shas, faults : 0 .. MaxFaults]
  BY Bounds DEF StopBegin, fault, Typed, RepairTypeOK
<1>2. st[r] \in States /\ RowOK(st[r])
  BY DEF Typed, RepairTypeOK, RowsOK
<1>3. stopper' \in Stoppers /\ RowOK(stopper'.snapshot) /\ stopper'.run \in Runs
  BY <1>2 DEF StopBegin, Stoppers
<1> QED
  BY <1>1, <1>3, LoopStays DEF StopBegin, Typed, RepairTypeOK, RowsOK, TasksOK

LEMMA StopTasksTyped ==
  ASSUME Typed, StopTasks
  PROVE  Typed'
<1> DEFINE s == stopper.snapshot
           K == {k \in Cycles : k < s.outerUsed \/ (k = s.outerUsed /\ s.task)}
<1>1. stopper \in Stoppers /\ RowOK(s) /\ stopper.run \in Runs /\ K \in SUBSET Cycles
  BY DEF StopTasks, Typed, RepairTypeOK, RowsOK
<1>2. stop(stopper.run, K) \/ stopThrew(stopper.run, K)
  BY DEF StopTasks
<1> HIDE DEF K
<1>3. live' \subseteq Pids /\ tasks' \in [Runs -> [Cycles -> Tasks]] /\ TasksOK'
  BY <1>1, <1>2, Stopped
<1>4. stopper' \in {[stopper EXCEPT !.tasks = FALSE], NoStop}
  BY DEF StopTasks
<1>5. NoStop \in Stoppers /\ RowOK(NoStop.snapshot)
  BY Bounds DEF NoStop, Stoppers, NewState, States, RowOK, NoSha, Source, Shas
<1>6. stopper' \in Stoppers /\ RowOK(stopper'.snapshot) /\ (stopper' # NoStop => stopper'.run \in Runs)
  BY <1>1, <1>4, <1>5 DEF Stoppers
<1> QED
  BY <1>3, <1>6, LoopStays DEF StopTasks, Typed, RepairTypeOK, RowsOK

\* What the stop command does last: to the row of its run, and to the loop.
LEMMA StopEndsWrites ==
  ASSUME Typed, StopEnds
  PROVE  /\ \/ UNCHANGED st
            \/ \E result \in {"stopped", "needs_attention"} :
                 st' = [st EXCEPT ![stopper.run] = [stopper.snapshot EXCEPT !.result = result]]
         /\ \/ loop' = NoLoop
            \/ loop' = loop /\ loop.run # stopper.run
            \/ loop' \in Loops /\ loop'.pc = "release" /\ loop'.run = me /\ me = stopper.run
            \/ UNCHANGED <<st, loop>>
<1>1. stopper.run \in Runs /\ loop \in Loops
  BY DEF StopEnds, Typed, RepairTypeOK, RowsOK
<1>2. CASE loop' = IF loop.run = stopper.run THEN NoLoop ELSE loop
  BY <1>2 DEF StopEnds
<1>3. CASE /\ loop.run = stopper.run
           /\ loop' = [NoLoop EXCEPT !.run = me, !.pid = loop.pid, !.pc = "release"]
  <2>1. loop' \in Loops /\ loop'.pc = "release" /\ loop'.run = me /\ me = stopper.run
    BY <1>1, <1>3 DEF Loops, NoLoop, Pcs, NoSha, me
  <2> QED
    BY <2>1 DEF StopEnds
<1> QED
  BY <1>2, <1>3 DEF StopEnds

LEMMA StopEndsTyped ==
  ASSUME Typed, StopEnds
  PROVE  Typed'
<1>1. stopper \in Stoppers /\ stopper.run \in Runs /\ RowOK(stopper.snapshot)
  BY DEF StopEnds, Typed, RepairTypeOK, RowsOK
<1>2. stopper.snapshot \in States
  BY <1>1 DEF Stoppers
<1>3. st' \in [Runs -> States] /\ (\A r \in Runs : RowOK(st'[r]))
  <2>1. CASE UNCHANGED st
    BY <2>1 DEF Typed, RepairTypeOK, RowsOK
  <2>2. ASSUME NEW result \in {"stopped", "needs_attention"},
               st' = [st EXCEPT ![stopper.run] = [stopper.snapshot EXCEPT !.result = result]]
        PROVE  st' \in [Runs -> States] /\ (\A r \in Runs : RowOK(st'[r]))
    <3> DEFINE s == [stopper.snapshot EXCEPT !.result = result]
    <3>1. s \in States /\ RowOK(s)
      BY <1>1, <1>2 DEF States, RowOK
    <3> HIDE DEF s
    <3>2. st' = [st EXCEPT ![stopper.run] = s]
      BY <2>2 DEF s
    <3> QED
      BY <1>1, <3>1, <3>2 DEF Typed, RepairTypeOK, RowsOK
  <2> QED
    BY <2>1, <2>2, StopEndsWrites
<1>4. \A r \in Runs \ {stopper.run} : st'[r] = st[r]
  BY <1>1, StopEndsWrites DEF Typed, RepairTypeOK
<1>5. stopper' \in Stoppers /\ RowOK(stopper'.snapshot) /\ stopper' = NoStop
  BY Bounds DEF StopEnds, NoStop, Stoppers, NewState, States, RowOK, NoSha, Source, Shas
<1>6. lease' \in Leases
  BY Bounds DEF StopEnds, releaseWriterLease, NoLease, Leases, Typed, RepairTypeOK
<1>7. loop' \in Loops /\ LoopOK'
  <2>1. CASE loop' = NoLoop
    BY <2>1, Gone
  <2>2. CASE loop' = loop /\ loop.run # stopper.run
    <3>1. loop.pc # "done" => st'[me] = mine /\ me' = me
      BY <1>4, <2>2, Mine DEF me, mine
    <3> QED
      BY <2>2, <3>1 DEF StopEnds, LoopOK, me, mine, cycleN, isV2, CycleSteps, JudgingSteps,
                        PublishSteps, Typed, RepairTypeOK
  <2>3. CASE loop' \in Loops /\ loop'.pc = "release" /\ loop'.run = me /\ me = stopper.run
    BY <1>1, <2>3 DEF LoopOK, me, CycleSteps, JudgingSteps, PublishSteps
  <2>4. CASE UNCHANGED <<st, loop>>
    BY <2>4, LoopStays DEF StopEnds, Typed, RepairTypeOK
  <2> QED
    BY <2>1, <2>2, <2>3, <2>4, StopEndsWrites
<1> QED
  BY <1>3, <1>5, <1>6, <1>7 DEF StopEnds, Typed, RepairTypeOK, RowsOK, TasksOK

LEMMA TickTyped ==
  ASSUME Typed, Tick
  PROVE  Typed'
BY LoopStays DEF Tick, Typed, RepairTypeOK, RowsOK, TasksOK

LEMMA SuperviseTyped ==
  ASSUME Typed, NEW r \in Runs, NEW k \in Cycles, Supervise(r, k)
  PROVE  Typed'
<1> DEFINE state == IF certified(executions[r][k].pids) THEN "deadline_enforced" ELSE "unknown_writer"
<1>1. live' \subseteq Pids
  BY DEF Supervise, Typed, RepairTypeOK
<1>2. executions[r][k] \in Executions
  BY DEF Typed, RepairTypeOK
<1>3. [executions[r][k] EXCEPT !.state = state] \in Executions
  BY <1>2 DEF Executions
<1>4. executions' = [executions EXCEPT ![r] = [executions[r] EXCEPT ![k] =
                       [executions[r][k] EXCEPT !.state = state]]]
  BY DEF Supervise, Typed, RepairTypeOK
<1>5. executions' \in [Runs -> [Cycles -> Executions]]
  BY <1>3, <1>4 DEF Typed, RepairTypeOK
<1> QED
  BY <1>1, <1>5, LoopStays DEF Supervise, Typed, RepairTypeOK, RowsOK, TasksOK

LEMMA OfferTyped ==
  ASSUME Typed, NEW r \in Runs, NEW k \in Cycles, Offer(r, k)
  PROVE  Typed'
<1>1. count.shas + 1 \in Shas /\ count.shas + 1 # NoSha
  BY Bounds DEF Offer, Foreign, Shas, NoSha, Typed, RepairTypeOK
<1>2. /\ count' \in [loops : 0 .. MaxLoops, spawns : 0 .. MaxSpawns, shas : Shas, faults : 0 .. MaxFaults]
      /\ count'.shas = count.shas + 1
  BY <1>1 DEF Offer, Typed, RepairTypeOK
<1> DEFINE t == [tasks[r][k] EXCEPT !.status = "ready", !.sha = count'.shas]
<1>3. tasks[r][k] \in Tasks
  BY DEF Typed, RepairTypeOK
<1>4. t \in Tasks /\ t.sha # NoSha
  BY <1>1, <1>2, <1>3 DEF Tasks
<1>5. tasks' = [tasks EXCEPT ![r] = [tasks[r] EXCEPT ![k] = t]]
  BY DEF Offer, Typed, RepairTypeOK
<1> HIDE DEF t
<1>6. tasks' \in [Runs -> [Cycles -> Tasks]] /\ TasksOK'
  BY <1>4, <1>5 DEF Typed, RepairTypeOK, TasksOK
<1> QED
  BY <1>2, <1>6, LoopStays DEF Offer, Typed, RepairTypeOK, RowsOK

LEMMA WriterExitsTyped ==
  ASSUME Typed, NEW p \in live, WriterExits(p)
  PROVE  Typed'
BY LoopStays DEF WriterExits, Typed, RepairTypeOK, RowsOK, TasksOK

LEMMA ForeignPushTyped ==
  ASSUME Typed, ForeignPush
  PROVE  Typed'
<1>1. count' \in [loops : 0 .. MaxLoops, spawns : 0 .. MaxSpawns, shas : Shas, faults : 0 .. MaxFaults]
  BY Bounds DEF ForeignPush, fault, Typed, RepairTypeOK
<1>2. Foreign \in Shas
  BY Bounds DEF Foreign, Shas
<1> QED
  BY <1>1, <1>2, LoopStays DEF ForeignPush, Typed, RepairTypeOK, RowsOK, TasksOK

-----------------------------------------------------------------------------
LEMMA InitTyped ==
  ASSUME Init
  PROVE  Typed
<1>1. NoSha \in {NoSha} \cup Shas /\ Source \in Shas /\ 0 \in 0 .. OuterMax /\ 1 \in Shas
  BY Bounds DEF Source, Shas
<1>2. NewState \in States /\ RowOK(NewState)
  BY <1>1, Bounds DEF NewState, States, RowOK, NoSha
<1>3. NoTask \in Tasks /\ NoTask.status # "ready"
  BY DEF NoTask, Tasks, NoSha
<1>4. [state |-> "absent", pids |-> {}] \in Executions
  BY DEF Executions
<1>5. NoLease \in Leases
  BY Bounds DEF NoLease, Leases
<1>6. NoStop \in Stoppers /\ RowOK(NoStop.snapshot)
  BY <1>2 DEF NoStop, Stoppers
<1>7. NoLoop \in Loops /\ NoLoop.pc = "done"
  BY Bounds DEF NoLoop, Loops, Pcs, NoSha
<1>8. [loops |-> 0, spawns |-> 0, shas |-> 1, faults |-> 0]
        \in [loops : 0 .. MaxLoops, spawns : 0 .. MaxSpawns, shas : Shas, faults : 0 .. MaxFaults]
  BY <1>1, Bounds
<1>9. RepairTypeOK
  BY <1>1, <1>2, <1>3, <1>4, <1>5, <1>6, <1>7, <1>8 DEF Init, RepairTypeOK
<1>10. LoopOK
  BY <1>7 DEF Init, LoopOK, CycleSteps, JudgingSteps, PublishSteps
<1>11. RowsOK /\ TasksOK
  BY <1>2, <1>3, <1>6 DEF Init, RowsOK, TasksOK
<1> QED
  BY <1>9, <1>10, <1>11 DEF Typed

LEMMA LoopTyped ==
  ASSUME Typed, Loop
  PROVE  Typed'
BY PreflightTyped, acquireWriterLeaseTyped, NextCycleTyped, ReserveTyped, StartTaskTyped,
   spawnForTaskTyped, SessionTyped, settleLaunchedWriterTyped, updateWriterPidsTyped,
   waitForCandidateTyped, CandidateTyped, ReviewTyped, ReviewedTyped, InspectTyped, LocalGateTyped,
   publishIntentTyped, requestPublishTyped, ReceiptTyped, recoverPublishReceiptTyped,
   InspectPublishedTyped, FinalGateTyped, VerdictTyped, GiveUpTyped, ReleaseTyped
   DEF Loop

LEMMA NextTyped ==
  ASSUME Typed, [Next]_vars
  PROVE  Typed'
<1>1. CASE Loop
  BY <1>1, LoopTyped
<1>2. CASE Crash \/ StopTasks \/ StopEnds \/ Tick \/ ForeignPush
  BY <1>2, CrashTyped, StopTasksTyped, StopEndsTyped, TickTyped, ForeignPushTyped
<1>3. CASE \E r \in Runs : StopBegin(r) \/ (\E p \in Protocols : Begin(r, p))
  BY <1>3, StopBeginTyped, BeginTyped
<1>4. CASE \E r \in Runs, k \in Cycles : Supervise(r, k) \/ Offer(r, k)
  BY <1>4, SuperviseTyped, OfferTyped
<1>5. CASE \E p \in live : WriterExits(p)
  BY <1>5, WriterExitsTyped
<1>6. CASE UNCHANGED vars
  BY <1>6, LoopStays DEF vars, Typed, RepairTypeOK, RowsOK, TasksOK
<1> QED
  BY <1>1, <1>2, <1>3, <1>4, <1>5, <1>6 DEF Next

\* Every state that the runs, the stop command and the supervisors of a branch reach is well
\* formed, and the loop finds at each step what that step reads (executeRepairLoop).
THEOREM StatesAreTyped == Spec => []Typed
<1>1. Init => Typed
  BY InitTyped
<1>2. Typed /\ [Next]_vars => Typed'
  BY NextTyped
<1> QED
  BY <1>1, <1>2, PTL DEF Spec

\* The type invariant alone.
THEOREM RepairIsTyped == Spec => []RepairTypeOK
<1>1. Typed => RepairTypeOK
  BY DEF Typed
<1> QED
  BY <1>1, StatesAreTyped, PTL


-----------------------------------------------------------------------------
\* The lease.  One that is not held names nobody, so only a holder's writers are at stake.

UnheldIsEmpty == lease.state # "held" => lease.writers = {} /\ lease.holder = None

LEMMA LeaseFrame ==
  ASSUME [Next]_vars
  PROVE  acquireWriterLease \/ updateWriterPids \/ Release \/ StopEnds \/ lease' = lease
BY DEF Next, Loop, vars, Preflight, NextCycle, Reserve, StartTask, spawnForTask, Session,
       settleLaunchedWriter, waitForCandidate, Candidate, Review, Reviewed, Inspect, LocalGate,
       publishIntent, requestPublish, Receipt, recoverPublishReceipt, InspectPublished, FinalGate,
       Verdict, GiveUp, Crash, StopTasks, Tick, ForeignPush, StopBegin, Begin, Supervise, Offer,
       WriterExits

LEMMA UnheldStaysEmpty ==
  ASSUME Typed, UnheldIsEmpty, [Next]_vars
  PROVE  UnheldIsEmpty'
<1>1. CASE lease' = lease
  BY <1>1 DEF UnheldIsEmpty
<1>2. CASE acquireWriterLease
  <2>1. CASE lease' = [state |-> "held", holder |-> me, pid |-> loop.pid, writers |-> {}]
    BY <2>1 DEF UnheldIsEmpty
  <2>2. CASE lease' = [NoLease EXCEPT !.state = "empty"]
    BY <2>2 DEF UnheldIsEmpty, NoLease
  <2>3. CASE /\ lease.state = "held"
             /\ lease' = [lease EXCEPT !.holder = me, !.pid = loop.pid,
                                       !.writers = IF lease.holder = me THEN @ ELSE {}]
    BY <2>3 DEF UnheldIsEmpty, Typed, RepairTypeOK, Leases
  <2> QED
    BY <1>1, <1>2, <2>1, <2>2, <2>3 DEF acquireWriterLease
<1>3. CASE updateWriterPids
  <2>1. me # None
    BY <1>3, Mine, NoneAssumption DEF updateWriterPids, At
  <2>2. lease \in Leases /\ (lease.holder = me => lease.state = "held")
    BY <2>1 DEF UnheldIsEmpty, Typed, RepairTypeOK
  <2>3. CASE lease.holder = me
    BY <1>3, <2>2, <2>3 DEF updateWriterPids, UnheldIsEmpty, Leases
  <2>4. CASE lease.holder # me
    BY <1>3, <2>4 DEF updateWriterPids, UnheldIsEmpty
  <2> QED
    BY <2>3, <2>4
<1>4. CASE Release \/ StopEnds
  BY <1>4 DEF Release, StopEnds, releaseWriterLease, UnheldIsEmpty, NoLease
<1> QED
  BY <1>1, <1>2, <1>3, <1>4, LeaseFrame

LEMMA LeaseStep ==
  ASSUME Typed, UnheldIsEmpty, [Next]_vars
  PROVE  lease.writers \cap live' \subseteq lease'.writers
<1>1. CASE lease' = lease
  BY <1>1
<1>2. CASE acquireWriterLease
  <2>1. live' = live
    BY <1>2 DEF acquireWriterLease
  <2> QED
    BY <1>2, <2>1 DEF acquireWriterLease, mayTake, UnheldIsEmpty, NoLease, Typed, RepairTypeOK, Leases
<1>3. CASE updateWriterPids
  BY <1>3 DEF updateWriterPids, Typed, RepairTypeOK, Leases
<1>4. CASE Release \/ StopEnds
  BY <1>4 DEF Release, StopEnds, releaseWriterLease, NoLease
<1> QED
  BY <1>1, <1>2, <1>3, <1>4, LeaseFrame

\* A lease never lets go of a writer that is alive: for any number of runs, loops and
\* writers (releaseWriterLease, takeExisting, updateWriterPids).
THEOREM WritersStayOnTheLease == Spec => LeaseKeepsLiveWriters
<1>1. Init => UnheldIsEmpty
  BY DEF Init, UnheldIsEmpty, NoLease
<1>2. Typed /\ UnheldIsEmpty /\ [Next]_vars => UnheldIsEmpty'
  BY UnheldStaysEmpty
<1>3. Typed /\ UnheldIsEmpty /\ [Next]_vars =>
        [lease.writers \cap live' \subseteq lease'.writers]_vars
  BY LeaseStep
<1> QED
  BY <1>1, <1>2, <1>3, StatesAreTyped, PTL DEF Spec, LeaseKeepsLiveWriters

-----------------------------------------------------------------------------
\* The deadline records.  A record only lists processes that were spawned, and a new one is
\* none of those.

Spawned == 1 .. count.spawns

OnlySpawned == /\ live \subseteq Spawned
               /\ \A r \in Runs, k \in Cycles : executions[r][k].pids \subseteq Spawned

Certified == OnlySpawned /\ CertifiedExecutionIsDead

\* The actions that neither write a record nor spawn.
LEMMA RecordFrame ==
  ASSUME Typed, [Next]_vars
  PROVE  \/ Reserve \/ spawnForTask \/ settleLaunchedWriter
         \/ \E r \in Runs, k \in Cycles : Supervise(r, k)
         \/ executions' = executions /\ count'.spawns = count.spawns /\ live' \subseteq live
<1>1. count \in [loops : 0 .. MaxLoops, spawns : 0 .. MaxSpawns, shas : Shas, faults : 0 .. MaxFaults]
  BY DEF Typed, RepairTypeOK
<1>2. CASE UNCHANGED vars
  BY <1>2 DEF vars
<1>3. CASE Loop
  BY <1>1, <1>3 DEF Loop, Preflight, acquireWriterLease, NextCycle, StartTask, Session, abortSpawn,
     updateWriterPids, waitForCandidate, stop, stopThrew, Candidate, Review, Reviewed, Inspect,
     LocalGate, publishIntent, requestPublish, Receipt, recoverPublishReceipt, InspectPublished,
     FinalGate, Verdict, GiveUp, Release, fault
<1>4. CASE Crash \/ StopTasks \/ StopEnds \/ Tick \/ ForeignPush
  BY <1>1, <1>4 DEF Crash, StopTasks, stop, stopThrew, StopEnds, Tick, ForeignPush, fault
<1>5. CASE \E r \in Runs : StopBegin(r) \/ (\E p \in Protocols : Begin(r, p))
  BY <1>1, <1>5 DEF StopBegin, Begin, fault
<1>6. CASE \E r \in Runs, k \in Cycles : Offer(r, k)
  BY <1>1, <1>6 DEF Offer
<1>7. CASE \E p \in live : WriterExits(p)
  BY <1>7 DEF WriterExits
<1> QED
  BY <1>2, <1>3, <1>4, <1>5, <1>6, <1>7 DEF Next

\* What every step but those four keeps.
LEMMA CertifiedKept ==
  ASSUME Certified, executions' = executions, count'.spawns = count.spawns, live' \subseteq live
  PROVE  Certified'
BY DEF Certified, OnlySpawned, Spawned, CertifiedExecutionIsDead, isTerminal

LEMMA ReserveCertified ==
  ASSUME Typed, Certified, Reserve
  PROVE  Certified'
<1> DEFINE n == cycleN + 1
           e == [state |-> "intent", pids |-> {}]
<1>1. /\ executions \in [Runs -> [Cycles -> Executions]]
      /\ live' = live /\ count' = count
      /\ executions' = executions \/ executions' = [executions EXCEPT ![me][n] = e]
  BY DEF Reserve, Typed, RepairTypeOK
<1> HIDE DEF n
<1>2. \A r \in Runs, k \in Cycles : executions'[r][k] \in {executions[r][k], e}
  BY <1>1
<1>3. e.pids = {}
  OBVIOUS
<1> HIDE DEF e
<1> QED
  BY <1>1, <1>2, <1>3 DEF Certified, OnlySpawned, Spawned, CertifiedExecutionIsDead, isTerminal

LEMMA spawnForTaskCertified ==
  ASSUME Typed, Certified, spawnForTask
  PROVE  Certified'
<1>1. executions' = executions
  BY DEF spawnForTask
<1>2. CASE UNCHANGED <<live, count>>
  BY <1>1, <1>2, CertifiedKept
<1>3. CASE /\ count' = [count EXCEPT !.spawns = @ + 1]
           /\ live' = live \cup {count'.spawns}
  <2>1. count'.spawns = count.spawns + 1 /\ count.spawns \in Nat
    BY <1>3, Bounds DEF Typed, RepairTypeOK
  <2>2. Spawned \subseteq Spawned' /\ count'.spawns \in Spawned' /\ count'.spawns \notin Spawned
    BY <2>1 DEF Spawned
  <2> QED
    BY <1>1, <1>3, <2>2 DEF Certified, OnlySpawned, CertifiedExecutionIsDead, isTerminal
<1> QED
  BY <1>2, <1>3 DEF spawnForTask

LEMMA settleLaunchedWriterCertified ==
  ASSUME Typed, Certified, settleLaunchedWriter
  PROVE  Certified'
<1> DEFINE reported == {task.pid} \cap live
           e        == [state |-> "started", pids |-> reported]
<1>1. /\ executions \in [Runs -> [Cycles -> Executions]]
      /\ live' \subseteq live /\ count' = count
      /\ executions' = executions \/ executions' = [executions EXCEPT ![me][cycleN] = e]
  BY DEF settleLaunchedWriter, stop, stopThrew, Typed, RepairTypeOK
<1>2. reported \subseteq live
  OBVIOUS
<1>3. \A r \in Runs, k \in Cycles : executions'[r][k] \in {executions[r][k], e}
  BY <1>1
<1>4. e.pids \subseteq live /\ e.state # "deadline_enforced"
  BY <1>2
<1> HIDE DEF reported, e
<1> QED
  BY <1>1, <1>3, <1>4 DEF Certified, OnlySpawned, Spawned, CertifiedExecutionIsDead, isTerminal

LEMMA SuperviseCertified ==
  ASSUME Typed, Certified, NEW r \in Runs, NEW k \in Cycles, Supervise(r, k)
  PROVE  Certified'
<1> DEFINE state == IF certified(executions[r][k].pids) THEN "deadline_enforced" ELSE "unknown_writer"
           e     == [executions[r][k] EXCEPT !.state = state]
<1>1. executions[r][k] \in Executions /\ live' \subseteq live /\ count' = count
  BY DEF Supervise, Typed, RepairTypeOK
<1>2. e.pids = executions[r][k].pids /\ (isTerminal(e) => e.pids \cap live' = {})
  BY <1>1 DEF Executions, isTerminal, certified
<1>3. executions' = [executions EXCEPT ![r] = [executions[r] EXCEPT ![k] = e]]
  BY DEF Supervise, Typed, RepairTypeOK
<1> HIDE DEF e
<1>4. /\ executions'[r][k] = e
      /\ \A q \in Runs, j \in Cycles : <<q, j>> # <<r, k>> => executions'[q][j] = executions[q][j]
  BY <1>3 DEF Typed, RepairTypeOK
<1>5. \A q \in Runs, j \in Cycles : executions'[q][j].pids = executions[q][j].pids
  BY <1>2, <1>4
<1>6. \A q \in Runs, j \in Cycles :
        isTerminal(executions'[q][j]) => executions'[q][j].pids \cap live' = {}
  BY <1>1, <1>2, <1>4 DEF Certified, CertifiedExecutionIsDead
<1> QED
  BY <1>1, <1>5, <1>6 DEF Certified, OnlySpawned, Spawned, CertifiedExecutionIsDead, isTerminal

\* A record that says the deadline was enforced never lists a process that is alive, for any
\* number of supervisors, writers and records (superviseDeadlineOnce, settleLaunchedWriter).
THEOREM EnforcedMeansDead == Spec => []CertifiedExecutionIsDead
<1>1. Init => Certified
  BY DEF Init, Certified, OnlySpawned, CertifiedExecutionIsDead, isTerminal
<1>2. Typed /\ Certified /\ [Next]_vars => Certified'
  BY RecordFrame, CertifiedKept, ReserveCertified, spawnForTaskCertified,
     settleLaunchedWriterCertified, SuperviseCertified
<1>3. Certified => CertifiedExecutionIsDead
  BY DEF Certified
<1> QED
  BY <1>1, <1>2, <1>3, StatesAreTyped, PTL DEF Spec

-----------------------------------------------------------------------------
\* Pushes and approvals.  From the write of a review to its verdict, repair.json holds the
\* review the loop works on; a v2 run publishes only what that review has cleared.

Clean(sha) == [sha |-> sha, verdict |-> "clean"]

OnRecord == {"inspect", "gate", "final", "published", "verdict"}

ApprovalOK ==
  /\ ApprovedIsReviewed
  /\ loop.pc \notin {"done", "release"} => mine.result # "approved"
  /\ loop.pc \in OnRecord => mine.review = loop.review
  /\ loop.pc \in PublishSteps /\ isV2(mine) =>
       mine.review = loop.review /\ loop.review = Clean(loop.sha) /\ loop.target = loop.sha
  /\ loop.pc = "verdict" /\ loop.verdict = "passed" => loop.review = Clean(mine.published)

\* What an action may do to the rows and the loop it does not work on.
LEMMA OtherRowsKept ==
  ASSUME ApprovalOK, me \in Runs, NEW s, st \in [Runs -> States],
         st' = [st EXCEPT ![me] = s],
         s.result = "approved" => s.review = Clean(s.published)
  PROVE  ApprovedIsReviewed'
BY DEF ApprovalOK, ApprovedIsReviewed, Clean

\* The end of a loop, approved or not.
LEMMA FinishApproval ==
  ASSUME Typed, ApprovalOK, loop.pc # "done", NEW result \in {"approved", "needs_attention", "stopped"},
         finish(result), result = "approved" => mine.review = Clean(mine.published)
  PROVE  ApprovalOK'
<1>1. me \in Runs /\ mine \in States /\ loop \in Loops /\ st \in [Runs -> States]
  BY Mine DEF Typed, RepairTypeOK
<1> DEFINE s == [mine EXCEPT !.result = result]
<1>2. st' = [st EXCEPT ![me] = s]
  BY <1>1 DEF finish, mine
<1>3. s.result = result /\ s.review = mine.review /\ s.published = mine.published
  BY <1>1 DEF States
<1>4. loop'.pc = "release"
  BY DEF finish, NoLoop
<1> HIDE DEF s
<1>5. ApprovedIsReviewed'
  BY <1>1, <1>2, <1>3, OtherRowsKept
<1> QED
  BY <1>4, <1>5 DEF ApprovalOK, OnRecord, PublishSteps

LEMMA AttentionApproval ==
  ASSUME Typed, ApprovalOK, loop.pc # "done", attention
  PROVE  ApprovalOK'
BY FinishApproval DEF attention

\* A loop that is gone, over rows that nobody wrote.
LEMMA GoneApproval ==
  ASSUME ApprovalOK, loop' = NoLoop, st' = st
  PROVE  ApprovalOK'
BY DEF ApprovalOK, ApprovedIsReviewed, NoLoop, OnRecord, PublishSteps

\* A step that writes nothing to a row and goes where no review is relied on.
LEMMA MoveApproval ==
  ASSUME ApprovalOK, loop.pc \notin {"done", "release"}, st' = st, loop'.run = loop.run,
         loop'.pc \in Pcs \ (OnRecord \cup PublishSteps)
  PROVE  ApprovalOK'
BY DEF ApprovalOK, ApprovedIsReviewed, me, mine, OnRecord, PublishSteps

\* A step that leaves the loop and the rows alone.
LEMMA StayApproval ==
  ASSUME ApprovalOK, UNCHANGED <<st, loop>>
  PROVE  ApprovalOK'
BY DEF ApprovalOK, ApprovedIsReviewed, me, mine, isV2

\* A write of the loop's own run that keeps its result, its review and its commits, or that
\* goes where none of them is relied on.
LEMMA WriteApproval ==
  ASSUME Typed, ApprovalOK, loop.pc \notin {"done", "release"}, NEW s \in States,
         st' = [st EXCEPT ![me] = s], s.result = mine.result, loop'.run = me,
         loop'.pc \in Pcs \ (OnRecord \cup PublishSteps)
  PROVE  ApprovalOK'
<1>1. me \in Runs /\ st \in [Runs -> States] /\ mine.result # "approved"
  BY Mine DEF Typed, RepairTypeOK, ApprovalOK
<1>2. ApprovedIsReviewed'
  BY <1>1, OtherRowsKept
<1>3. st'[me] = s /\ me' = me
  BY <1>1 DEF me
<1> QED
  BY <1>1, <1>2, <1>3 DEF ApprovalOK, mine, OnRecord, PublishSteps

-----------------------------------------------------------------------------
\* The actions, from the start of a loop to the verdict.

LEMMA BeginApproval ==
  ASSUME Typed, ApprovalOK, NEW r \in Runs, NEW p \in Protocols, Begin(r, p)
  PROVE  ApprovalOK'
<1> DEFINE s == [st[r] EXCEPT !.protocol = p, !.result = None]
<1>1. st[r] \in States /\ st' = [st EXCEPT ![r] = s]
  BY DEF Begin, Typed, RepairTypeOK
<1>2. s.result # "approved"
  BY <1>1, NoneAssumption DEF States
<1> HIDE DEF s
<1>3. ApprovedIsReviewed' /\ st'[r] = s
  BY <1>1, <1>2 DEF ApprovalOK, ApprovedIsReviewed, Typed, RepairTypeOK
<1>4. loop'.pc = "preflight" /\ loop'.run = r
  BY DEF Begin, NoLoop
<1> QED
  BY <1>2, <1>3, <1>4 DEF ApprovalOK, me, mine, OnRecord, PublishSteps

\* From preflight to the launch of the task: the rows written keep their result.
LEMMA LaunchApproval ==
  ASSUME Typed, ApprovalOK,
         Preflight \/ acquireWriterLease \/ NextCycle \/ Reserve \/ StartTask
  PROVE  ApprovalOK'
<1>1. /\ loop.pc \in {"preflight", "acquire", "top", "reserve", "start"} /\ loop.pc # "done"
      /\ loop.pc \notin {"done", "release"}
  BY DEF Preflight, acquireWriterLease, NextCycle, Reserve, StartTask, At
<1>2. me \in Runs /\ loop \in Loops /\ mine \in States /\ st \in [Runs -> States]
  BY <1>1, Mine DEF Typed, RepairTypeOK
<1>3. CASE attention
  BY <1>1, <1>3, AttentionApproval
<1>4. CASE Preflight /\ ~ attention
  <2> DEFINE s == [mine EXCEPT !.package = IF remote # expectedRemoteSha(mine) THEN remote
                                           ELSE mine.package]
  <2>1. st' = [st EXCEPT ![me] = s] /\ loop' = [loop EXCEPT !.pc = "acquire", !.base = mine.package]
    BY <1>2, <1>4 DEF Preflight, mine
  <2>2. s \in States /\ s.result = mine.result
    BY <1>2 DEF States, Typed, RepairTypeOK
  <2> HIDE DEF s
  <2>3. loop'.run = me /\ loop'.pc \in Pcs \ (OnRecord \cup PublishSteps)
    BY <1>2, <2>1 DEF Loops, me, Pcs, OnRecord, PublishSteps
  <2> QED
    BY <1>1, <2>1, <2>2, <2>3, WriteApproval
<1>5. CASE acquireWriterLease
  <2>1. CASE loop' = NoLoop
    BY <1>5, <2>1, GoneApproval DEF acquireWriterLease
  <2>2. CASE Goto("top")
    <3>1. loop'.run = loop.run /\ loop'.pc \in Pcs \ (OnRecord \cup PublishSteps)
      BY <1>2, <2>2 DEF Goto, Loops, Pcs, OnRecord, PublishSteps
    <3> QED
      BY <1>1, <1>5, <3>1, MoveApproval DEF acquireWriterLease
  <2> QED
    BY <1>5, <2>1, <2>2 DEF acquireWriterLease
<1>6. CASE NextCycle /\ ~ attention
  <2>1. st' = st /\ \E pc \in {"candidate", "spawn", "start", "reserve"} : Goto(pc)
    BY <1>6 DEF NextCycle
  <2>2. loop'.run = loop.run /\ loop'.pc \in Pcs \ (OnRecord \cup PublishSteps)
    BY <1>2, <2>1 DEF Goto, Loops, Pcs, OnRecord, PublishSteps
  <2> QED
    BY <1>1, <2>1, <2>2, MoveApproval
<1>7. CASE Reserve
  <2> DEFINE s == [mine EXCEPT !.outerUsed = cycleN + 1, !.phase = "reserved", !.task = FALSE,
                               !.review = None]
  <2>1. st' = [st EXCEPT ![me] = s]
    BY <1>2, <1>7 DEF Reserve, mine
  <2>2. s.result = mine.result /\ st'[me] = s
    BY <1>2, <2>1 DEF States
  <2>3. st' \in [Runs -> States] /\ s \in States
    BY <1>2, <1>7, <2>2, ReserveTyped DEF Typed, RepairTypeOK
  <2> HIDE DEF s
  <2>4. loop'.run = me /\ loop'.pc \in Pcs \ (OnRecord \cup PublishSteps)
    BY <1>2, <1>7 DEF Reserve, Goto, Loops, me, Pcs, OnRecord, PublishSteps
  <2> QED
    BY <1>1, <2>1, <2>2, <2>3, <2>4, WriteApproval
<1>8. CASE StartTask /\ ~ attention
  <2> DEFINE s == [mine EXCEPT !.phase = "active", !.task = TRUE]
  <2>1. st' = [st EXCEPT ![me] = s] /\ Goto("spawn")
    BY <1>2, <1>8 DEF StartTask, mine
  <2>2. s \in States /\ s.result = mine.result
    BY <1>2 DEF States
  <2> HIDE DEF s
  <2>3. loop'.run = me /\ loop'.pc \in Pcs \ (OnRecord \cup PublishSteps)
    BY <1>2, <2>1 DEF Goto, Loops, me, Pcs, OnRecord, PublishSteps
  <2> QED
    BY <1>1, <2>1, <2>2, <2>3, WriteApproval
<1> QED
  BY <1>3, <1>4, <1>5, <1>6, <1>7, <1>8

\* From the spawn of the writer to its candidate: what is written is not relied on.
LEMMA WaitApproval ==
  ASSUME Typed, ApprovalOK,
         spawnForTask \/ Session \/ settleLaunchedWriter \/ updateWriterPids \/ waitForCandidate
  PROVE  ApprovalOK'
<1>1. /\ loop.pc \in {"spawn", "session", "settle", "record", "wait"} /\ loop.pc # "done"
      /\ loop.pc \notin {"done", "release"}
  BY DEF spawnForTask, Session, settleLaunchedWriter, updateWriterPids, waitForCandidate, At
<1>2. me \in Runs /\ loop \in Loops /\ mine \in States /\ st \in [Runs -> States]
  BY <1>1, Mine DEF Typed, RepairTypeOK
<1>3. CASE attention \/ finish("stopped")
  BY <1>1, <1>3, AttentionApproval, FinishApproval
<1>4. CASE loop' = NoLoop /\ st' = st
  BY <1>4, GoneApproval
<1>5. ASSUME NEW pc \in {"session", "settle", "candidate"}, loop'.run = loop.run, loop'.pc = pc, st' = st
      PROVE  ApprovalOK'
  BY <1>1, <1>5, MoveApproval DEF Pcs, OnRecord, PublishSteps
<1>6. CASE spawnForTask \/ Session
  BY <1>2, <1>3, <1>5, <1>6 DEF spawnForTask, Session, abortSpawn, Goto, Loops
<1>7. CASE settleLaunchedWriter /\ loop'.pc = "record" /\ loop'.run = loop.run /\ st' = st
  BY <1>1, <1>7, MoveApproval DEF Pcs, OnRecord, PublishSteps
<1>8. CASE settleLaunchedWriter
  BY <1>2, <1>3, <1>4, <1>7, <1>8 DEF settleLaunchedWriter, Loops
<1>9. CASE updateWriterPids
  <2> DEFINE s == [mine EXCEPT !.writers = loop.pids]
  <2>1. st' = [st EXCEPT ![me] = s] /\ s \in States /\ s.result = mine.result
    BY <1>2, <1>9 DEF updateWriterPids, mine, States, Loops
  <2>2. loop'.run = me /\ loop'.pc \in Pcs \ (OnRecord \cup PublishSteps)
    BY <1>2, <1>9 DEF updateWriterPids, Loops, me, Pcs, OnRecord, PublishSteps
  <2> QED
    BY <1>1, <2>1, <2>2, WriteApproval
<1>10. CASE waitForCandidate
  <2>1. CASE ~ isV2(mine) /\ loop' = [loop EXCEPT !.pc = "publish", !.target = task.sha] /\ st' = st
    <3>1. loop'.pc = "publish" /\ loop'.run = loop.run
      BY <1>2, <2>1 DEF Loops
    <3> QED
      BY <1>1, <2>1, <3>1 DEF ApprovalOK, ApprovedIsReviewed, me, mine, isV2, OnRecord, PublishSteps
  <2> QED
    BY <1>2, <1>3, <1>5, <1>10, <2>1 DEF waitForCandidate, Loops
<1> QED
  BY <1>6, <1>8, <1>9, <1>10

LEMMA CandidateApproval ==
  ASSUME Typed, ApprovalOK, Candidate
  PROVE  ApprovalOK'
<1>1. /\ loop.pc = "candidate" /\ loop.pc # "done" /\ loop.pc \notin {"done", "release"}
      /\ me \in Runs /\ loop \in Loops /\ mine \in States
      /\ st \in [Runs -> States] /\ mine.result # "approved"
  BY Mine DEF Candidate, At, Typed, RepairTypeOK, ApprovalOK, OnRecord, PublishSteps
<1>2. CASE attention
  BY <1>1, <1>2, AttentionApproval
<1>3. CASE ~ attention
  <2> DEFINE s == [mine EXCEPT !.candidate = orElse(journalSha(task), mine.candidate)]
  <2>1. st' = [st EXCEPT ![me] = s]
    BY <1>1, <1>3 DEF Candidate, mine
  <2>2. s.result = mine.result /\ st'[me] = s
    BY <1>1, <2>1 DEF States
  <2>3. s \in States
    BY <1>1, <2>2, CandidateTyped DEF Typed, RepairTypeOK
  <2> HIDE DEF s
  <2>4. loop'.run = me /\ loop'.pc \in {"review", "reviewed"}
    BY <1>1, <1>3 DEF Candidate, Loops, me
  <2> QED
    BY <1>1, <2>1, <2>2, <2>3, <2>4, WriteApproval DEF Pcs, OnRecord, PublishSteps
<1> QED
  BY <1>2, <1>3

LEMMA ReviewApproval ==
  ASSUME Typed, ApprovalOK, Review
  PROVE  ApprovalOK'
<1>1. /\ loop.pc = "review" /\ loop.pc # "done" /\ loop.pc \notin {"done", "release"}
      /\ me \in Runs /\ loop \in Loops /\ mine \in States
      /\ st \in [Runs -> States] /\ mine.result # "approved"
  BY Mine DEF Review, At, Typed, RepairTypeOK, ApprovalOK, OnRecord, PublishSteps
<1>2. CASE attention
  BY <1>1, <1>2, AttentionApproval
<1>3. CASE ~ attention
  <2>1. loop'.run = loop.run /\ loop'.pc = "reviewed" /\ st' = st
    BY <1>1, <1>3 DEF Review, Loops
  <2> QED
    BY <1>1, <2>1, MoveApproval DEF Pcs, OnRecord, PublishSteps
<1> QED
  BY <1>2, <1>3

LEMMA ReviewedApproval ==
  ASSUME Typed, ApprovalOK, Reviewed
  PROVE  ApprovalOK'
<1>1. /\ loop.pc = "reviewed" /\ loop.pc # "done" /\ loop.pc \notin {"done", "release"}
      /\ me \in Runs /\ loop \in Loops /\ mine \in States
      /\ st \in [Runs -> States] /\ mine.result # "approved"
  BY Mine DEF Reviewed, At, Typed, RepairTypeOK, ApprovalOK, OnRecord, PublishSteps
<1> DEFINE s == [mine EXCEPT !.review = loop.review, !.phase = "reviewed"]
<1>2. st' = [st EXCEPT ![me] = s]
  BY <1>1 DEF Reviewed, mine
<1>3. s.result = mine.result /\ s.review = loop.review /\ st'[me] = s
  BY <1>1, <1>2 DEF States
<1> HIDE DEF s
<1>4. ApprovedIsReviewed'
  BY <1>1, <1>2, <1>3, OtherRowsKept
<1>5. loop'.run = me /\ loop'.pc = "inspect" /\ loop'.review = loop.review
  BY <1>1 DEF Reviewed, Goto, Loops, me
<1> QED
  BY <1>1, <1>3, <1>4, <1>5 DEF ApprovalOK, me, mine, OnRecord, PublishSteps

\* The inspections move the loop on; the review stays what it is.
LEMMA InspectApproval ==
  ASSUME Typed, ApprovalOK, Inspect \/ InspectPublished
  PROVE  ApprovalOK'
<1>1. /\ loop.pc \in {"inspect", "published"} /\ loop.pc # "done" /\ mine.review = loop.review
      /\ mine.result # "approved" /\ st' = st
  BY DEF Inspect, InspectPublished, At, ApprovalOK, OnRecord
<1>2. loop \in Loops
  BY <1>1, Mine
<1>3. loop'.run = loop.run /\ loop'.pc \in {"gate", "final"} /\ loop'.review = loop.review
  BY <1>2 DEF Inspect, InspectPublished, Loops
<1> QED
  BY <1>1, <1>3 DEF ApprovalOK, ApprovedIsReviewed, me, mine, isV2, OnRecord, PublishSteps

LEMMA LocalGateApproval ==
  ASSUME Typed, ApprovalOK, LocalGate
  PROVE  ApprovalOK'
<1>1. /\ loop.pc = "gate" /\ loop.pc # "done" /\ loop.pc \notin {"done", "release"}
      /\ me \in Runs /\ loop \in Loops /\ mine \in States
      /\ st \in [Runs -> States] /\ mine.result # "approved"
      /\ mine.review = loop.review
  BY Mine DEF LocalGate, At, Typed, RepairTypeOK, ApprovalOK, OnRecord, PublishSteps
<1> DEFINE verdict == gate(candidateMatches(loop), loop.review)
<1>2. loop.review \in Reviews
  BY <1>1 DEF LocalGate, At, Typed, LoopOK, JudgingSteps, Loops
<1>3. verdict = "passed" =>
        loop.review = Clean(loop.sha) /\ loop.target = loop.sha
  BY <1>2 DEF gate, candidateMatches, Reviews, Clean
<1> HIDE DEF verdict
<1>4. loop' = [loop EXCEPT !.pc = IF verdict = "passed" THEN "publish" ELSE "verdict",
                           !.verdict = verdict] /\ st' = st
  BY DEF LocalGate, verdict
<1>5. /\ loop'.run = loop.run /\ loop'.review = loop.review /\ loop'.sha = loop.sha
      /\ loop'.target = loop.target /\ loop'.verdict = verdict
      /\ loop'.pc = IF verdict = "passed" THEN "publish" ELSE "verdict"
  BY <1>1, <1>4 DEF Loops
<1> QED
  BY <1>1, <1>3, <1>4, <1>5 DEF ApprovalOK, ApprovedIsReviewed, me, mine, isV2, OnRecord, PublishSteps

LEMMA publishIntentApproval ==
  ASSUME Typed, ApprovalOK, publishIntent
  PROVE  ApprovalOK'
<1>1. /\ loop.pc = "publish" /\ loop.pc # "done" /\ loop.pc \notin {"done", "release"}
      /\ me \in Runs /\ loop \in Loops /\ mine \in States
      /\ st \in [Runs -> States] /\ mine.result # "approved"
      /\ (isV2(mine) => mine.review = loop.review /\ loop.review = Clean(loop.sha)
                        /\ loop.target = loop.sha)
  BY Mine DEF publishIntent, At, Typed, RepairTypeOK, ApprovalOK, OnRecord, PublishSteps
<1>2. /\ loop'.run = me /\ loop'.review = loop.review /\ loop'.sha = loop.sha
      /\ loop'.target = loop.target /\ loop'.pc \in {"candidate", "receipt", "push"}
  BY <1>1 DEF publishIntent, Goto, Loops, me
<1>3. CASE st' = st
  BY <1>1, <1>2, <1>3 DEF ApprovalOK, ApprovedIsReviewed, me, mine, isV2, OnRecord, PublishSteps
<1>4. CASE st' = [st EXCEPT ![me].ladder = "intent", ![me].candidate = loop.target]
  <2> DEFINE s == [mine EXCEPT !.ladder = "intent", !.candidate = loop.target]
  <2>1. st' = [st EXCEPT ![me] = s]
    BY <1>1, <1>4 DEF mine
  <2>2. /\ s.result = mine.result /\ s.review = mine.review /\ s.protocol = mine.protocol
        /\ st'[me] = s
    BY <1>1, <2>1 DEF States
  <2> HIDE DEF s
  <2>3. ApprovedIsReviewed'
    BY <1>1, <2>1, <2>2, OtherRowsKept
  <2> QED
    BY <1>1, <1>2, <2>2, <2>3 DEF ApprovalOK, me, mine, isV2, OnRecord, PublishSteps
<1> QED
  BY <1>3, <1>4 DEF publishIntent

LEMMA requestPublishApproval ==
  ASSUME Typed, ApprovalOK, requestPublish
  PROVE  ApprovalOK'
<1>1. /\ loop.pc = "push" /\ loop.pc # "done" /\ loop.pc \notin {"done", "release"}
      /\ me \in Runs /\ loop \in Loops /\ mine \in States
      /\ st \in [Runs -> States] /\ mine.result # "approved"
      /\ (isV2(mine) => mine.review = loop.review /\ loop.review = Clean(loop.sha)
                        /\ loop.target = loop.sha)
  BY Mine DEF requestPublish, At, Typed, RepairTypeOK, ApprovalOK, OnRecord, PublishSteps
<1>2. CASE attention
  BY <1>1, <1>2, AttentionApproval
<1>3. CASE Goto("pushed") /\ UNCHANGED st
  <2>1. /\ loop'.run = loop.run /\ loop'.review = loop.review /\ loop'.sha = loop.sha
        /\ loop'.target = loop.target /\ loop'.pc = "pushed"
    BY <1>1, <1>3 DEF Goto, Loops
  <2> QED
    BY <1>1, <1>3, <2>1 DEF ApprovalOK, ApprovedIsReviewed, me, mine, isV2, OnRecord, PublishSteps
<1> QED
  BY <1>2, <1>3 DEF requestPublish

LEMMA ReceiptApproval ==
  ASSUME Typed, ApprovalOK, Receipt
  PROVE  ApprovalOK'
<1>1. /\ loop.pc = "pushed" /\ loop.pc # "done" /\ loop.pc \notin {"done", "release"}
      /\ me \in Runs /\ loop \in Loops /\ mine \in States
      /\ st \in [Runs -> States] /\ mine.result # "approved"
      /\ (isV2(mine) => mine.review = loop.review /\ loop.review = Clean(loop.sha)
                        /\ loop.target = loop.sha)
  BY Mine DEF Receipt, At, Typed, RepairTypeOK, ApprovalOK, OnRecord, PublishSteps
<1> DEFINE s == [mine EXCEPT !.ladder = "receipt"]
<1>2. st' = [st EXCEPT ![me] = s]
  BY <1>1 DEF Receipt, mine
<1>3. /\ s.result = mine.result /\ s.review = mine.review /\ s.protocol = mine.protocol
      /\ st'[me] = s
  BY <1>1, <1>2 DEF States
<1> HIDE DEF s
<1>4. ApprovedIsReviewed'
  BY <1>1, <1>2, <1>3, OtherRowsKept
<1>5. /\ loop'.run = me /\ loop'.review = loop.review /\ loop'.sha = loop.sha
      /\ loop'.target = loop.target /\ loop'.pc = "receipt"
  BY <1>1 DEF Receipt, Goto, Loops, me
<1> QED
  BY <1>1, <1>3, <1>4, <1>5 DEF ApprovalOK, me, mine, isV2, OnRecord, PublishSteps

LEMMA recoverPublishReceiptApproval ==
  ASSUME Typed, ApprovalOK, recoverPublishReceipt
  PROVE  ApprovalOK'
<1>1. /\ loop.pc = "receipt" /\ loop.pc # "done" /\ loop.pc \notin {"done", "release"}
      /\ me \in Runs /\ loop \in Loops /\ mine \in States
      /\ st \in [Runs -> States] /\ mine.result # "approved"
      /\ (isV2(mine) => mine.review = loop.review /\ loop.review = Clean(loop.sha)
                        /\ loop.target = loop.sha)
  BY Mine DEF recoverPublishReceipt, At, Typed, RepairTypeOK, ApprovalOK, OnRecord, PublishSteps
<1>2. CASE attention
  BY <1>1, <1>2, AttentionApproval
<1>3. CASE loop' = NoLoop /\ UNCHANGED st
  BY <1>3, GoneApproval
<1>4. CASE /\ st' = [st EXCEPT ![me].ladder = "published", ![me].published = loop.target,
                               ![me].phase = "published"]
           /\ Goto(IF isV2(mine) THEN "published" ELSE "candidate")
  <2> DEFINE s == [mine EXCEPT !.ladder = "published", !.published = loop.target,
                               !.phase = "published"]
  <2>1. st' = [st EXCEPT ![me] = s]
    BY <1>1, <1>4 DEF mine
  <2>2. s.result = mine.result /\ s.review = mine.review /\ st'[me] = s
    BY <1>1, <2>1 DEF States
  <2> HIDE DEF s
  <2>3. ApprovedIsReviewed'
    BY <1>1, <2>1, <2>2, OtherRowsKept
  <2>4. /\ loop'.run = me /\ loop'.review = loop.review
        /\ loop'.pc = IF isV2(mine) THEN "published" ELSE "candidate"
    BY <1>1, <1>4 DEF Goto, Loops, me
  <2> QED
    BY <1>1, <2>2, <2>3, <2>4 DEF ApprovalOK, me, mine, OnRecord, PublishSteps
<1> QED
  BY <1>2, <1>3, <1>4 DEF recoverPublishReceipt

LEMMA FinalGateApproval ==
  ASSUME Typed, ApprovalOK, FinalGate
  PROVE  ApprovalOK'
<1>1. /\ loop.pc = "final" /\ loop.pc # "done" /\ loop.pc \notin {"done", "release"}
      /\ me \in Runs /\ loop \in Loops /\ mine \in States
      /\ st \in [Runs -> States] /\ mine.result # "approved"
      /\ mine.review = loop.review
  BY Mine DEF FinalGate, At, Typed, RepairTypeOK, ApprovalOK, OnRecord, PublishSteps
<1> DEFINE published == IF mine.published = NoSha /\ loop.head = loop.sha THEN loop.sha
                        ELSE mine.published
           s         == [mine EXCEPT !.published = published, !.phase = "gated"]
           verdict   == gate(publishedMatches(loop, published), loop.review)
<1>2. loop.review \in Reviews
  BY <1>1 DEF FinalGate, At, Typed, LoopOK, JudgingSteps, Loops
<1>3. verdict = "passed" => loop.review = Clean(published)
  BY <1>2 DEF gate, publishedMatches, candidateMatches, Reviews, Clean
<1> HIDE DEF published, verdict
<1>4. st' = [st EXCEPT ![me] = s]
  BY <1>1 DEF FinalGate, mine, published
<1>5. /\ s.result = mine.result /\ s.review = mine.review /\ s.published = published
      /\ st'[me] = s
  BY <1>1, <1>4 DEF States
<1> HIDE DEF s
<1>6. ApprovedIsReviewed'
  BY <1>1, <1>4, <1>5, OtherRowsKept
<1>7. loop' = [loop EXCEPT !.pc = "verdict", !.verdict = verdict]
  BY DEF FinalGate, published, verdict
<1>8. loop'.run = me /\ loop'.pc = "verdict" /\ loop'.verdict = verdict /\ loop'.review = loop.review
  BY <1>1, <1>7 DEF Loops, me
<1> QED
  BY <1>1, <1>3, <1>5, <1>6, <1>8 DEF ApprovalOK, me, mine, OnRecord, PublishSteps

LEMMA VerdictApproval ==
  ASSUME Typed, ApprovalOK, Verdict
  PROVE  ApprovalOK'
<1>1. /\ loop.pc = "verdict" /\ loop.pc # "done" /\ loop.pc \notin {"done", "release"}
      /\ me \in Runs /\ loop \in Loops /\ mine \in States
      /\ st \in [Runs -> States] /\ mine.result # "approved"
      /\ mine.review = loop.review
      /\ (loop.verdict = "passed" => loop.review = Clean(mine.published))
  BY Mine DEF Verdict, At, Typed, RepairTypeOK, ApprovalOK, OnRecord, PublishSteps
<1>2. CASE loop.verdict = "passed" /\ finish("approved")
  BY <1>1, <1>2, FinishApproval
<1>3. CASE attention
  BY <1>1, <1>3, AttentionApproval
<1>4. CASE /\ Goto("top")
           /\ st' = [st EXCEPT ![me].phase = "closed", ![me].ladder = "none",
                               ![me].package = loop.review.sha]
  <2> DEFINE s == [mine EXCEPT !.phase = "closed", !.ladder = "none", !.package = loop.review.sha]
  <2>1. st' = [st EXCEPT ![me] = s]
    BY <1>1, <1>4 DEF mine
  <2>2. s.result = mine.result /\ st'[me] = s
    BY <1>1, <2>1 DEF States
  <2>3. s \in States
    BY <1>1, <2>2, VerdictTyped DEF Typed, RepairTypeOK
  <2> HIDE DEF s
  <2>4. loop'.run = me /\ loop'.pc = "top"
    BY <1>1, <1>4 DEF Goto, Loops, me
  <2> QED
    BY <1>1, <2>1, <2>2, <2>3, <2>4, WriteApproval DEF Pcs, OnRecord, PublishSteps
<1> QED
  BY <1>2, <1>3, <1>4 DEF Verdict

\* The stop command overwrites the row of its run, whose loop is gone then or does no more than
\* release the lease; or it leaves both alone.
LEMMA StopEndsApproval ==
  ASSUME Typed, ApprovalOK, StopEnds
  PROVE  ApprovalOK'
<1>1. stopper \in Stoppers /\ stopper.run \in Runs /\ st \in [Runs -> States]
  BY DEF StopEnds, Typed, RepairTypeOK, RowsOK
<1>2. ApprovedIsReviewed'
  <2>1. CASE UNCHANGED st
    BY <2>1 DEF ApprovalOK, ApprovedIsReviewed
  <2>2. ASSUME NEW result \in {"stopped", "needs_attention"},
               st' = [st EXCEPT ![stopper.run] = [stopper.snapshot EXCEPT !.result = result]]
        PROVE  ApprovedIsReviewed'
    <3> DEFINE s == [stopper.snapshot EXCEPT !.result = result]
    <3>1. s.result = result
      BY <1>1 DEF Stoppers, States
    <3> HIDE DEF s
    <3>2. st' = [st EXCEPT ![stopper.run] = s]
      BY <2>2 DEF s
    <3> QED
      BY <1>1, <3>1, <3>2 DEF ApprovalOK, ApprovedIsReviewed
  <2> QED
    BY <2>1, <2>2, StopEndsWrites
<1>3. \A r \in Runs \ {stopper.run} : st'[r] = st[r]
  BY <1>1, StopEndsWrites
<1>4. CASE loop' = NoLoop
  BY <1>2, <1>4 DEF ApprovalOK, NoLoop, OnRecord, PublishSteps
<1>5. CASE loop' = loop /\ loop.run # stopper.run
  <2>1. loop.pc # "done" => st'[me] = mine /\ me' = me
    BY <1>3, <1>5, Mine DEF me, mine
  <2> QED
    BY <1>2, <1>5, <2>1 DEF ApprovalOK, me, mine, isV2, OnRecord, PublishSteps
<1>6. CASE loop'.pc = "release"
  BY <1>2, <1>6 DEF ApprovalOK, OnRecord, PublishSteps
<1>7. CASE UNCHANGED <<st, loop>>
  BY <1>7, StayApproval
<1> QED
  BY <1>4, <1>5, <1>6, <1>7, StopEndsWrites

LEMMA InitApproval ==
  ASSUME Init
  PROVE  ApprovalOK
<1>1. \A r \in Runs : st[r].result = None
  BY DEF Init, NewState
<1> QED
  BY <1>1, NoneAssumption DEF Init, ApprovalOK, ApprovedIsReviewed, NoLoop, OnRecord, PublishSteps

LEMMA LoopApproval ==
  ASSUME Typed, ApprovalOK, Loop
  PROVE  ApprovalOK'
<1>1. CASE GiveUp
  <2>1. loop.pc # "done" /\ attention
    BY <1>1 DEF GiveUp
  <2> QED
    BY <2>1, AttentionApproval
<1>2. CASE Release
  BY <1>2, GoneApproval DEF Release
<1> QED
  BY <1>1, <1>2, LaunchApproval, WaitApproval, CandidateApproval, ReviewApproval, ReviewedApproval,
     InspectApproval, LocalGateApproval, publishIntentApproval, requestPublishApproval,
     ReceiptApproval, recoverPublishReceiptApproval, FinalGateApproval, VerdictApproval DEF Loop

LEMMA NextApproval ==
  ASSUME Typed, ApprovalOK, [Next]_vars
  PROVE  ApprovalOK'
<1>1. CASE Crash
  BY <1>1, GoneApproval DEF Crash
<1>2. CASE StopTasks \/ Tick \/ ForeignPush \/ UNCHANGED vars
  BY <1>2, StayApproval DEF StopTasks, Tick, ForeignPush, vars
<1>3. CASE \E r \in Runs : StopBegin(r) \/ (\E p \in Protocols : Begin(r, p))
  BY <1>3, StayApproval, BeginApproval DEF StopBegin
<1>4. CASE \E r \in Runs, k \in Cycles : Supervise(r, k) \/ Offer(r, k)
  BY <1>4, StayApproval DEF Supervise, Offer
<1>5. CASE \E p \in live : WriterExits(p)
  BY <1>5, StayApproval DEF WriterExits
<1> QED
  BY <1>1, <1>2, <1>3, <1>4, <1>5, LoopApproval, StopEndsApproval DEF Next

\* An approved run has published exactly the commit that its complete review found clean, for
\* any number of runs, cycles, crashes, stops and foreign pushes (evaluateRepairGate).
THEOREM ApprovalsAreReviewed == Spec => []ApprovedIsReviewed
<1>1. Init => ApprovalOK
  BY InitApproval
<1>2. Typed /\ ApprovalOK /\ [Next]_vars => ApprovalOK'
  BY NextApproval
<1>3. ApprovalOK => ApprovedIsReviewed
  BY DEF ApprovalOK
<1> QED
  BY <1>1, <1>2, <1>3, StatesAreTyped, PTL DEF Spec

\* Only a push of the loop and a foreign one move the branch.
LEMMA RemoteFrame ==
  ASSUME [Next]_vars
  PROVE  requestPublish \/ ForeignPush \/ remote' = remote
BY DEF Next, Loop, vars, Preflight, acquireWriterLease, NextCycle, Reserve, StartTask, spawnForTask,
       Session, settleLaunchedWriter, updateWriterPids, waitForCandidate, Candidate, Review,
       Reviewed, Inspect, LocalGate, publishIntent, Receipt, recoverPublishReceipt,
       InspectPublished, FinalGate, Verdict, GiveUp, Release, Crash, StopTasks, StopEnds, Tick,
       StopBegin, Begin, Supervise, Offer, WriterExits

LEMMA PushStep ==
  ASSUME Typed, ApprovalOK, [Next]_vars, remote' \notin {remote, Foreign}, isV2(mine)
  PROVE  mine.review = [sha |-> remote', verdict |-> "clean"]
<1>1. requestPublish /\ remote' = loop.target
  BY RemoteFrame DEF ForeignPush, requestPublish
<1>2. mine.review = Clean(loop.sha) /\ loop.target = loop.sha
  BY <1>1 DEF requestPublish, At, ApprovalOK, PublishSteps
<1> QED
  BY <1>1, <1>2 DEF Clean

\* A v2 run pushes only the commit its review has cleared, for any number of runs, cycles and
\* commits its writers offer meanwhile (publishIfNeeded).
THEOREM PushesAreReviewed == Spec => PushIsReviewed
<1>1. Init => ApprovalOK
  BY InitApproval
<1>2. Typed /\ ApprovalOK /\ [Next]_vars => ApprovalOK'
  BY NextApproval
<1>3. Typed /\ ApprovalOK /\ [Next]_vars =>
        [remote' \notin {remote, Foreign} /\ isV2(mine) =>
           mine.review = [sha |-> remote', verdict |-> "clean"]]_vars
  BY PushStep
<1> QED
  BY <1>1, <1>2, <1>3, StatesAreTyped, PTL DEF Spec, PushIsReviewed

-----------------------------------------------------------------------------
\* Sums.  SumFunction is a recursive function over the parts of its domain; the order of
\* the natural numbers is well founded (NatLessThanWellFounded, WFMin), and that carries
\* the inductions that its facts need: every part has a sum, and any element of it may be
\* the first.

\* A set of numbers has a least one.
LEMMA LeastNumber ==
  ASSUME NEW T, T \subseteq Nat, T # {}
  PROVE  \E m \in T : \A n \in T : ~ (n < m)
<1> DEFINE R == {ss \in Nat \X Nat : ss[1] < ss[2]}
<1>1. IsWellFoundedOn(R, Nat)
  BY NatLessThanWellFounded DEF OpToRel
<1>2. PICK m \in T : \A n \in T : ~ (<<n, m>> \in R)
  <2> HIDE DEF R
  <2> QED BY <1>1, WFMin
<1> QED
  BY <1>2

\* A set of finite sets that holds each set all of whose sets with one element less it holds.
LEMMA FiniteSubsets ==
  ASSUME NEW S, IsFiniteSet(S), NEW T,
         \A s \in SUBSET S : (\A x \in s : s \ {x} \in T) => s \in T
  PROVE  SUBSET S \subseteq T
<1> DEFINE Bad == {s \in SUBSET S : s \notin T}
           Sizes == {Cardinality(s) : s \in Bad}
<1>1. \A s \in SUBSET S : IsFiniteSet(s) /\ Cardinality(s) \in Nat
  BY FS_Subset, FS_CardinalityType
<1>2. ASSUME Bad # {}
      PROVE  FALSE
  <2>1. Sizes \subseteq Nat /\ Sizes # {}
    BY <1>1, <1>2
  <2>2. PICK m \in Sizes : \A n \in Sizes : ~ (n < m)
    BY <2>1, LeastNumber
  <2>3. PICK s \in Bad : m = Cardinality(s)
    OBVIOUS
  <2>4. ASSUME NEW x \in s
        PROVE  s \ {x} \in T
    <3>1. Cardinality(s \ {x}) = m - 1 /\ m \in Nat /\ Cardinality(s \ {x}) \in Nat
      BY <1>1, <2>3, FS_RemoveElement
    <3>2. s \ {x} \notin Bad
      BY <2>2, <3>1
    <3> QED
      BY <3>2
  <2> QED
    BY <2>3, <2>4
<1> QED
  BY <1>2

\* P gives each part of S the sum of f over it.
Adds(P, f, S) == P = [s \in SUBSET S |-> IF s = {} THEN 0
                        ELSE f[CHOOSE x \in s : TRUE] + P[s \ {CHOOSE x \in s : TRUE}]]

Sums(P, f, S) == /\ P \in [SUBSET S -> Nat]
                 /\ P[{}] = 0
                 /\ \A s \in SUBSET S : \A x \in s : P[s] = f[x] + P[s \ {x}]

\* The function that SumFunction chooses.
Part(f, S) == CHOOSE iter : iter = [s \in SUBSET S |-> IF s = {} THEN 0
                                    ELSE f[CHOOSE x \in s : TRUE] + iter[s \ {CHOOSE x \in s : TRUE}]]

LEMMA PartIsSum ==
  ASSUME NEW f
  PROVE  SumFunction(f) = Part(f, DOMAIN f)[DOMAIN f]
BY DEF SumFunction, SumFunctionOnSet, FoldFunctionOnSet, MapThenFoldSet, Part

\* There is such a function: one up to each size, as long as no size is the first without.
LEMMA PartDefined ==
  ASSUME NEW f, NEW S, IsFiniteSet(S)
  PROVE  Adds(Part(f, S), f, S)
<1> DEFINE one(s) == CHOOSE x \in s : TRUE
           Step(s, h) == IF s = {} THEN 0 ELSE f[one(s)] + h[s \ {one(s)}]
           Upto(n) == {s \in SUBSET S : Cardinality(s) <= n}
           Undefined == {n \in Nat : ~ \E h : h = [s \in Upto(n) |-> Step(s, h)]}
<1>1. \A s \in SUBSET S : IsFiniteSet(s) /\ Cardinality(s) \in Nat /\ Cardinality(s) <= Cardinality(S)
  BY FS_Subset, FS_CardinalityType
<1>2. \A s \in SUBSET S : s # {} => one(s) \in s /\ s \ {one(s)} \in SUBSET S
  OBVIOUS
<1> HIDE DEF one
<1>3. \A s \in SUBSET S : s # {} => Cardinality(s \ {one(s)}) = Cardinality(s) - 1 /\ Cardinality(s) # 0
  BY <1>1, <1>2, FS_RemoveElement, FS_EmptySet
<1>4. Cardinality(S) \in Nat
  BY FS_CardinalityType
<1>5. ASSUME Undefined # {}
      PROVE  FALSE
  <2>1. PICK m \in Undefined : \A n \in Undefined : ~ (n < m)
    BY <1>5, LeastNumber
  <2>2. CASE m = 0
    <3> DEFINE h == [s \in Upto(0) |-> 0]
    <3>1. ASSUME NEW s \in Upto(0)
          PROVE  s = {}
      <4>1. s \in SUBSET S /\ Cardinality(s) = 0
        BY <1>1
      <4> QED BY <1>3, <4>1
    <3>2. \A s \in Upto(0) : Step(s, h) = 0
      BY <3>1
    <3>3. h = [s \in Upto(0) |-> Step(s, h)]
      <4> HIDE DEF Step, Upto
      <4> QED BY <3>2
    <3> QED
      BY <2>1, <2>2, <3>3
  <2>3. CASE m # 0
    <3>1. m - 1 \in Nat /\ m \in Nat /\ m - 1 < m
      BY <2>3
    <3>2. PICK g : g = [s \in Upto(m - 1) |-> Step(s, g)]
      BY <2>1, <3>1
    <3> DEFINE h == [s \in Upto(m) |-> Step(s, g)]
    <3>3. \A s \in Upto(m - 1) : s \in Upto(m) /\ h[s] = g[s]
      <4>1. Upto(m - 1) \subseteq Upto(m)
        BY <1>1, <3>1
      <4> HIDE DEF Upto, Step
      <4> QED BY <3>2, <4>1
    <3>4. \A s \in Upto(m) : s # {} => s \ {one(s)} \in Upto(m - 1)
      BY <1>1, <1>2, <1>3, <3>1
    <3>5. ASSUME NEW s \in Upto(m)
          PROVE  Step(s, g) = Step(s, h)
      <4>1. s # {} => h[s \ {one(s)}] = g[s \ {one(s)}]
        <5> HIDE DEF h, Upto
        <5> QED BY <3>3, <3>4
      <4> HIDE DEF h, Upto
      <4> QED BY <4>1
    <3>6. h = [s \in Upto(m) |-> Step(s, h)]
      BY <3>5
    <3> QED
      BY <2>1, <3>1, <3>6
  <2> QED
    BY <2>2, <2>3
<1>6. Upto(Cardinality(S)) = SUBSET S
  BY <1>1
<1>7. PICK h : h = [s \in SUBSET S |-> Step(s, h)]
  <2>1. \E h : h = [s \in Upto(Cardinality(S)) |-> Step(s, h)]
    <3> HIDE DEF Upto, Step
    <3> QED BY <1>4, <1>5
  <2> HIDE DEF Upto, Step
  <2> QED BY <1>6, <2>1
<1>8. Part(f, S) = CHOOSE iter : iter = [s \in SUBSET S |-> Step(s, iter)]
  BY DEF Part, one
<1>9. Part(f, S) = [s \in SUBSET S |-> Step(s, Part(f, S))]
  <2> HIDE DEF Step
  <2> QED BY <1>7, <1>8
<1> QED
  BY <1>9 DEF one, Adds

\* The sum of a part, any element of which may be taken out first.
LEMMA PartSums ==
  ASSUME NEW S, IsFiniteSet(S), NEW f \in [S -> Nat]
  PROVE  Sums(Part(f, S), f, S)
<1> DEFINE one(s) == CHOOSE x \in s : TRUE
           P == Part(f, S)
<1>a. P = [s \in SUBSET S |-> IF s = {} THEN 0 ELSE f[one(s)] + P[s \ {one(s)}]]
  <2>1. Adds(P, f, S)
    BY PartDefined
  <2> HIDE DEF P
  <2> QED
    BY <2>1 DEF Adds
<1>b. \A s \in SUBSET S : s # {} => one(s) \in s
  OBVIOUS
<1> HIDE DEF one, P
<1>1. P[{}] = 0
  BY <1>a
<1>2. ASSUME NEW s \in SUBSET S, s # {}
      PROVE  \E x \in s : P[s] = f[x] + P[s \ {x}]
  <2>1. P[s] = f[one(s)] + P[s \ {one(s)}]
    BY <1>a, <1>2
  <2> QED
    BY <1>b, <1>2, <2>1
<1> DEFINE T == {s \in SUBSET S : P[s] \in Nat}
<1>3. ASSUME NEW s \in SUBSET S, \A x \in s : s \ {x} \in T
      PROVE  s \in T
  <2>1. CASE s = {}
    BY <1>1, <2>1
  <2>2. CASE s # {}
    <3>1. PICK x \in s : P[s] = f[x] + P[s \ {x}]
      BY <1>2, <2>2
    <3>2. P[s \ {x}] \in Nat /\ f[x] \in Nat
      BY <1>3
    <3> QED
      BY <3>1, <3>2
  <2> QED
    BY <2>1, <2>2
<1>4. SUBSET S \subseteq T
  <2> HIDE DEF T
  <2> QED
    BY <1>3, FiniteSubsets
<1>5. P \in [SUBSET S -> Nat]
  <2>1. DOMAIN P = SUBSET S /\ P = [s \in SUBSET S |-> P[s]]
    BY <1>a
  <2> QED
    BY <1>4, <2>1
<1> DEFINE U == {u \in SUBSET S : \A y \in u : P[u] = f[y] + P[u \ {y}]}
<1>7. ASSUME NEW u \in SUBSET S, \A y \in u : u \ {y} \in U, NEW y \in u
      PROVE  P[u] = f[y] + P[u \ {y}]
  <2>1. PICK c \in u : P[u] = f[c] + P[u \ {c}]
    BY <1>2, <1>7
  <2>2. CASE c = y
    BY <2>1, <2>2
  <2>3. CASE c # y
    <3>1. P[u \ {c}] = f[y] + P[(u \ {c}) \ {y}]
      BY <1>7, <2>3
    <3>2. P[u \ {y}] = f[c] + P[(u \ {y}) \ {c}]
      BY <1>7, <2>3
    <3>3. (u \ {c}) \ {y} = (u \ {y}) \ {c} /\ (u \ {c}) \ {y} \in SUBSET S
      OBVIOUS
    <3>4. P[(u \ {c}) \ {y}] \in Nat /\ f[c] \in Nat /\ f[y] \in Nat
      BY <1>5, <3>3
    <3>5. P[u] = f[c] + (f[y] + P[(u \ {c}) \ {y}]) /\ P[u \ {y}] = f[c] + P[(u \ {c}) \ {y}]
      BY <2>1, <3>1, <3>2, <3>3
    <3> HIDE DEF U
    <3> QED
      BY <3>4, <3>5
  <2> QED
    BY <2>2, <2>3
<1>8. \A u \in SUBSET S : (\A y \in u : u \ {y} \in U) => u \in U
  BY <1>7
<1>9. SUBSET S \subseteq U
  <2> HIDE DEF U
  <2> QED
    BY <1>8, FiniteSubsets
<1>10. Sums(P, f, S)
  BY <1>1, <1>5, <1>9 DEF Sums
<1> QED
  BY <1>10 DEF P

\* The sum of a part looks at that part only.
LEMMA PartIsLocal ==
  ASSUME NEW S, IsFiniteSet(S), NEW f \in [S -> Nat], NEW g \in [S -> Nat],
         NEW s \in SUBSET S, \A x \in s : g[x] = f[x]
  PROVE  Part(g, S)[s] = Part(f, S)[s]
<1> DEFINE P == Part(f, S)
           Q == Part(g, S)
           T == {u \in SUBSET S : (\A x \in u : g[x] = f[x]) => Q[u] = P[u]}
<1>a. Sums(P, f, S) /\ Sums(Q, g, S)
  BY PartSums
<1> HIDE DEF P, Q
<1>1. ASSUME NEW u \in SUBSET S, \A x \in u : u \ {x} \in T
      PROVE  u \in T
  <2>1. CASE u = {}
    BY <1>a, <2>1 DEF Sums
  <2>2. CASE u # {}
    <3>1. PICK x \in u : TRUE
      BY <2>2
    <3>2. /\ Q[u] = g[x] + Q[u \ {x}]
          /\ P[u] = f[x] + P[u \ {x}]
      BY <1>a DEF Sums
    <3>3. (\A y \in u : g[y] = f[y]) => Q[u \ {x}] = P[u \ {x}]
      BY <1>1
    <3> QED
      BY <3>2, <3>3
  <2> QED
    BY <2>1, <2>2
<1>2. SUBSET S \subseteq T
  <2> HIDE DEF T
  <2> QED
    BY <1>1, FiniteSubsets
<1> QED
  BY <1>2 DEF P, Q

\* The sum of natural numbers is one.
LEMMA SumIsNatural ==
  ASSUME NEW S, IsFiniteSet(S), NEW f \in [S -> Nat]
  PROVE  SumFunction(f) \in Nat
<1>1. SumFunction(f) = Part(f, S)[S]
  BY PartIsSum
<1>2. Sums(Part(f, S), f, S)
  BY PartSums
<1> QED
  BY <1>1, <1>2 DEF Sums

\* A sum of which one term changes.
LEMMA SumOfUpdate ==
  ASSUME NEW S, IsFiniteSet(S), NEW f \in [S -> Nat], NEW g \in [S -> Nat], NEW x \in S,
         \A y \in S \ {x} : g[y] = f[y]
  PROVE  SumFunction(g) + f[x] = SumFunction(f) + g[x]
<1> DEFINE P == Part(f, S)
           Q == Part(g, S)
<1>1. SumFunction(f) = P[S] /\ SumFunction(g) = Q[S]
  BY PartIsSum
<1>2. Sums(P, f, S) /\ Sums(Q, g, S)
  BY PartSums
<1>3. Q[S \ {x}] = P[S \ {x}]
  BY PartIsLocal
<1> HIDE DEF P, Q
<1>4. /\ P[S] = f[x] + P[S \ {x}]
      /\ Q[S] = g[x] + Q[S \ {x}]
      /\ P[S \ {x}] \in Nat
  BY <1>2 DEF Sums
<1>5. f[x] \in Nat /\ g[x] \in Nat
  OBVIOUS
<1> QED
  BY <1>1, <1>3, <1>4, <1>5

\* The sum of nothing but zeros.
LEMMA SumOfZeros ==
  ASSUME NEW S, IsFiniteSet(S), NEW f \in [S -> Nat], \A x \in S : f[x] = 0
  PROVE  SumFunction(f) = 0
<1> DEFINE P == Part(f, S)
           T == {s \in SUBSET S : P[s] = 0}
<1>a. Sums(P, f, S)
  BY PartSums
<1>b. SumFunction(f) = P[S]
  BY PartIsSum
<1> HIDE DEF P
<1>1. ASSUME NEW s \in SUBSET S, \A x \in s : s \ {x} \in T
      PROVE  s \in T
  <2>1. CASE s = {}
    BY <1>a, <2>1 DEF Sums
  <2>2. CASE s # {}
    <3>1. PICK x \in s : P[s] = f[x] + P[s \ {x}]
      BY <1>a, <2>2 DEF Sums
    <3> QED
      BY <1>1, <3>1
  <2> QED
    BY <2>1, <2>2
<1>2. SUBSET S \subseteq T
  <2> HIDE DEF T
  <2> QED
    BY <1>1, FiniteSubsets
<1> QED
  BY <1>2, <1>b

-----------------------------------------------------------------------------
\* The budget.  A source fix is paid for one step before it is on record; a stop command
\* writes back a record that may have fewer of them, never more.

Paid == IF loop.pc = "reserve" /\ isV2(mine) THEN 1 ELSE 0

\* The record the stop command will write back is an older one of the run it is for.
SnapshotIsOlder ==
  stopper # NoStop => /\ stopper.snapshot.protocol = st[stopper.run].protocol
                      /\ stopper.snapshot.outerUsed <= st[stopper.run].outerUsed

ChainInv == /\ SumFunction([r \in Runs |-> sourceFixes(r)]) + Paid <= sourceFixUsed
            /\ \A r \in Runs : st[r].protocol = None => st[r].outerUsed = 0 /\ me # r
            /\ SnapshotIsOlder

\* What a run has on record, and what it is told to be, stays.
SameCounts == \A r \in Runs : /\ st'[r].outerUsed = st[r].outerUsed
                              /\ st'[r].protocol = st[r].protocol

\* The loop is not about to record what it has just paid for.
NotPaid == (loop' = loop \/ loop'.pc # "reserve") /\ loop'.run \in {me, None}

LEMMA FixesAreNatural ==
  ASSUME Typed
  PROVE  /\ [r \in Runs |-> sourceFixes(r)] \in [Runs -> Nat] /\ IsFiniteSet(Runs)
         /\ SumFunction([r \in Runs |-> sourceFixes(r)]) \in Nat
         /\ sourceFixUsed \in Nat
         /\ \A r \in Runs : st[r] \in States /\ st[r].outerUsed \in Nat
<1>1. \A r \in Runs : st[r] \in States /\ st[r].outerUsed \in Nat
  BY RepairAssumption DEF Typed, RepairTypeOK, States
<1>2. [r \in Runs |-> sourceFixes(r)] \in [Runs -> Nat]
  BY <1>1 DEF sourceFixes
<1>3. IsFiniteSet(Runs)
  BY RepairAssumption, FS_Interval DEF Runs
<1>4. sourceFixUsed \in Nat
  BY RepairAssumption DEF sourceFixUsed, Typed, RepairTypeOK
<1> QED
  BY <1>1, <1>2, <1>3, <1>4, SumIsNatural

LEMMA FinishKeepsCounts ==
  ASSUME Typed, NEW result, finish(result)
  PROVE  SameCounts /\ NotPaid
BY DEF Typed, RepairTypeOK, States, finish, SameCounts, NotPaid, me

Quiet == SameCounts /\ NotPaid /\ sourceFixUsed' = sourceFixUsed /\ stopper' \in {stopper, NoStop}

\* What the steps of the loop have in common.
LEMMA QuietMoves ==
  ASSUME Typed
  PROVE  /\ UNCHANGED st => SameCounts
         /\ UNCHANGED chain => sourceFixUsed' = sourceFixUsed
         /\ attention => SameCounts /\ NotPaid
         /\ finish("stopped") => SameCounts /\ NotPaid
         /\ finish("approved") => SameCounts /\ NotPaid
         /\ loop' = NoLoop => NotPaid
         /\ \A pc : Goto(pc) /\ pc # "reserve" => NotPaid
<1>1. UNCHANGED st => SameCounts
  BY DEF SameCounts
<1>2. attention => SameCounts /\ NotPaid
  BY FinishKeepsCounts DEF attention
<1>3. loop \in Loops
  BY DEF Typed, RepairTypeOK
<1>4. \A pc : Goto(pc) /\ pc # "reserve" => NotPaid
  BY <1>3 DEF Goto, NotPaid, Loops, me, me
<1>5. loop' = NoLoop => NotPaid
  BY DEF NoLoop, NotPaid, me
<1>6. UNCHANGED chain => sourceFixUsed' = sourceFixUsed
  BY DEF sourceFixUsed
<1> QED
  BY <1>1, <1>2, <1>4, <1>5, <1>6, FinishKeepsCounts

\* The steps that leave the records alone, or end the run.
LEMMA QuietWaits ==
  ASSUME Typed, \/ acquireWriterLease \/ spawnForTask \/ Session \/ settleLaunchedWriter
                \/ waitForCandidate \/ Review \/ Inspect \/ LocalGate \/ requestPublish
                \/ InspectPublished \/ GiveUp \/ Release
  PROVE  Quiet
<1>0. loop \in Loops
  BY DEF Typed, RepairTypeOK
<1>1. CASE acquireWriterLease
  BY <1>1, QuietMoves DEF acquireWriterLease, Quiet
<1>2. CASE spawnForTask
  BY <1>2, QuietMoves DEF spawnForTask, Quiet
<1>3. CASE Session
  BY <1>3, QuietMoves DEF Session, Quiet, abortSpawn
<1>4. CASE settleLaunchedWriter
  <2>1. (attention \/ UNCHANGED st) /\ UNCHANGED <<chain, stopper>>
    BY <1>4 DEF settleLaunchedWriter
  <2>2. attention \/ loop' = NoLoop \/ (loop'.pc = "record" /\ loop'.run = me)
    BY <1>0, <1>4 DEF settleLaunchedWriter, Loops, me
  <2> QED
    BY <2>1, <2>2, QuietMoves DEF Quiet, NotPaid
<1>5. CASE waitForCandidate
  <2>1. (attention \/ finish("stopped") \/ UNCHANGED st) /\ UNCHANGED <<chain, stopper>>
    BY <1>5 DEF waitForCandidate
  <2>2. attention \/ finish("stopped") \/ (loop'.pc \in {"candidate", "publish"} /\ loop'.run = me)
    BY <1>0, <1>5 DEF waitForCandidate, Loops, me
  <2> QED
    BY <2>1, <2>2, QuietMoves DEF Quiet, NotPaid
<1>6. CASE Review
  <2>1. (attention \/ UNCHANGED st) /\ UNCHANGED <<chain, stopper>>
    BY <1>6 DEF Review
  <2>2. attention \/ (loop'.pc = "reviewed" /\ loop'.run = me)
    BY <1>0, <1>6 DEF Review, Loops, me
  <2> QED
    BY <2>1, <2>2, QuietMoves DEF Quiet, NotPaid
<1>7. CASE Inspect \/ LocalGate \/ InspectPublished
  <2>1. UNCHANGED <<st, chain, stopper>>
    BY <1>7 DEF Inspect, LocalGate, InspectPublished
  <2>2. loop'.pc # "reserve" /\ loop'.run = me
    BY <1>0, <1>7 DEF Inspect, LocalGate, InspectPublished, Loops, me
  <2> QED
    BY <2>1, <2>2, QuietMoves DEF Quiet, NotPaid
<1>8. CASE requestPublish
  BY <1>8, QuietMoves DEF requestPublish, Quiet
<1>9. CASE GiveUp
  BY <1>9, QuietMoves DEF GiveUp, Quiet
<1>10. CASE Release
  BY <1>10, QuietMoves DEF Release, Quiet
<1> QED
  BY <1>1, <1>2, <1>3, <1>4, <1>5, <1>6, <1>7, <1>8, <1>9, <1>10

\* The steps that write other fields of the record.
LEMMA QuietWrites ==
  ASSUME Typed, \/ StartTask \/ updateWriterPids \/ Candidate \/ Reviewed \/ publishIntent \/ Receipt
                \/ recoverPublishReceipt \/ FinalGate \/ Verdict
  PROVE  Quiet
<1>0. loop \in Loops /\ st \in [Runs -> States]
  BY DEF Typed, RepairTypeOK
<1>1. CASE StartTask
  <2>1. UNCHANGED <<chain, stopper>>
    BY <1>1 DEF StartTask
  <2>2. attention \/ (st' = [st EXCEPT ![me].phase = "active", ![me].task = TRUE] /\ Goto("spawn"))
    BY <1>1 DEF StartTask
  <2>3. st' = [st EXCEPT ![me].phase = "active", ![me].task = TRUE] => SameCounts
    BY <1>0 DEF SameCounts, States
  <2> QED
    BY <2>1, <2>2, <2>3, QuietMoves DEF Quiet
<1>2. CASE updateWriterPids
  <2>1. SameCounts
    BY <1>0, <1>2 DEF updateWriterPids, SameCounts, States
  <2>2. loop'.pc = "wait" /\ loop'.run = me /\ UNCHANGED <<chain, stopper>>
    BY <1>0, <1>2 DEF updateWriterPids, Loops, me
  <2> QED
    BY <2>1, <2>2, QuietMoves DEF Quiet, NotPaid
<1>3. CASE Candidate
  <2>1. attention \/ (SameCounts /\ loop'.pc \in {"review", "reviewed"} /\ loop'.run = me)
    <3>1. ASSUME ~ attention
          PROVE  SameCounts
      BY <1>0, <1>3, <3>1 DEF Candidate, SameCounts, States
    <3>2. ASSUME ~ attention
          PROVE  loop'.pc \in {"review", "reviewed"} /\ loop'.run = me
      BY <1>0, <1>3, <3>2 DEF Candidate, Loops, me
    <3> QED
      BY <3>1, <3>2
  <2>2. UNCHANGED <<chain, stopper>>
    BY <1>3 DEF Candidate
  <2> QED
    BY <2>1, <2>2, QuietMoves DEF Quiet, NotPaid
<1>4. CASE Reviewed
  <2>1. SameCounts
    BY <1>0, <1>4 DEF Reviewed, SameCounts, States
  <2> QED
    BY <1>4, <2>1, QuietMoves DEF Quiet, Reviewed
<1>5. CASE publishIntent
  <2>1. SameCounts
    BY <1>0, <1>5 DEF publishIntent, SameCounts, States
  <2> QED
    BY <1>5, <2>1, QuietMoves DEF Quiet, publishIntent
<1>6. CASE Receipt
  <2>1. SameCounts
    BY <1>0, <1>6 DEF Receipt, SameCounts, States
  <2> QED
    BY <1>6, <2>1, QuietMoves DEF Quiet, Receipt
<1>7. CASE recoverPublishReceipt
  <2>1. attention \/ SameCounts
    BY <1>0, <1>7 DEF recoverPublishReceipt, SameCounts, States
  <2>2. attention \/ loop' = NoLoop \/ Goto("published") \/ Goto("candidate")
    BY <1>7 DEF recoverPublishReceipt
  <2>3. UNCHANGED <<chain, stopper>>
    BY <1>7 DEF recoverPublishReceipt
  <2> QED
    BY <2>1, <2>2, <2>3, QuietMoves DEF Quiet
<1>8. CASE FinalGate
  <2>1. SameCounts
    BY <1>0, <1>8 DEF FinalGate, SameCounts, States
  <2>2. loop'.pc = "verdict" /\ loop'.run = me /\ UNCHANGED <<chain, stopper>>
    BY <1>0, <1>8 DEF FinalGate, Loops, me
  <2> QED
    BY <2>1, <2>2, QuietMoves DEF Quiet, NotPaid
<1>9. CASE Verdict
  <2>1. finish("approved") \/ attention \/ Goto("top")
    BY <1>9 DEF Verdict
  <2>2. finish("approved") \/ attention \/ SameCounts
    BY <1>0, <1>9 DEF Verdict, SameCounts, States
  <2>3. UNCHANGED <<chain, stopper>>
    BY <1>9 DEF Verdict
  <2> QED
    BY <2>1, <2>2, <2>3, QuietMoves DEF Quiet
<1> QED
  BY <1>1, <1>2, <1>3, <1>4, <1>5, <1>6, <1>7, <1>8, <1>9

LEMMA QuietKeepsChain ==
  ASSUME Typed, Typed', ChainInv, Quiet
  PROVE  ChainInv'
<1>1. \A r \in Runs : sourceFixes(r)' = sourceFixes(r)
  BY DEF Quiet, SameCounts, sourceFixes, isV2
<1>2. SumFunction([r \in Runs |-> sourceFixes(r)])' = SumFunction([r \in Runs |-> sourceFixes(r)])
  <2>1. [r \in Runs |-> sourceFixes(r)]' = [r \in Runs |-> sourceFixes(r)]
    BY <1>1
  <2> QED
    BY <2>1
<1>3. Paid' \in {0, Paid} /\ Paid \in {0, 1}
  <2>1. CASE loop'.pc # "reserve"
    BY <2>1 DEF Paid
  <2>2. CASE loop' = loop /\ loop.pc = "reserve"
    <3>1. me \in Runs
      BY <2>2, Mine
    <3> QED
      BY <2>2, <3>1 DEF Paid, Quiet, SameCounts, mine, me, isV2
  <2> QED
    BY <2>1, <2>2, QuietMoves DEF Quiet, NotPaid, Paid
<1>4. sourceFixUsed' = sourceFixUsed
  BY DEF Quiet
<1>5. SnapshotIsOlder'
  BY DEF Quiet, SameCounts, ChainInv, SnapshotIsOlder, Typed, RowsOK
<1>6. (\A r \in Runs : st[r].protocol = None => st[r].outerUsed = 0 /\ me # r)'
  BY NoneAssumption DEF Quiet, SameCounts, NotPaid, ChainInv, me
<1>7. SumFunction([r \in Runs |-> sourceFixes(r)]) + Paid' <= sourceFixUsed
  BY <1>3, FixesAreNatural DEF ChainInv
<1> QED
  BY <1>2, <1>4, <1>5, <1>6, <1>7 DEF ChainInv

LEMMA FixesStayNatural ==
  Typed' => ([r \in Runs |-> sourceFixes(r)] \in [Runs -> Nat])'
<1>1. Typed => [r \in Runs |-> sourceFixes(r)] \in [Runs -> Nat]
  BY FixesAreNatural
<1> QED
  BY <1>1, PTL

\* One run has more or less on record, the others have what they had.
LEMMA FixesOfOneRun ==
  ASSUME Typed, Typed', NEW r \in Runs, \A q \in Runs \ {r} : st'[q] = st[q]
  PROVE  /\ SumFunction([q \in Runs |-> sourceFixes(q)])' + sourceFixes(r)
              = SumFunction([q \in Runs |-> sourceFixes(q)]) + sourceFixes(r)'
         /\ sourceFixes(r) \in Nat /\ sourceFixes(r)' \in Nat
         /\ SumFunction([q \in Runs |-> sourceFixes(q)]) \in Nat
         /\ SumFunction([q \in Runs |-> sourceFixes(q)])' \in Nat
<1> DEFINE f == [q \in Runs |-> sourceFixes(q)]
<1>1. f \in [Runs -> Nat] /\ IsFiniteSet(Runs) /\ SumFunction(f) \in Nat
  BY FixesAreNatural
<1>2. f' \in [Runs -> Nat] /\ SumFunction(f') \in Nat
  BY FixesStayNatural, <1>1, SumIsNatural
<1>3. \A q \in Runs \ {r} : f'[q] = f[q]
  BY DEF sourceFixes, isV2
<1>4. f[r] = sourceFixes(r) /\ f'[r] = sourceFixes(r)'
  OBVIOUS
<1>5. SumFunction(f') + f[r] = SumFunction(f) + f'[r]
  <2> HIDE DEF f
  <2> QED
    BY <1>1, <1>2, <1>3, SumOfUpdate
<1> QED
  BY <1>1, <1>2, <1>4, <1>5

LEMMA PreflightChain ==
  ASSUME Typed, Typed', ChainInv, Preflight
  PROVE  ChainInv'
<1>0. loop \in Loops /\ st \in [Runs -> States]
  BY DEF Typed, RepairTypeOK
<1>1. sourceFixUsed' = sourceFixUsed
  BY DEF Preflight, loadOrCreateChain, sourceFixUsed
<1>2. attention \/ SameCounts
  BY <1>0 DEF Preflight, SameCounts, States
<1>3. attention \/ (loop'.pc = "acquire" /\ loop'.run = me)
  BY <1>0 DEF Preflight, Loops, me
<1>4. UNCHANGED stopper
  BY DEF Preflight
<1> QED
  BY <1>1, <1>2, <1>3, <1>4, QuietMoves, QuietKeepsChain DEF Quiet, NotPaid

\* The payment: the chain has one more, the loop owes the record of it.
LEMMA NextCycleChain ==
  ASSUME Typed, Typed', ChainInv, NextCycle
  PROVE  ChainInv'
<1>1. loop.pc = "top" /\ me \in Runs /\ loop \in Loops /\ (isV2(mine) => chain # None)
  BY Mine DEF NextCycle, At, Typed, LoopOK
<1>2. CASE Quiet
  BY <1>2, QuietKeepsChain
<1>3. CASE ~ Quiet
  <2>1. /\ Goto("reserve") /\ UNCHANGED <<st, stopper>>
        /\ chain' = IF isV2(mine) THEN chain + 1 ELSE chain
    <3>1. CASE attention /\ UNCHANGED chain
      BY <1>3, <3>1, QuietMoves DEF NextCycle, Quiet
    <3>2. CASE /\ UNCHANGED <<chain, st>>
               /\ Goto(IF mine.phase \in {"reviewed", "published"} THEN "candidate"
                       ELSE IF mine.task THEN "spawn" ELSE "start")
      BY <1>3, <3>2, QuietMoves DEF NextCycle, Quiet
    <3> QED
      BY <3>1, <3>2 DEF NextCycle
  <2>2. mine' = mine /\ loop'.pc = "reserve"
    BY <1>1, <2>1 DEF Goto, mine, me, Loops
  <2>3. Paid = 0 /\ Paid' = IF isV2(mine) THEN 1 ELSE 0
    BY <1>1, <2>2 DEF Paid, isV2
  <2>4. [r \in Runs |-> sourceFixes(r)]' = [r \in Runs |-> sourceFixes(r)]
    BY <2>1 DEF sourceFixes, isV2
  <2>5. SumFunction([r \in Runs |-> sourceFixes(r)])' = SumFunction([r \in Runs |-> sourceFixes(r)])
    BY <2>4
  <2>6. sourceFixUsed' = IF isV2(mine) THEN sourceFixUsed + 1 ELSE sourceFixUsed
    <3>1. isV2(mine) => chain \in 0 .. SourceFixMax
      BY <1>1 DEF Typed, RepairTypeOK
    <3>2. isV2(mine) => chain' # None
      BY <1>1, <2>1, <2>2 DEF Typed, LoopOK
    <3> QED
      BY <1>1, <2>1, <3>1, <3>2 DEF sourceFixUsed
  <2>7. SnapshotIsOlder'
    BY <2>1 DEF SnapshotIsOlder, ChainInv
  <2>8. (\A r \in Runs : st[r].protocol = None => st[r].outerUsed = 0 /\ me # r)'
    <3>1. me' = me
      BY <1>1, <2>1 DEF Goto, Loops, me
    <3> QED
      BY <2>1, <3>1 DEF ChainInv
  <2>9. SumFunction([r \in Runs |-> sourceFixes(r)]) + Paid' <= sourceFixUsed'
    BY <2>3, <2>6, FixesAreNatural DEF ChainInv
  <2> QED
    BY <2>5, <2>7, <2>8, <2>9 DEF ChainInv
<1> QED
  BY <1>2, <1>3

\* The record of it.
LEMMA ReserveChain ==
  ASSUME Typed, Typed', ChainInv, Reserve
  PROVE  ChainInv'
<1>1. loop.pc = "reserve" /\ me \in Runs /\ loop \in Loops /\ mine \in States /\ cycleN \in Nat
  BY Mine, RepairAssumption DEF Reserve, At
<1>2. /\ st'[me].outerUsed = cycleN + 1 /\ st'[me].protocol = mine.protocol
      /\ \A r \in Runs \ {me} : st'[r] = st[r]
  BY <1>1 DEF Reserve, mine, Typed, RepairTypeOK, States
<1>3. loop'.pc = "start" /\ UNCHANGED <<chain, stopper>>
  BY <1>1 DEF Reserve, Goto, Loops
<1>4. Paid = (IF isV2(mine) THEN 1 ELSE 0) /\ Paid' = 0
  BY <1>1, <1>3 DEF Paid
<1>5. /\ sourceFixes(me) = IF isV2(mine) THEN cycleN ELSE 0
      /\ sourceFixes(me)' = IF isV2(mine) THEN cycleN + 1 ELSE 0
  <2>1. me' = me
    BY <1>1 DEF Reserve, Goto, Loops, me
  <2> QED
    BY <1>2, <2>1 DEF sourceFixes, isV2, mine, cycleN
<1>6. /\ SumFunction([q \in Runs |-> sourceFixes(q)])' + sourceFixes(me)
           = SumFunction([q \in Runs |-> sourceFixes(q)]) + sourceFixes(me)'
      /\ SumFunction([q \in Runs |-> sourceFixes(q)]) \in Nat
      /\ SumFunction([q \in Runs |-> sourceFixes(q)])' \in Nat
  <2>1. me' = me
    BY <1>1 DEF Reserve, Goto, Loops, me
  <2> QED
    BY <1>1, <1>2, <2>1, FixesOfOneRun
<1>7. (SumFunction([q \in Runs |-> sourceFixes(q)]) + Paid)'
        = SumFunction([q \in Runs |-> sourceFixes(q)]) + Paid
  BY <1>1, <1>4, <1>5, <1>6
<1>8. sourceFixUsed' = sourceFixUsed
  BY <1>3 DEF sourceFixUsed
<1>9. (\A r \in Runs : st[r].protocol = None => st[r].outerUsed = 0 /\ me # r)'
  <2>1. mine.protocol # None
    BY <1>1 DEF ChainInv, mine
  <2>2. me' = me
    BY <1>1 DEF Reserve, Goto, Loops, me
  <2>3. \A r \in Runs : st'[r].protocol = None => st'[r].outerUsed = 0 /\ me # r
    BY <1>1, <1>2, <2>1 DEF ChainInv
  <2> QED
    BY <2>2, <2>3
<1>10. SnapshotIsOlder'
  <2>1. stopper # NoStop => /\ stopper.run \in Runs
                            /\ stopper.snapshot.protocol = st[stopper.run].protocol
                            /\ stopper.snapshot.outerUsed <= st[stopper.run].outerUsed
    BY DEF SnapshotIsOlder, ChainInv, Typed, RowsOK
  <2>2. stopper.snapshot.outerUsed \in Nat
    BY RepairAssumption DEF Typed, RepairTypeOK, Stoppers, States
  <2>3. \A r \in Runs : /\ st'[r].protocol = st[r].protocol
                        /\ st[r].outerUsed \in Nat /\ st'[r].outerUsed \in Nat
                        /\ st[r].outerUsed <= st'[r].outerUsed
    BY <1>1, <1>2, FixesAreNatural DEF mine, cycleN
  <2> QED
    BY <1>3, <2>1, <2>2, <2>3 DEF SnapshotIsOlder
<1> QED
  BY <1>7, <1>8, <1>9, <1>10 DEF ChainInv

\* A command that starts or resumes a run: a run told its protocol now has nothing on record.
LEMMA BeginChain ==
  ASSUME Typed, Typed', ChainInv, NEW r \in Runs, NEW p \in Protocols, Begin(r, p)
  PROVE  ChainInv'
<1>1. p # None /\ st \in [Runs -> States]
  BY RepairAssumption, NoneAssumption DEF Typed, RepairTypeOK
<1>2. \A q \in Runs : st'[q].outerUsed = st[q].outerUsed
  BY <1>1 DEF Begin, States
<1>3. st'[r].protocol = p /\ st[r].protocol \in {None, p} /\ \A q \in Runs \ {r} : st'[q] = st[q]
  BY <1>1 DEF Begin, States
<1>4. loop'.run = r /\ loop'.pc = "preflight" /\ stopper' = NoStop /\ chain' = chain
  BY DEF Begin, NoLoop
<1>5. \A q \in Runs : sourceFixes(q)' = sourceFixes(q)
  BY <1>1, <1>2, <1>3, NoneAssumption DEF sourceFixes, isV2, ChainInv
<1>6. [q \in Runs |-> sourceFixes(q)]' = [q \in Runs |-> sourceFixes(q)]
  BY <1>5
<1>7. SumFunction([q \in Runs |-> sourceFixes(q)])' = SumFunction([q \in Runs |-> sourceFixes(q)])
  BY <1>6
<1>8. Paid' = 0 /\ Paid \in {0, 1} /\ sourceFixUsed' = sourceFixUsed
  BY <1>4 DEF Paid, sourceFixUsed
<1>9. SumFunction([q \in Runs |-> sourceFixes(q)]) + Paid' <= sourceFixUsed
  BY <1>8, FixesAreNatural DEF ChainInv
<1>10. SnapshotIsOlder'
  BY <1>4 DEF SnapshotIsOlder
<1>11. (\A q \in Runs : st[q].protocol = None => st[q].outerUsed = 0 /\ me # q)'
  BY <1>1, <1>2, <1>3, <1>4 DEF ChainInv, me
<1> QED
  BY <1>7, <1>8, <1>9, <1>10, <1>11 DEF ChainInv

LEMMA StopBeginChain ==
  ASSUME Typed, Typed', ChainInv, NEW r \in Runs, StopBegin(r)
  PROVE  ChainInv'
<1>1. UNCHANGED <<st, loop, chain>> /\ stopper'.run = r /\ stopper'.snapshot = st[r]
  BY DEF StopBegin
<1>2. UNCHANGED <<sourceFixUsed, Paid, me>>
  BY <1>1 DEF sourceFixUsed, Paid, mine, me, isV2
<1>3. [q \in Runs |-> sourceFixes(q)]' = [q \in Runs |-> sourceFixes(q)]
  BY <1>1 DEF sourceFixes, isV2
<1>4. SumFunction([q \in Runs |-> sourceFixes(q)])' = SumFunction([q \in Runs |-> sourceFixes(q)])
  BY <1>3
<1>5. SnapshotIsOlder'
  BY <1>1, FixesAreNatural DEF SnapshotIsOlder
<1>6. (\A q \in Runs : st[q].protocol = None => st[q].outerUsed = 0 /\ me # q)'
  BY <1>1, <1>2 DEF ChainInv
<1> QED
  BY <1>2, <1>4, <1>5, <1>6 DEF ChainInv

\* The stop command writes back what it read: perhaps less than is on record by now.
LEMMA StopEndsChain ==
  ASSUME Typed, Typed', ChainInv, StopEnds
  PROVE  ChainInv'
<1>0. PICK run \in Runs : run = stopper.run
  BY DEF StopEnds, Typed, RowsOK
<1>1. /\ run \in Runs /\ stopper \in Stoppers /\ st \in [Runs -> States] /\ loop \in Loops
      /\ stopper.snapshot.protocol = st[run].protocol
      /\ stopper.snapshot.outerUsed <= st[run].outerUsed
  BY <1>0 DEF StopEnds, Typed, RepairTypeOK, RowsOK, ChainInv, SnapshotIsOlder
<1>2. stopper.snapshot \in States /\ stopper.snapshot.outerUsed \in Nat /\ st[run].outerUsed \in Nat
  BY <1>1, RepairAssumption DEF Stoppers, States
<1>3. /\ \A q \in Runs \ {run} : st'[q] = st[q]
      /\ st'[run].protocol = st[run].protocol
      /\ st'[run].outerUsed \in Nat /\ st'[run].outerUsed <= st[run].outerUsed
  <2>1. CASE UNCHANGED st
    BY <1>2, <2>1
  <2>2. ASSUME NEW result, st' = [st EXCEPT ![run] = [stopper.snapshot EXCEPT !.result = result]]
        PROVE  /\ \A q \in Runs \ {run} : st'[q] = st[q]
               /\ st'[run].protocol = st[run].protocol
               /\ st'[run].outerUsed \in Nat /\ st'[run].outerUsed <= st[run].outerUsed
    BY <1>1, <1>2, <2>2 DEF States
  <2> QED
    BY <1>0, <2>1, <2>2, StopEndsWrites
<1>4. /\ stopper' = NoStop /\ chain' = chain
      /\ \/ loop' = NoLoop
         \/ loop' = loop /\ me # run
         \/ loop'.pc = "release" /\ loop'.run = me
         \/ UNCHANGED <<st, loop>>
  BY <1>0, StopEndsWrites DEF StopEnds, me
<1>5. sourceFixUsed' = sourceFixUsed /\ SnapshotIsOlder'
  BY <1>4 DEF sourceFixUsed, SnapshotIsOlder
<1>6. Paid' \in Nat /\ Paid \in Nat /\ Paid' <= Paid
  <2>1. CASE loop' = NoLoop
    BY <2>1 DEF Paid, NoLoop
  <2>2. CASE loop' = loop /\ me # run
    <3>1. loop.pc = "reserve" => mine' = mine
      BY <1>3, <2>2, Mine DEF mine, me
    <3> QED
      BY <2>2, <3>1 DEF Paid, isV2
  <2>3. CASE loop'.pc = "release"
    BY <2>3 DEF Paid
  <2>4. CASE UNCHANGED <<st, loop>>
    BY <2>4 DEF Paid, mine, me, isV2
  <2> QED
    BY <1>4, <2>1, <2>2, <2>3, <2>4
<1>7. sourceFixes(run)' <= sourceFixes(run)
  BY <1>2, <1>3 DEF sourceFixes, isV2
<1>8. /\ SumFunction([q \in Runs |-> sourceFixes(q)])' + sourceFixes(run)
           = SumFunction([q \in Runs |-> sourceFixes(q)]) + sourceFixes(run)'
      /\ sourceFixes(run) \in Nat /\ sourceFixes(run)' \in Nat
      /\ SumFunction([q \in Runs |-> sourceFixes(q)]) \in Nat
      /\ SumFunction([q \in Runs |-> sourceFixes(q)])' \in Nat
  BY <1>3, FixesOfOneRun
<1>9. (SumFunction([q \in Runs |-> sourceFixes(q)]) + Paid)' <= sourceFixUsed
  <2>1. SumFunction([q \in Runs |-> sourceFixes(q)]) + Paid <= sourceFixUsed /\ sourceFixUsed \in Nat
    BY FixesAreNatural DEF ChainInv
  <2> QED
    BY <1>6, <1>7, <1>8, <2>1
<1>10. (\A q \in Runs : st[q].protocol = None => st[q].outerUsed = 0 /\ me # q)'
  <2>1. me' = None \/ me' = me
    BY <1>4 DEF me, NoLoop
  <2>2. ASSUME NEW q \in Runs, st'[q].protocol = None
        PROVE  st'[q].outerUsed = 0 /\ me # q
    <3>1. st[q].protocol = None
      BY <1>3, <2>2
    <3>2. st[q].outerUsed = 0 /\ me # q
      BY <3>1 DEF ChainInv
    <3> QED
      BY <1>3, <3>2
  <2>3. None \notin Runs
    BY NoneAssumption
  <2> QED
    BY <2>1, <2>2, <2>3
<1> QED
  BY <1>5, <1>9, <1>10 DEF ChainInv

LEMMA NextChain ==
  ASSUME Typed, Typed', ChainInv, [Next]_vars
  PROVE  ChainInv'
<1>1. CASE Loop
  BY <1>1, QuietWaits, QuietWrites, QuietKeepsChain, PreflightChain, NextCycleChain, ReserveChain
     DEF Loop
<1>2. CASE Crash
  BY <1>2, QuietMoves, QuietKeepsChain DEF Crash, Quiet
<1>3. ASSUME UNCHANGED <<st, chain, loop>>, stopper' \in {stopper, NoStop}
      PROVE  ChainInv'
  <2>1. NotPaid
    BY <1>3 DEF NotPaid, me
  <2> QED
    BY <1>3, <2>1, QuietMoves, QuietKeepsChain DEF Quiet
<1>4. CASE Tick \/ ForeignPush \/ UNCHANGED vars
  BY <1>3, <1>4 DEF Tick, ForeignPush, vars
<1>5. CASE StopTasks
  <2>1. CASE stopper' = NoStop
    BY <1>3, <1>5, <2>1 DEF StopTasks
  <2>2. CASE stopper' = [stopper EXCEPT !.tasks = FALSE]
    <3>1. stopper'.run = stopper.run /\ stopper'.snapshot = stopper.snapshot
      BY <2>2 DEF Typed, RepairTypeOK, Stoppers
    <3>2. SnapshotIsOlder'
      BY <1>5, <3>1 DEF StopTasks, ChainInv, SnapshotIsOlder
    <3>3. UNCHANGED <<st, chain, loop>>
      BY <1>5 DEF StopTasks
    <3>4. UNCHANGED <<sourceFixUsed, Paid, me>>
      BY <3>3 DEF sourceFixUsed, Paid, mine, me, isV2
    <3>5. [q \in Runs |-> sourceFixes(q)]' = [q \in Runs |-> sourceFixes(q)]
      BY <3>3 DEF sourceFixes, isV2
    <3>6. SumFunction([q \in Runs |-> sourceFixes(q)])' = SumFunction([q \in Runs |-> sourceFixes(q)])
      BY <3>5
    <3>7. (\A q \in Runs : st[q].protocol = None => st[q].outerUsed = 0 /\ me # q)'
      BY <3>3, <3>4 DEF ChainInv
    <3> QED
      BY <3>2, <3>4, <3>6, <3>7 DEF ChainInv
  <2> QED
    BY <1>5, <2>1, <2>2 DEF StopTasks
<1>6. CASE StopEnds
  BY <1>6, StopEndsChain
<1>7. CASE \E r \in Runs : StopBegin(r) \/ (\E p \in Protocols : Begin(r, p))
  BY <1>7, StopBeginChain, BeginChain
<1>8. CASE \E r \in Runs, k \in Cycles : Supervise(r, k) \/ Offer(r, k)
  BY <1>3, <1>8 DEF Supervise, Offer
<1>9. CASE \E p \in live : WriterExits(p)
  BY <1>3, <1>9 DEF WriterExits
<1> QED
  BY <1>1, <1>2, <1>4, <1>5, <1>6, <1>7, <1>8, <1>9 DEF Next

LEMMA InitChain ==
  ASSUME Init
  PROVE  ChainInv
<1> DEFINE f == [r \in Runs |-> sourceFixes(r)]
<1>1. \A r \in Runs : st[r].outerUsed = 0
  BY DEF Init, NewState
<1>2. IsFiniteSet(Runs)
  BY RepairAssumption, FS_Interval DEF Runs
<1>3. f \in [Runs -> Nat] /\ \A r \in Runs : f[r] = 0
  BY <1>1 DEF sourceFixes
<1>4. SumFunction(f) = 0
  <2> HIDE DEF f
  <2> QED
    BY <1>2, <1>3, SumOfZeros
<1>5. Paid = 0 /\ sourceFixUsed = 0 /\ stopper = NoStop /\ me = None
  BY DEF Init, Paid, sourceFixUsed, NoLoop, me
<1> QED
  BY <1>1, <1>4, <1>5, NoneAssumption DEF ChainInv, SnapshotIsOlder

\* Every source fix that the v2 runs of a pull request have on record was paid for from the
\* chain they share, for any number of runs, cycles, crashes and stops: a crash between the
\* payment and the record loses a fix, none is ever on record for nothing
\* (consumeLockedSourceFix, loadOrCreateChain).
THEOREM CyclesArePaid == Spec => []ChainCoversCycles
<1>1. Init => ChainInv
  BY InitChain
<1>2. Typed /\ Typed' /\ ChainInv /\ [Next]_vars => ChainInv'
  BY NextChain
<1>3. Typed /\ ChainInv => ChainCoversCycles
  <2>1. ASSUME Typed, ChainInv
        PROVE  SumFunction([r \in Runs |-> sourceFixes(r)]) <= sourceFixUsed
    <3>1. Paid \in {0, 1}
      BY DEF Paid
    <3>2. SumFunction([r \in Runs |-> sourceFixes(r)]) \in Nat /\ sourceFixUsed \in Nat
      BY <2>1, FixesAreNatural
    <3> QED
      BY <2>1, <3>1, <3>2 DEF ChainInv
  <2> QED
    BY <2>1 DEF ChainCoversCycles
<1> QED
  BY <1>1, <1>2, <1>3, StatesAreTyped, PTL DEF Spec
===============================================================================
