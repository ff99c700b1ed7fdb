------------------------------ MODULE RepairRun ------------------------------
(***************************************************************************)
(* The automatic repair of one pull request branch: the repair loop        *)
(* (cli/src/auto/repair-run.ts), the commands that start, resume and stop  *)
(* it (cli/src/commands/repair.ts), the branch's writer lease              *)
(* (repair-lease.ts), the deadline supervisor, the budget chain shared by  *)
(* the runs of one pull request, the gate, and the Squad bridge with the   *)
(* writer process it spawns.  What is on disk survives a crash: repair.json*)
(* of each run (st), the execution records, the lease and the chain.       *)
(*                                                                         *)
(* Abstractions.  A commit is a number, a review is the commit it read and *)
(* its outcome.  The Squad task is external: it runs, offers commits and   *)
(* stops as it likes.  A check that only reads files, policies, grants or  *)
(* histories may fail (GiveUp).  A completed review found again on disk is *)
(* a review with the same outcome.  The Host's own start route is left out.*)
(* At most one loop process lives at a time, beside one stop command, the  *)
(* writers and the supervisors; it may crash before any step.              *)
(***************************************************************************)
EXTENDS Naturals

CONSTANTS Protocols,
          MaxRuns,        \* bound: runs created, numbered as they are
          OuterMax,       \* outerMax of every run
          SourceFixMax,   \* budget.sourceFixMax of the chain
          MaxLoops,       \* bound: `repair run` and `repair resume` started
          MaxSpawns,      \* bound: writer processes spawned
          MaxShas,        \* bound: the source commit, the writers' and a foreign one
          Faults,         \* bound: which of crash, stop and push (by someone else) may happen,
          MaxFaults,      \* ... and how often, together
          None

ASSUME RepairAssumption == /\ Protocols \subseteq {"v1", "v2"}
                           /\ {MaxRuns, OuterMax, SourceFixMax, MaxLoops, MaxSpawns, MaxFaults} \subseteq Nat
                           /\ MaxShas \in Nat \ {0, 1}

VARIABLES clock,      \* open, past the write cutoff, or past the deadline
          chain,      \* budget.sourceFixUsed of the repair chain, None before there is one
          st,         \* repair.json of each run
          executions, \* execution record of each cycle of each run
          lease,      \* the writer lease of the branch
          tasks,      \* the Squad task and bridge identity of each cycle
          live,       \* pids of the writers that are alive
          remote,     \* head of the branch on the remote
          loop,       \* the live repair process
          stopper,    \* the live stop command
          count       \* bounds: what has been used of each

vars == <<clock, chain, st, executions, lease, tasks, live, remote, loop, stopper, count>>

Runs    == 1 .. MaxRuns
Cycles  == 1 .. OuterMax
NoSha   == 0
Source  == 1
Foreign == MaxShas
Shas    == 1 .. MaxShas
Pids    == 1 .. MaxSpawns
Reviews == [sha : Shas, verdict : {"clean", "open"}]

ASSUME NoneAssumption == /\ None \notin {"approved", "v1", "v2"}
                         /\ None \notin Runs \cup (0 .. SourceFixMax) \cup Reviews

\* outerUsed is the number of the last cycle; phase, task and review are its own.
States == [protocol  : Protocols \cup {None},
           result    : {None, "approved", "needs_attention", "stopped"},
           outerUsed : 0 .. OuterMax,
           phase     : {"none", "reserved", "active", "published", "reviewed", "gated", "closed"},
           task      : BOOLEAN,
           review    : Reviews \cup {None},
           candidate : {NoSha} \cup Shas,
           ladder    : {"none", "intent", "receipt", "published"},
           published : {NoSha} \cup Shas,
           package   : Shas,
           writers   : SUBSET Pids]
Executions == [state : {"absent", "intent", "started", "unknown_writer", "deadline_enforced"},
               pids  : SUBSET Pids]
Leases == [state : {"free", "empty", "held"}, holder : Runs \cup {None},
           pid : 0 .. MaxLoops, writers : SUBSET Pids]
Tasks  == [status : {"none", "running", "ready", "stopped"},
           sha : {NoSha} \cup Shas, pid : {0} \cup Pids]
Pcs    == {"done", "preflight", "acquire", "top", "reserve", "start", "spawn", "session", "settle",
           "record", "wait", "candidate", "review", "reviewed", "inspect", "gate", "publish", "push",
           "pushed", "receipt", "published", "final", "verdict", "release"}
Loops  == [run  : Runs \cup {None}, pid : 0 .. MaxLoops, pc : Pcs,
           base : {NoSha} \cup Shas, pids : SUBSET Pids, sha : {NoSha} \cup Shas,
           target : {NoSha} \cup Shas, head : {NoSha} \cup Shas, review : Reviews \cup {None},
           verdict : {"failed", "open", "passed"}]
Stoppers == [run : Runs \cup {None}, snapshot : States, tasks : BOOLEAN]

NewState == [protocol |-> None, result |-> None, outerUsed |-> 0, phase |-> "none", task |-> FALSE,
             review |-> None, candidate |-> NoSha, ladder |-> "none", published |-> NoSha,
             package |-> Source, writers |-> {}]
NoTask   == [status |-> "none", sha |-> NoSha, pid |-> 0]
NoLease  == [state |-> "free", holder |-> None, pid |-> 0, writers |-> {}]
NoLoop   == [run |-> None, pid |-> 0, pc |-> "done", base |-> NoSha, pids |-> {}, sha |-> NoSha,
             target |-> NoSha, head |-> NoSha, review |-> None, verdict |-> "failed"]
NoStop   == [run |-> None, snapshot |-> NewState, tasks |-> FALSE]

Init == /\ clock = "open" /\ chain = None /\ remote = Source
        /\ st = [r \in Runs |-> NewState]
        /\ executions = [r \in Runs |-> [n \in Cycles |-> [state |-> "absent", pids |-> {}]]]
        /\ tasks = [r \in Runs |-> [n \in Cycles |-> NoTask]]
        /\ lease = NoLease /\ live = {} /\ loop = NoLoop /\ stopper = NoStop
        /\ count = [loops |-> 0, spawns |-> 0, shas |-> 1, faults |-> 0]

RepairTypeOK ==
  /\ clock \in {"open", "cutoff", "deadline"} /\ chain \in {None} \cup 0 .. SourceFixMax
  /\ st \in [Runs -> States] /\ executions \in [Runs -> [Cycles -> Executions]]
  /\ lease \in Leases /\ tasks \in [Runs -> [Cycles -> Tasks]]
  /\ live \subseteq Pids /\ remote \in Shas /\ loop \in Loops /\ stopper \in Stoppers
  /\ count \in [loops : 0 .. MaxLoops, spawns : 0 .. MaxSpawns, shas : Shas, faults : 0 .. MaxFaults]
-----------------------------------------------------------------------------
\* Helpers.

me        == loop.run
mine      == st[me]
cycleN    == mine.outerUsed
task      == tasks[me][cycleN]
execution == executions[me][cycleN]

isV2(s)       == s.protocol = "v2"
isTerminal(e) == e.state = "deadline_enforced"
resumeSlot(s) == s.phase \notin {"none", "closed", "gated"}
orElse(sha, other) == IF sha = NoSha THEN other ELSE sha
expectedRemoteSha(s) == orElse(s.published, orElse(s.candidate, Source))
canOpenSourceFix == clock = "open" /\ chain < SourceFixMax

fault(kind)   == /\ kind \in Faults /\ count.faults < MaxFaults
                 /\ count' = [count EXCEPT !.faults = @ + 1]
At(pc)        == loop.pc = pc
Goto(pc)      == loop' = [loop EXCEPT !.pc = pc]

\* finish: the result is on disk first, the lease is released in the next step.
finish(result) == /\ st' = [st EXCEPT ![me].result = result]
                  /\ loop' = [NoLoop EXCEPT !.run = me, !.pid = loop.pid, !.pc = "release"]
attention      == finish("needs_attention")

\* bridge.status: a dead writer without a candidate has failed.
status(t)     == IF t.status = "running" /\ t.pid \notin live THEN "failed" ELSE t.status
journalSha(t) == IF status(t) \in {"stopped", "failed", "none"} THEN NoSha ELSE t.sha

\* bridge.stop of the tasks of cycles K of run r: all stopped, or one of them threw.
pidsOf(r, K)    == {tasks[r][k].pid : k \in K}
stop(r, K)      == /\ live' = live \ pidsOf(r, K)
                   /\ tasks' = [tasks EXCEPT ![r] =
                        [k \in Cycles |-> IF k \in K THEN [@[k] EXCEPT !.status = "stopped"]
                                          ELSE @[k]]]
stopThrew(r, K) == /\ K # {} /\ UNCHANGED tasks
                   /\ \E D \in SUBSET K : live' = live \ pidsOf(r, D)

\* Mutant: the holder's end is enough.
releaseWriterLease_Blind(r) ==
  IF lease.state = "held" /\ lease.holder = r THEN NoLease ELSE lease

\* releaseWriterLease: only its holder's, and only when no writer on it is alive.
releaseWriterLease(r) ==
  IF lease.state = "held" /\ lease.holder = r /\ lease.writers \cap live' = {} THEN NoLease ELSE lease

mayTake(r) == \/ lease.holder = r
              \/ /\ loop.pid # lease.pid               \* the only live holder is a live loop
                 /\ lease.writers \cap live = {}
                 /\ st[lease.holder].result # None     \* repairHolderFinished
-----------------------------------------------------------------------------
\* `repair run` and `repair resume`.

\* bootstrapRepairRun, or resume, which clears the result; bound: one protocol for all runs.
Begin(r, p) ==
  /\ loop = NoLoop /\ stopper = NoStop /\ count.loops < MaxLoops
  /\ st[r].protocol \in {None, p} /\ (r > 1 => st[r - 1].protocol = p)
  /\ st' = [st EXCEPT ![r].protocol = p, ![r].result = None]
  /\ loop' = [NoLoop EXCEPT !.run = r, !.pid = count.loops + 1, !.pc = "preflight"]
  /\ count' = [count EXCEPT !.loops = @ + 1]
  /\ UNCHANGED <<clock, chain, executions, lease, tasks, live, remote, stopper>>

\* Mutant: every invocation opens a fresh budget.
loadOrCreateChain_Fresh(c) == 0

loadOrCreateChain(c) == IF c = None THEN 0 ELSE c

\* All runs start from the review of Source.  A moved head ends a published run and costs an
\* unpublished one a supplement review, which makes that head the package's commit; the loop
\* goes on with the old one as preflight.sourceSha.
Preflight ==
  /\ At("preflight")
  /\ chain' = IF isV2(mine) THEN loadOrCreateChain(chain) ELSE chain
  /\ LET drift == remote # expectedRemoteSha(mine) IN
     IF drift /\ mine.published # NoSha THEN attention
     ELSE /\ loop' = [loop EXCEPT !.pc = "acquire", !.base = mine.package]
          /\ st' = [st EXCEPT ![me].package = IF drift THEN remote ELSE mine.package]
  /\ UNCHANGED <<clock, executions, lease, tasks, live, remote, stopper, count>>

acquireWriterLease ==
  /\ At("acquire")
  /\ \/ /\ lease.state = "free" /\ Goto("top") /\ UNCHANGED count
        /\ lease' = [state |-> "held", holder |-> me, pid |-> loop.pid, writers |-> {}]
     \/ /\ lease.state = "free" /\ loop' = NoLoop /\ fault("crash") \* between create and write
        /\ lease' = [NoLease EXCEPT !.state = "empty"]
     \/ /\ lease.state = "held" /\ mayTake(me) /\ Goto("top") /\ UNCHANGED count
        /\ lease' = [lease EXCEPT !.holder = me, !.pid = loop.pid,
                                  !.writers = IF lease.holder = me THEN @ ELSE {}]
     \/ /\ lease.state = "empty" \/ (lease.state = "held" /\ ~mayTake(me))
        /\ loop' = NoLoop /\ UNCHANGED <<lease, count>> \* thrown out of the command
  /\ UNCHANGED <<clock, chain, st, executions, tasks, live, remote, stopper>>
-----------------------------------------------------------------------------
\* One outer cycle: reserve, launch, wait.

NextCycle ==
  /\ At("top")
  /\ \/ /\ resumeSlot(mine)
        /\ Goto(IF mine.phase \in {"reviewed", "published"} THEN "candidate"
                ELSE IF mine.task THEN "spawn" ELSE "start")
        /\ UNCHANGED <<chain, st>>
     \/ /\ ~resumeSlot(mine)
        /\ cycleN >= OuterMax \/ (isV2(mine) /\ ~canOpenSourceFix)
        /\ attention /\ UNCHANGED chain
     \/ /\ ~resumeSlot(mine) /\ cycleN < OuterMax
        /\ isV2(mine) => canOpenSourceFix
        /\ chain' = IF isV2(mine) THEN chain + 1 ELSE chain     \* consumeLockedSourceFix
        /\ Goto("reserve") /\ UNCHANGED st
  /\ UNCHANGED <<clock, executions, lease, tasks, live, remote, stopper, count>>

\* The record of the new execution, unless a terminal one is there; then the cycle.
Reserve ==
  /\ At("reserve")
  /\ executions' = IF isV2(mine) /\ ~isTerminal(executions[me][cycleN + 1])
                   THEN [executions EXCEPT ![me][cycleN + 1] = [state |-> "intent", pids |-> {}]]
                   ELSE executions
  /\ st' = [st EXCEPT ![me].outerUsed = cycleN + 1, ![me].phase = "reserved",
                     ![me].task = FALSE, ![me].review = None]
  /\ Goto("start")
  /\ UNCHANGED <<clock, chain, lease, tasks, live, remote, stopper, count>>

\* The previous cycle's writer is stopped, or the run ends; then bridge.start.
StartTask ==
  /\ At("start")
  /\ LET previous == IF cycleN > 1 THEN {tasks[me][cycleN - 1].pid} ELSE {} IN
     \/ /\ live' = live \ previous
        /\ IF isTerminal(execution) THEN attention /\ UNCHANGED tasks
           ELSE /\ tasks' = [tasks EXCEPT ![me][cycleN] = NoTask]
                /\ st' = [st EXCEPT ![me].phase = "active", ![me].task = TRUE] /\ Goto("spawn")
     \/ previous \cap live # {} /\ attention /\ UNCHANGED <<live, tasks>>
  /\ UNCHANGED <<clock, chain, executions, lease, remote, stopper, count>>

\* What both ways to launch a writer refuse: a terminal record, a previous writer that is alive.
mayLaunch == ~isTerminal(execution) /\ task.pid \notin live

spawnChild(t, pid) == [t EXCEPT !.pid = pid, !.status = IF @ = "ready" THEN @ ELSE "running"]

\* bridge.prepare or bridge.resume, up to the identity of the new process on disk.
spawnForTask ==
  /\ At("spawn")
  /\ \/ ~mayLaunch /\ attention /\ UNCHANGED <<tasks, live, count>>
     \/ /\ mayLaunch /\ count.spawns < MaxSpawns
        /\ count' = [count EXCEPT !.spawns = @ + 1]
        /\ live' = live \cup {count'.spawns}
        /\ tasks' = [tasks EXCEPT ![me][cycleN] = spawnChild(@, count'.spawns)]
        /\ Goto("session") /\ UNCHANGED st
  /\ UNCHANGED <<clock, chain, executions, lease, remote, stopper>>

abortSpawn == live' = live \ {task.pid} /\ attention

\* The session of the new writer is awaited.
Session ==
  /\ At("session")
  /\ (Goto("settle") /\ UNCHANGED <<live, st>>) \/ abortSpawn
  /\ UNCHANGED <<clock, chain, executions, lease, tasks, remote, stopper, count>>

\* settleLaunchedWriter: the pids are bound under the record lock; a terminal record stops the writer.
settleLaunchedWriter ==
  /\ At("settle")
  /\ LET reported == {task.pid} \cap live IN
     \/ /\ isTerminal(execution) /\ attention /\ UNCHANGED executions
        /\ stop(me, {cycleN}) \/ stopThrew(me, {cycleN})
     \/ /\ isV2(mine) /\ ~isTerminal(execution) /\ reported = {} /\ execution.pids # {}
        /\ loop' = NoLoop /\ UNCHANGED <<st, executions, tasks, live>>
     \/ /\ ~isTerminal(execution) /\ (isV2(mine) /\ reported = {} => execution.pids = {})
        /\ executions' = IF isV2(mine)
             THEN [executions EXCEPT ![me][cycleN] = [state |-> "started", pids |-> reported]]
             ELSE executions
        /\ loop' = [loop EXCEPT !.pc = "record", !.pids = reported]
        /\ UNCHANGED <<st, tasks, live>>
  /\ UNCHANGED <<clock, chain, lease, remote, stopper, count>>

updateWriterPids ==
  /\ At("record")
  /\ st' = [st EXCEPT ![me].writers = loop.pids]
  /\ lease' = IF lease.holder = me THEN [lease EXCEPT !.writers = @ \cup loop.pids] ELSE lease
  /\ loop' = [loop EXCEPT !.pc = "wait", !.pids = {}]
  /\ UNCHANGED <<clock, chain, executions, tasks, live, remote, stopper, count>>

\* A v2 run has a deadline, a v1 run only when it was given a timeout.
waitForCandidate ==
  /\ At("wait")
  /\ \/ /\ status(task) = "ready" /\ UNCHANGED <<st, tasks, live>>
        /\ loop' = IF isV2(mine) THEN [loop EXCEPT !.pc = "candidate"]
                   ELSE [loop EXCEPT !.pc = "publish", !.target = task.sha]
     \/ status(task) = "stopped" /\ finish("stopped") /\ UNCHANGED <<tasks, live>>
     \/ status(task) = "failed" /\ attention /\ UNCHANGED <<tasks, live>>
     \/ /\ status(task) = "running" /\ clock = "deadline" /\ attention
        /\ stop(me, {cycleN}) \/ stopThrew(me, {cycleN})
  /\ UNCHANGED <<clock, chain, executions, lease, remote, stopper, count>>
-----------------------------------------------------------------------------
\* The candidate, its review, the gate and the publication.

Candidate ==
  /\ At("candidate")
  /\ LET journal == journalSha(task)
         own     == orElse(journal, orElse(mine.candidate, mine.published))
         sha     == IF isV2(mine) THEN own ELSE orElse(own, loop.base)
     IN  IF sha = NoSha THEN attention
         ELSE /\ st' = [st EXCEPT ![me].candidate = orElse(journal, mine.candidate)]
              /\ loop' = [loop EXCEPT !.sha = sha, !.review = mine.review,
                                      !.pc = IF mine.review = None THEN "review" ELSE "reviewed"]
  /\ UNCHANGED <<clock, chain, executions, lease, tasks, live, remote, stopper, count>>

\* A v2 review is pinned to the candidate, a v1 review reads the head of the pull request.
Review ==
  /\ At("review")
  /\ \/ \E verdict \in {"clean", "open"} :
          /\ loop' = [loop EXCEPT !.pc = "reviewed",
                        !.review = [sha |-> IF isV2(mine) THEN loop.sha ELSE remote,
                                    verdict |-> verdict]]
          /\ UNCHANGED st
     \/ attention                                            \* incomplete
  /\ UNCHANGED <<clock, chain, executions, lease, tasks, live, remote, stopper, count>>

Reviewed ==
  /\ At("reviewed")
  /\ st' = [st EXCEPT ![me].review = loop.review, ![me].phase = "reviewed"] /\ Goto("inspect")
  /\ UNCHANGED <<clock, chain, executions, lease, tasks, live, remote, stopper, count>>

Inspect ==
  /\ At("inspect")
  /\ loop' = [loop EXCEPT !.pc = IF isV2(mine) /\ mine.ladder # "published" THEN "gate" ELSE "final",
                          !.head = remote, !.target = journalSha(task)]
  /\ UNCHANGED <<clock, chain, st, executions, lease, tasks, live, remote, stopper, count>>

\* Mutants: the gate trusts the journal of the task, or the review.
candidateMatches_Journal(l) == l.target = l.sha
candidateMatches_Review(l)  == l.review.sha = l.sha

\* evaluateRepairGate without and with the stage published_pr; target is squad.sha.
candidateMatches(l)    == l.review.sha = l.sha /\ l.target = l.sha
publishedMatches(l, p) == candidateMatches(l) /\ p = l.sha /\ l.head = l.sha
gate(matches, review)  == IF ~matches THEN "failed"
                          ELSE IF review.verdict = "clean" THEN "passed" ELSE "open"

LocalGate ==
  /\ At("gate")
  /\ LET verdict == gate(candidateMatches(loop), loop.review) IN
     loop' = [loop EXCEPT !.pc = IF verdict = "passed" THEN "publish" ELSE "verdict",
                          !.verdict = verdict]
  /\ UNCHANGED <<clock, chain, st, executions, lease, tasks, live, remote, stopper, count>>

publishIntent ==
  /\ At("publish")
  /\ \/ mine.ladder = "published" /\ Goto("candidate") /\ UNCHANGED st
     \/ mine.ladder = "receipt" /\ Goto("receipt") /\ UNCHANGED st
     \/ /\ mine.ladder \in {"none", "intent"} /\ Goto("push")
        /\ st' = [st EXCEPT ![me].ladder = "intent", ![me].candidate = loop.target]
  /\ UNCHANGED <<clock, chain, executions, lease, tasks, live, remote, stopper, count>>

\* The push replaces the expected head only; the receipt of a push that landed may be refused.
requestPublish ==
  /\ At("push")
  /\ \/ /\ status(task) = "ready" /\ task.sha = loop.target
        /\ remote = orElse(mine.published, loop.base)
        /\ remote' = loop.target
        /\ (Goto("pushed") /\ UNCHANGED st) \/ attention
     \/ attention /\ UNCHANGED remote
  /\ UNCHANGED <<clock, chain, executions, lease, tasks, live, stopper, count>>

Receipt ==
  /\ At("pushed") /\ st' = [st EXCEPT ![me].ladder = "receipt"] /\ Goto("receipt")
  /\ UNCHANGED <<clock, chain, executions, lease, tasks, live, remote, stopper, count>>

\* An inspection that throws here ends the command without a result.
recoverPublishReceipt ==
  /\ At("receipt")
  /\ \/ /\ remote = loop.target
        /\ st' = [st EXCEPT ![me].ladder = "published", ![me].published = loop.target,
                           ![me].phase = "published"]
        /\ Goto(IF isV2(mine) THEN "published" ELSE "candidate")
     \/ remote # loop.target /\ attention
     \/ loop' = NoLoop /\ UNCHANGED st
  /\ UNCHANGED <<clock, chain, executions, lease, tasks, live, remote, stopper, count>>

InspectPublished ==
  /\ At("published") /\ loop' = [loop EXCEPT !.pc = "final", !.head = remote]
  /\ UNCHANGED <<clock, chain, st, executions, lease, tasks, live, remote, stopper, count>>

\* A head that is already the candidate is adopted as published.
FinalGate ==
  /\ At("final")
  /\ LET published == IF mine.published = NoSha /\ loop.head = loop.sha THEN loop.sha
                      ELSE mine.published
     IN  /\ st' = [st EXCEPT ![me].published = published, ![me].phase = "gated"]
         /\ loop' = [loop EXCEPT !.pc = "verdict",
                       !.verdict = gate(publishedMatches(loop, published), loop.review)]
  /\ UNCHANGED <<clock, chain, executions, lease, tasks, live, remote, stopper, count>>

\* Approval, or handleFailedGate; a v2 run may stop at a root cause seen twice, and a v1 run
\* ends after two published fixes.
Verdict ==
  /\ At("verdict")
  /\ LET canRetry == /\ loop.verdict = "open"
                     /\ IF isV2(mine) THEN chain < SourceFixMax
                        ELSE cycleN < OuterMax /\ cycleN < 2
     IN  \/ loop.verdict = "passed" /\ finish("approved")
         \/ loop.verdict # "passed" /\ (canRetry => isV2(mine)) /\ attention
         \/ /\ canRetry /\ Goto("top")
            /\ st' = [st EXCEPT ![me].phase = "closed", ![me].ladder = "none",
                               ![me].package = loop.review.sha]
  /\ UNCHANGED <<clock, chain, executions, lease, tasks, live, remote, stopper, count>>
-----------------------------------------------------------------------------
\* The end of a loop.

\* A check, a policy, a package, an inspection or a call of the bridge fails, or the task blocks.
GiveUp ==
  /\ loop.pc \in {"preflight", "start", "spawn", "wait", "inspect", "gate", "published"}
  /\ attention
  /\ UNCHANGED <<clock, chain, executions, lease, tasks, live, remote, stopper, count>>

Release ==
  /\ At("release") /\ UNCHANGED live
  /\ lease' = releaseWriterLease(me) /\ loop' = NoLoop
  /\ UNCHANGED <<clock, chain, st, executions, tasks, remote, stopper, count>>

Crash ==
  /\ loop # NoLoop /\ loop' = NoLoop /\ fault("crash")
  /\ UNCHANGED <<clock, chain, st, executions, lease, tasks, live, remote, stopper>>
-----------------------------------------------------------------------------
\* `repair stop`, beside the loop: it writes back the state it read before it stopped anything.

StopBegin(r) ==
  /\ stopper = NoStop /\ st[r].protocol # None /\ fault("stop")
  /\ stopper' = [run |-> r, snapshot |-> st[r], tasks |-> TRUE]
  /\ UNCHANGED <<clock, chain, st, executions, lease, tasks, live, remote, loop>>

StopTasks ==
  /\ stopper # NoStop /\ stopper.tasks
  /\ LET s == stopper.snapshot
         K == {k \in Cycles : k < s.outerUsed \/ (k = s.outerUsed /\ s.task)}
     IN  \/ stop(stopper.run, K) /\ stopper' = [stopper EXCEPT !.tasks = FALSE]
         \/ stopThrew(stopper.run, K) /\ stopper' = NoStop
  /\ UNCHANGED <<clock, chain, st, executions, lease, remote, loop, count>>

\* A review handles the signal itself while it runs in the loop's process: the review of a
\* candidate and the supplement review of a moved head.
Reviewing == \/ At("review")
             \/ At("preflight") /\ remote # expectedRemoteSha(mine) /\ mine.published = NoSha

\* SIGTERM to the loop, then markStopped unless a recorded writer lives.  A loop that reviews
\* survives: the review it cut short makes it finish over the stopped state, and one that was
\* complete already makes it go on with the state it has in memory.
StopEnds ==
  LET quiet        == stopper.snapshot.writers \cap live = {}
      ends(result) == IF quiet THEN [st EXCEPT ![stopper.run] = [stopper.snapshot EXCEPT !.result = result]]
                      ELSE st
  IN  /\ stopper # NoStop /\ ~stopper.tasks /\ stopper' = NoStop /\ UNCHANGED live
      /\ lease' = IF quiet THEN releaseWriterLease(stopper.run) ELSE lease
      /\ \/ /\ st' = ends("stopped")
            /\ loop' = IF loop.run = stopper.run THEN NoLoop ELSE loop
         \/ /\ loop.run = stopper.run /\ Reviewing /\ quiet /\ st' = ends("needs_attention")
            /\ loop' = [NoLoop EXCEPT !.run = me, !.pid = loop.pid, !.pc = "release"]
         \/ loop.run = stopper.run /\ Reviewing /\ UNCHANGED <<st, loop>>
      /\ UNCHANGED <<clock, chain, executions, tasks, remote, count>>
-----------------------------------------------------------------------------
\* Time, the supervisors, the writers and the world.

Tick ==
  /\ \/ clock = "open" /\ clock' = "cutoff"
     \/ clock = "cutoff" /\ clock' = "deadline"
  /\ UNCHANGED <<chain, st, executions, lease, tasks, live, remote, loop, stopper, count>>

\* Mutant: the signals were sent.
certified_Signalled(pids) == pids # {}

certified(pids) == pids # {} /\ pids \cap live' = {}

\* superviseDeadlineOnce under the record lock: any of the pids may survive both signals.
Supervise(r, k) ==
  /\ clock = "deadline" /\ executions[r][k].state \in {"intent", "started", "unknown_writer"}
  /\ \E killed \in SUBSET (executions[r][k].pids \cap live) : live' = live \ killed
  /\ executions' = [executions EXCEPT ![r][k].state =
       IF certified(executions[r][k].pids) THEN "deadline_enforced" ELSE "unknown_writer"]
  /\ UNCHANGED <<clock, chain, st, lease, tasks, remote, loop, stopper, count>>

\* A live writer offers a commit, a first or another one.
Offer(r, k) ==
  /\ tasks[r][k].pid \in live /\ count.shas < Foreign - 1
  /\ count' = [count EXCEPT !.shas = @ + 1]
  /\ tasks' = [tasks EXCEPT ![r][k].status = "ready", ![r][k].sha = count'.shas]
  /\ UNCHANGED <<clock, chain, st, executions, lease, live, remote, loop, stopper>>

WriterExits(p) ==
  /\ p \in live /\ live' = live \ {p}
  /\ UNCHANGED <<clock, chain, st, executions, lease, tasks, remote, loop, stopper, count>>

ForeignPush ==
  /\ remote # Foreign /\ remote' = Foreign /\ fault("push")
  /\ UNCHANGED <<clock, chain, st, executions, lease, tasks, live, loop, stopper>>

Loop == \/ Preflight \/ acquireWriterLease \/ NextCycle \/ Reserve \/ StartTask \/ spawnForTask
        \/ Session \/ settleLaunchedWriter \/ updateWriterPids \/ waitForCandidate
        \/ Candidate \/ Review \/ Reviewed \/ Inspect \/ LocalGate
        \/ publishIntent \/ requestPublish \/ Receipt \/ recoverPublishReceipt \/ InspectPublished
        \/ FinalGate \/ Verdict \/ GiveUp \/ Release

Next == \/ Loop \/ Crash \/ StopTasks \/ StopEnds \/ Tick \/ ForeignPush
        \/ \E r \in Runs : StopBegin(r) \/ (\E p \in Protocols : Begin(r, p))
        \/ \E r \in Runs, k \in Cycles : Supervise(r, k) \/ Offer(r, k)
        \/ \E p \in live : WriterExits(p)

Spec == Init /\ [][Next]_vars
=============================================================================
