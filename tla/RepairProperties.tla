--------------------------- MODULE RepairProperties ---------------------------
(***************************************************************************)
(* What the repair of a branch promises: see RepairRun.                    *)
(***************************************************************************)
EXTENDS RepairRun, FiniteSets, Functions

\* An approved run has published exactly the commit whose complete review found nothing open,
\* whatever crashed, moved or was resumed between the review, the push and the gate
\* (evaluateRepairGate, handleFailedGate).
ApprovedIsReviewed ==
  \A r \in Runs : st[r].result = "approved" =>
    st[r].review = [sha |-> st[r].published, verdict |-> "clean"]

\* A v2 run moves the branch only to the commit its review has cleared: the commit that the
\* writer may replace during the review is never pushed in its place (publishIfNeeded after
\* the local gate).
PushIsReviewed ==
  [][remote' \notin {remote, Foreign} /\ isV2(mine) =>
       mine.review = [sha |-> remote', verdict |-> "clean"]]_vars

\* What a run has on record of the budget, and what the chain has.
sourceFixes(r)  == IF isV2(st[r]) THEN st[r].outerUsed ELSE 0
sourceFixUsed   == IF chain = None THEN 0 ELSE chain

\* Every source fix that a v2 run of the pull request has on record was paid for from the
\* chain they share, through crashes between the payment and the record and through runs
\* that inherit the chain (consumeLockedSourceFix, loadOrCreateChain).
ChainCoversCycles == SumFunction([r \in Runs |-> sourceFixes(r)]) <= sourceFixUsed

\* A lease that lists a writer is not released, taken over or rewritten without it while that
\* writer is alive (releaseWriterLease, takeExisting, updateWriterPids; the reason of #305).
LeaseKeepsLiveWriters == [][lease.writers \cap live' \subseteq lease'.writers]_vars

\* A record that says the deadline was enforced lists no process that is alive: a kill that
\* failed is an unknown writer (superviseDeadlineOnce, settleLaunchedWriter).
CertifiedExecutionIsDead ==
  \A r \in Runs, k \in Cycles :
    isTerminal(executions[r][k]) => executions[r][k].pids \cap live = {}

\* At most one writer of the branch is alive at a time (the comment of finish on
\* releaseWriterQuietly, "fails closed when a writer pid that could keep writing is alive").
OneWriter == Cardinality(live) <= 1
=============================================================================
