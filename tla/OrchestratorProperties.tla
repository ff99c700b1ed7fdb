------------------------ MODULE OrchestratorProperties ------------------------
(***************************************************************************)
(* What the pages and the Host must agree on.                              *)
(***************************************************************************)
EXTENDS DiscussionOrchestrator

\* Persist before ACK: what the Host was told of a result is what the row says of it,
\* whatever page told it and however often (commit-execution.ts ackAfterPersist, the
\* startup audit's resend).
AckMatchesRow ==
  \A e \in ExecutionIds : turns[e].ack # None => executions[e].state = turns[e].ack

\* A row never becomes terminal while its turn still runs at the Host, where it would
\* keep the participant busy, unless its driver is about to see it: every path that
\* gives a turn up asks the Host to stop it first (cancelAbandonedExecution).  That
\* request is best-effort: a turn whose own cancel was lost or timed out runs on.  And a
\* reload or a change of controller may take the means to stop it.
SettledMeansStopped ==
  \A e \in ExecutionIds :
    turns[e].state = "running" =>
      \/ Live(e) \/ (\E k \in Tasks : task[k].e = e)
      \/ turns[e].missed
      \/ spent.reloads + spent.handovers > 0

\* A Scope the Host holds open belongs to a live row, or a task is about to bind or
\* close it (ensureScope's compensation, releaseRuntime's late close).
NoWarmScopeLeaks ==
  \A b \in BindingIds :
    scopes[b].state = "active" /\ bindings[b].state \notin {"creating", "active"} =>
      \/ \E k \in Tasks : task[k].b = b /\ task[k].pc \in {"activate", "close"}
      \/ spent.lost + spent.reloads + spent.handovers > 0

\* Every call ends in its row: by its driver, by the page's next audit, or by the page
\* that finds the Scope gone.  A change of controller is exempt, and an audit that a
\* failed request has aborted.
CallsEnd ==
  \A e \in ExecutionIds :
    Live(e) ~> \/ ~ Live(e)
               \/ spent.handovers > 0
               \/ \E p \in Pages : view[p].audit = "aborted"

\* Once a call's turn is over the page in control settles its row, a change of
\* controller or not.
FinishedTurnIsSettled ==
  \A e \in ExecutionIds :
    Live(e) ~> \/ ~ Live(e)
               \/ \E p \in Pages : view[p].audit = "aborted"
=============================================================================
