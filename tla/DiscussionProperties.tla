------------------------- MODULE DiscussionProperties -------------------------
(***************************************************************************)
(* What the transactions of one Room promise together.  Every property     *)
(* relates rows that different transactions write.                         *)
(***************************************************************************)
EXTENDS DiscussionTransactions

Committed(e) == executions[e].state = "committed"
Failed(e)    == executions[e].state \in FailureStates

IsModelItem(i) == projection[i].sourceExecutionId # None
Source(i)      == executions[projection[i].sourceExecutionId]

\* The Room dispatches at most one model call at a time: no two executions are
\* live together, whether for a Round or for the report (the begin* guards).
AtMostOneLiveExecution ==
  \A d, e \in ExecutionIds : Live(d) /\ Live(e) => d = e

\* A live execution of a Round holds that Round's slot, the Round is the Room's
\* active one and is in the phase that may commit it; a live report runs while
\* the Room has no active Round: no transaction orphans a model call.  And the
\* slot never points at an execution that is over: a Round cannot be blocked by
\* a finished call (beginExecution's EXECUTION_ACTIVE).
LiveExecutionIsAnchored ==
  /\ \A e \in ExecutionIds : Live(e) =>
       LET x == executions[e] IN
       IF x.resultKind = "report"
       THEN room.activeRoundId = None /\ room.status = "open" /\ rounds[x.roundId].phase = "completed"
       ELSE /\ room.activeRoundId = x.roundId
            /\ rounds[x.roundId].activeExecutionId = e
            /\ rounds[x.roundId].phase = IF x.resultKind = "summary" THEN "summarizing" ELSE "running"
  /\ \A r \in RoundIds : rounds[r].activeExecutionId # None =>
       LET e == rounds[r].activeExecutionId
       IN  Live(e) /\ executions[e].roundId = r /\ executions[e].resultKind # "report"

\* The Room's active Round is exactly its one unfinalized Round.
OneUnfinishedRound ==
  \A r \in RoundIds :
    (room.activeRoundId = r) <=> (rounds[r].phase \notin FinalPhases \cup {"none"})

\* A paused Round says what to resume into, and a failure it names can be tried
\* again: once resumed, the begin guard for the same kind and participant holds.
PausedRoundIsRetryable ==
  \A r \in RoundIds : rounds[r].phase = "paused" =>
    LET round == rounds[r] IN
    /\ round.activeExecutionId = None
    /\ round.pausedFrom # None /\ round.pauseReason # None
    /\ round.pauseReason.executionId # None =>
         LET x == executions[round.pauseReason.executionId] IN
         /\ Failed(round.pauseReason.executionId) /\ x.roundId = r
         /\ x.participantId = round.pauseReason.participantId
         /\ round.pausedFrom = IF x.resultKind = "summary" THEN "summarizing" ELSE "running"
         /\ (x.resultKind = "focus") <=> (round.focusMessageId = None)
         /\ IF x.resultKind = "message" THEN AtCursor(round, x.participantId)
            ELSE x.participantId = Facilitator

\* An execution is committed exactly when one entity carries its id, in the
\* Round and of the kind it was dispatched for; a failed one left nothing.
CommittedExactlyOnce ==
  /\ \A e \in ExecutionIds :
       LET places == {i \in DOMAIN projection : projection[i].sourceExecutionId = e}
       IN  Cardinality(places) + (IF e \in reports THEN 1 ELSE 0)
             = (IF Committed(e) THEN 1 ELSE 0)
  /\ \A i \in DOMAIN projection : IsModelItem(i) =>
       /\ Source(i).roundId = projection[i].roundId
       /\ (projection[i].role = "summary") <=> (Source(i).resultKind = "summary")
  /\ \A e \in reports : executions[e].resultKind = "report"

\* The position of an execution in the script of its Round.
ScriptPosition(x) ==
  LET order == rounds[x.roundId].participantOrder IN
  CASE x.resultKind = "focus"   -> 0
    [] x.resultKind = "message" -> CHOOSE i \in DOMAIN order : order[i] = x.participantId
    [] OTHER                    -> Len(order) + 1

\* Model entities land in the order of the script: Rounds one after the other,
\* in each the focus, then the participants in order, then the summary, no slot
\* twice, and nobody speaks in a Round before its focus landed.
SpokenInOrder ==
  \A j \in DOMAIN projection : IsModelItem(j) =>
    /\ \A i \in 1 .. j - 1 : IsModelItem(i) =>
         \/ projection[i].roundId < projection[j].roundId
         \/ /\ projection[i].roundId = projection[j].roundId
            /\ ScriptPosition(Source(i)) < ScriptPosition(Source(j))
    /\ Source(j).resultKind # "focus" =>
         \E i \in 1 .. j - 1 : /\ projection[i].roundId = projection[j].roundId
                               /\ projection[i].sourceExecutionId
                                    = rounds[projection[j].roundId].focusMessageId

AnswersSlot(e, r, i) ==
  /\ executions[e].roundId = r /\ executions[e].resultKind = "message"
  /\ executions[e].participantId = rounds[r].participantOrder[i]

\* A participant spoke only if the cursor passed it, and the cursor passes a
\* participant that did not speak only over a recorded failure: the durable
\* proof of absence that later snapshots turn into a skip annotation.
PassedSlotsAccounted ==
  \A r \in RoundIds : \A i \in DOMAIN rounds[r].participantOrder :
    /\ (\E e \in ExecutionIds : Committed(e) /\ AnswersSlot(e, r, i)) =>
         i <= rounds[r].nextParticipantIndex
    /\ i <= rounds[r].nextParticipantIndex =>
         \E e \in ExecutionIds : (Committed(e) \/ Failed(e)) /\ AnswersSlot(e, r, i)

\* Commits are serial: what is committed later was asked later, over a strictly
\* longer shared context, so no committed answer missed an earlier one.
SerialContext ==
  /\ \A d, e \in ExecutionIds : Committed(d) /\ Committed(e) /\ d < e =>
       executions[d].context.revision < executions[e].context.revision
  /\ \A i \in DOMAIN projection : IsModelItem(i) => Source(i).context.digest.items = i - 1

\* A concluded Room has its one report, and nothing in it is unfinished.
ConcludedRoomIsClosed ==
  /\ (room.status = "concluded") <=> (\E e \in ExecutionIds : reports = {e})
  /\ room.status = "open" => reports = {}
  /\ room.status = "concluded" =>
       room.activeRoundId = None /\ \A e \in ExecutionIds : ~ Live(e)

\* At most one binding of the Room is creating or active, so at most one Host
\* Scope and one controller pair can write.
OneLiveBinding ==
  \A b, c \in BindingIds :
    bindings[b].state \in {"creating", "active"} /\ bindings[c].state \in {"creating", "active"}
      => b = c

-----------------------------------------------------------------------------

ExecutionStands(e) ==
  executions[e].state \in {"committed"} \cup FailureStates =>
    LET old == executions[e]
        new == executions'[e]
    IN  /\ [new EXCEPT !.ackState = None] = [old EXCEPT !.ackState = None]
        /\ new.ackState # old.ackState =>
             old.ackState = "pending" /\ new.ackState \in {"acknowledged", "expired"}

RoundStands(r) == rounds[r].phase \in FinalPhases => rounds'[r] = rounds[r]

VerdictsStand == (\A e \in ExecutionIds : ExecutionStands(e)) /\ (\A r \in RoundIds : RoundStands(r))

\* A terminal execution is never reopened or turned into another terminal, and
\* its ACK only moves from pending to one of its two ends; a completed or aborted
\* Round never changes again.  Late failures, late discards and replays of a
\* commit cannot undo what was decided.
TerminalRowsAreFinal == [][VerdictsStand]_vars

ContextMoves ==
  /\ room'.contextDigest = ComputeContextDigest(room'.topic, projection')
  /\ room'.contextRevision =
       room.contextRevision + IF <<room'.topic, projection'>> = <<room.topic, projection>> THEN 0 ELSE 1
  /\ Len(projection') >= Len(projection)
  /\ SubSeq(projection', 1, Len(projection)) = projection

\* The revision counts the changes of the shared projection, one for each, and
\* the digest on the row is the digest of what the tables hold: a reader of the
\* row and of the tables cannot be misled about which context it holds.
RevisionTracksProjection == [][ContextMoves]_vars

=============================================================================
