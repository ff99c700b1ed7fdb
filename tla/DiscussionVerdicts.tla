--------------------------- MODULE DiscussionVerdicts ---------------------------
(***************************************************************************)
(* What is decided stays decided, and what is told later is true.          *)
(*                                                                         *)
(* That a finished execution stands follows from the guards alone; that a  *)
(* finished Round stands does not: a failure or a late discard writes the  *)
(* Round of its execution whatever the phase, and leaves it alone only     *)
(* because no finished Round holds a live execution in its slot.  On the   *)
(* same invariant rest, section by section: a concluded Room stays closed, *)
(* a paused Round can be resumed, the transcript is serial, the cursor of  *)
(* a Round passes no participant without an answer or a failure, and what  *)
(* is said stands in the transcript in the order of the script.            *)
(***************************************************************************)
EXTENDS DiscussionSafety

LEMMA OthersStand ==
  ASSUME NEW e \in ExecutionIds, executions[e].state \notin {"committed"} \cup FailureStates,
         \A d \in ExecutionIds \ {e} : executions'[d] = executions[d]
  PROVE  \A d \in ExecutionIds : ExecutionStands(d)
BY DEF ExecutionStands

LEMMA SameExecutionsStand ==
  ASSUME UNCHANGED executions
  PROVE  \A d \in ExecutionIds : ExecutionStands(d)
BY DEF ExecutionStands

LEMMA OtherRoundsStand ==
  ASSUME NEW r \in RoundIds, rounds[r].phase \notin FinalPhases,
         \A q \in RoundIds \ {r} : rounds'[q] = rounds[q]
  PROVE  \A q \in RoundIds : RoundStands(q)
BY DEF RoundStands

LEMMA SameRoundsStand ==
  ASSUME UNCHANGED rounds
  PROVE  \A q \in RoundIds : RoundStands(q)
BY DEF RoundStands

\* A live execution that is dropped or fails is in no finished Round's slot.
LEMMA DropStands ==
  ASSUME Inv, NEW e \in ExecutionIds, Live(e), NEW pause \in BOOLEAN,
         \A d \in ExecutionIds \ {e} : executions'[d] = executions[d],
         rounds' = [rounds EXCEPT ![executions[e].roundId] = WithoutExecution(@, e, pause)]
  PROVE  VerdictsStand
<1>1. rounds \in [RoundIds -> Rounds]
  BY DEF Inv, Typed, TypeOK, RowsType
<1>2. PICK r \in RoundIds : r = executions[e].roundId
  BY LiveHasRound
<1>3. /\ rounds'[r] = WithoutExecution(rounds[r], e, pause)
      /\ \A q \in RoundIds \ {r} : rounds'[q] = rounds[q]
  BY <1>1, <1>2
<1>4. \A d \in ExecutionIds : ExecutionStands(d)
  BY OthersStand DEF Live, LiveStates, FailureStates
<1>5. CASE rounds[r].activeExecutionId # e
  <2>1. rounds'[r] = rounds[r]
    BY <1>3, <1>5 DEF WithoutExecution
  <2>2. QED
    BY <1>3, <1>4, <2>1 DEF VerdictsStand, RoundStands
<1>6. CASE rounds[r].activeExecutionId = e
  <2>1. executions[e].resultKind # "report"
    BY <1>6, ExecutionIdsAssumption DEF Inv, InStep, LiveExecutionIsAnchored
  <2>2. rounds[r].phase \notin FinalPhases
    BY <1>2, <2>1, LiveHasRound DEF FinalPhases
  <2>3. QED
    BY <1>3, <1>4, <2>2, OtherRoundsStand DEF VerdictsStand
<1>7. QED
  BY <1>5, <1>6

LEMMA RoundStepStands ==
  ASSUME Inv, NEW t \in Tokens, RoundStep(t)
  PROVE  VerdictsStand
<1>1. PICK r \in RoundIds :
        \/ \E order \in Orders : CreateRound(t, r, order)
        \/ \E to \in {"prewarming", "running"} : TransitionRound(t, r, to)
        \/ PrewarmFailed(t, r)
        \/ RetryFailedParticipant(t, r)
        \/ AbortRound(t, r)
        \/ SkipParticipant(t, r)
  BY DEF RoundStep
<1>2. rounds \in [RoundIds -> Rounds] /\ executions \in [ExecutionIds -> Executions]
  BY DEF Inv, Typed, TypeOK, RowsType
<1>3. rounds[r].phase \notin FinalPhases
  BY <1>1 DEF CreateRound, NextRound, TransitionRound, PrewarmFailed, PauseRound,
              RetryFailedParticipant, ResumeRound, AbortRound, SkipParticipant, FinalPhases
<1>4. \A q \in RoundIds \ {r} : rounds'[q] = rounds[q]
  BY <1>1, <1>2 DEF CreateRound, TransitionRound, PrewarmFailed, PauseRound,
                    RetryFailedParticipant, ResumeRound, AbortRound, SkipParticipant
<1>5. \A d \in ExecutionIds : ExecutionStands(d)
  <2>1. CASE AbortRound(t, r)
    <3>1. CASE UNCHANGED executions
      BY <3>1, SameExecutionsStand
    <3>2. CASE rounds[r].activeExecutionId \in ExecutionIds /\ Live(rounds[r].activeExecutionId)
      BY <1>2, <2>1, <3>2, OthersStand
      DEF AbortRound, InterruptIfLive, Live, LiveStates, FailureStates
    <3>3. QED
      BY <1>2, <2>1, <3>1, <3>2 DEF AbortRound, InterruptIfLive, Rounds
  <2>2. CASE ~ AbortRound(t, r)
    BY <1>1, <2>2, SameExecutionsStand
    DEF CreateRound, TransitionRound, PrewarmFailed, PauseRound, RetryFailedParticipant,
        ResumeRound, SkipParticipant
  <2>3. QED
    BY <2>1, <2>2
<1>6. QED
  BY <1>3, <1>4, <1>5, OtherRoundsStand DEF VerdictsStand

LEMMA BeginStepStands ==
  ASSUME Inv, NEW t \in Tokens, BeginStep(t)
  PROVE  VerdictsStand
<1>1. PICK e \in ExecutionIds, r \in RoundIds, p \in Participants, ctx \in published :
        \/ \E kind \in {"message", "summary"} : BeginExecution(t, e, kind, r, p, ctx)
        \/ BeginFocusExecution(t, e, r, p, ctx)
        \/ BeginReportExecution(t, e, r, p, ctx)
  BY DEF BeginStep
<1>2. rounds \in [RoundIds -> Rounds] /\ executions \in [ExecutionIds -> Executions]
      /\ room \in RoomRows
  BY DEF Inv, Typed, TypeOK, RowsType
<1>3. PICK kind \in ResultKinds, x \in RoundIds : AddExecution(e, kind, x, p, ctx)
  BY <1>1 DEF BeginExecution, BeginFocusExecution, BeginReportExecution, ResultKinds
<1>4. \A d \in ExecutionIds : ExecutionStands(d)
  BY <1>2, <1>3, OthersStand DEF AddExecution, NextExecution, FailureStates
<1>5. CASE BeginReportExecution(t, e, r, p, ctx)
  <2>1. CASE UNCHANGED rounds
    BY <1>4, <2>1, SameRoundsStand DEF VerdictsStand
  <2>2. CASE ~ UNCHANGED rounds
    <3>1. PICK q \in RoundIds : /\ rounds[q].phase \notin FinalPhases
                                /\ rounds' = [rounds EXCEPT ![q] = Aborted(rounds[q])]
      BY <1>2, <1>5, <2>2 DEF BeginReportExecution, RoomRows
    <3>2. QED
      BY <1>2, <1>4, <3>1, OtherRoundsStand DEF VerdictsStand
  <2>3. QED
    BY <2>1, <2>2
<1>6. ASSUME NEW phase \in {"running", "summarizing"}, SlotFree(r, phase), Occupy(r, e)
      PROVE  VerdictsStand
  BY <1>2, <1>4, <1>6, OtherRoundsStand DEF SlotFree, Occupy, VerdictsStand, FinalPhases
<1>7. QED
  BY <1>1, <1>5, <1>6 DEF BeginExecution, BeginFocusExecution

LEMMA EndStepStands ==
  ASSUME Inv, NEW t \in Tokens, EndStep(t)
  PROVE  VerdictsStand
<1>1. PICK e \in ExecutionIds :
        \/ CommitModelMessage(t, e)
        \/ CommitFocusMessage(t, e)
        \/ CommitSummary(t, e)
        \/ CommitReport(t, e)
        \/ DiscardExecution(t, e)
        \/ \E kind \in {"failed", "interrupted"}, pause \in BOOLEAN : FailExecution(t, e, kind, pause)
  BY DEF EndStep
<1>2. rounds \in [RoundIds -> Rounds] /\ executions \in [ExecutionIds -> Executions]
  BY DEF Inv, Typed, TypeOK, RowsType
<1>3. Live(e)
  BY <1>1 DEF CommitModelMessage, CommitFocusMessage, CommitSummary, CommitReport, Committable,
              DiscardExecution, FailExecution, RecordExecutionFailure, Live, LiveStates
<1>4. PICK r \in RoundIds : r = executions[e].roundId
  BY <1>3, LiveHasRound
<1>5. \A d \in ExecutionIds \ {e} : executions'[d] = executions[d]
  BY <1>1, <1>2 DEF CommitModelMessage, CommitFocusMessage, CommitSummary, CommitReport,
                    DiscardExecution, DiscardLockedExecution, Persist, FailExecution,
                    RecordExecutionFailure
<1>6. \A d \in ExecutionIds : ExecutionStands(d)
  BY <1>3, <1>5, OthersStand DEF Live, LiveStates, FailureStates
<1>7. CASE DiscardLockedExecution(e)
  BY <1>3, <1>5, <1>7, DropStands DEF DiscardLockedExecution
<1>8. ASSUME NEW kind \in {"failed", "interrupted"}, NEW pause \in BOOLEAN,
             FailExecution(t, e, kind, pause)
      PROVE  VerdictsStand
  BY <1>3, <1>5, <1>8, DropStands DEF FailExecution, RecordExecutionFailure
<1>9. CASE CommitReport(t, e)
  BY <1>6, <1>9, SameRoundsStand DEF CommitReport, VerdictsStand
<1>10. CASE ~ DiscardLockedExecution(e)
            /\ (CommitModelMessage(t, e) \/ CommitFocusMessage(t, e) \/ CommitSummary(t, e))
  <2>1. rounds[r].phase \in {"running", "summarizing"}
    BY <1>4, <1>10 DEF CommitModelMessage, CommitFocusMessage, CommitSummary, IsActiveExecution
  <2>2. \A q \in RoundIds \ {r} : rounds'[q] = rounds[q]
    BY <1>2, <1>4, <1>10 DEF CommitModelMessage, CommitFocusMessage, CommitSummary
  <2>3. QED
    BY <1>6, <2>1, <2>2, OtherRoundsStand DEF VerdictsStand, FinalPhases
<1>11. QED
  BY <1>1, <1>7, <1>8, <1>9, <1>10 DEF DiscardExecution

LEMMA UncontrolledStepStands ==
  ASSUME Inv, UncontrolledStep
  PROVE  VerdictsStand
<1>1. executions \in [ExecutionIds -> Executions]
  BY DEF Inv, Typed, TypeOK, RowsType
<1>2. ASSUME NEW topic \in Topics, RenameColdRoom(topic)
      PROVE  VerdictsStand
  BY <1>2, SameExecutionsStand, SameRoundsStand DEF RenameColdRoom, WriteTopic, VerdictsStand
<1>3. ASSUME NEW e \in ExecutionIds, NEW from \in LiveStates, NEW to \in LiveStates,
             SetState(e, from, to)
      PROVE  VerdictsStand
  BY <1>1, <1>3, OthersStand, SameRoundsStand
  DEF SetState, VerdictsStand, LiveStates, FailureStates
<1>4. ASSUME NEW e \in ExecutionIds, NEW ack \in {"acknowledged", "expired"}, SetAckState(e, ack)
      PROVE  VerdictsStand
  <2>1. ASSUME NEW d \in ExecutionIds
        PROVE  ExecutionStands(d)
    <3>1. CASE d = e
      BY <1>1, <1>4, <3>1 DEF SetAckState, ExecutionStands, Executions
    <3>2. CASE d # e
      BY <1>1, <1>4, <3>2 DEF SetAckState, ExecutionStands
    <3>3. QED
      BY <3>1, <3>2
  <2>2. QED
    BY <1>4, <2>1, SameRoundsStand DEF SetAckState, VerdictsStand
<1>5. ASSUME NEW e \in ExecutionIds, NEW kind \in {"failed", "interrupted"},
             FailUnboundExecution(e, kind)
      PROVE  VerdictsStand
  BY <1>1, <1>5, DropStands DEF FailUnboundExecution, RecordExecutionFailure
<1>6. QED
  BY <1>2, <1>3, <1>4, <1>5
  DEF UncontrolledStep, MarkExecutionDispatched, MarkExecutionSucceededUncommitted,
      MarkAcknowledged, MarkAckExpired, LiveStates

LEMMA NextStands ==
  ASSUME Inv, [Next]_vars
  PROVE  [VerdictsStand]_vars
<1>1. CASE \E t \in Tokens : ContextStep(t)
  <2>1. UNCHANGED <<rounds, executions>>
    BY <1>1 DEF ContextStep, AppendUserMessage, UpdateRoomSharedConfig, WriteTopic, SetRoomRunState
  <2>2. QED
    BY <2>1, SameExecutionsStand, SameRoundsStand DEF VerdictsStand
<1>2. CASE BindingsStep
  <2>1. UNCHANGED <<rounds, executions>>
    BY <1>2 DEF BindingsStep, CreateRuntimeBinding, ActivateRuntimeBinding,
                TakeoverRuntimeBinding, Grant, MarkBindingClosed, ReleaseRuntime, BindingStep
  <2>2. QED
    BY <2>1, SameExecutionsStand, SameRoundsStand DEF VerdictsStand
<1>3. CASE UNCHANGED vars
  BY <1>3
<1>4. QED
  BY <1>1, <1>2, <1>3, RoundStepStands, BeginStepStands, EndStepStands, UncontrolledStepStands
  DEF Next

\* A late failure, a late discard, a replayed commit, an abort that lost its race
\* or a report that aborts what is left: none of them changes an execution or a
\* Round that was already over.
THEOREM VerdictsAreFinal == Spec => TerminalRowsAreFinal
BY InitInv, NextInv, NextStands, PTL DEF Spec, TerminalRowsAreFinal

-----------------------------------------------------------------------------
(* The conclusion of the Room.  commitReport closes it without looking at  *)
(* the Rounds or at the other executions: that none is open rests on the   *)
(* report having been begun over a Room without a Round, and on no Round   *)
(* being created under it since.                                           *)

ClosedInv == Inv /\ ConcludedRoomIsClosed

\* A step that leaves the verdict alone, and opens nothing in a concluded Room.
LEMMA StillClosed ==
  ASSUME ConcludedRoomIsClosed, room'.status = room.status, UNCHANGED reports,
         room.status = "concluded" => room'.activeRoundId = None /\ \A e \in ExecutionIds : ~ Live(e)'
  PROVE  ConcludedRoomIsClosed'
BY DEF ConcludedRoomIsClosed

LEMMA SameLivesStayClosed ==
  ASSUME ConcludedRoomIsClosed, UNCHANGED <<executions, reports>>, room'.status = room.status,
         room'.activeRoundId \in {room.activeRoundId, None}
  PROVE  ConcludedRoomIsClosed'
BY StillClosed DEF ConcludedRoomIsClosed, Live

LEMMA OpenStaysOpen ==
  ASSUME ConcludedRoomIsClosed, room.status # "concluded", room'.status = room.status,
         UNCHANGED reports
  PROVE  ConcludedRoomIsClosed'
BY StillClosed

LEMMA LiveIsOpen ==
  ASSUME ConcludedRoomIsClosed, NEW e \in ExecutionIds, Live(e)
  PROVE  room.status # "concluded"
BY DEF ConcludedRoomIsClosed

LEMMA ContextStepKeepsClosed ==
  ASSUME ClosedInv, NEW t \in Tokens, ContextStep(t)
  PROVE  ConcludedRoomIsClosed'
<1>1. UNCHANGED <<executions, reports>>
  BY DEF ContextStep, AppendUserMessage, UpdateRoomSharedConfig, WriteTopic, SetRoomRunState
<1>2. room'.activeRoundId = room.activeRoundId /\ room'.status = room.status
  BY DEF ClosedInv, Inv, Typed, TypeOK, RowsType, RoomRows, ContextStep, AppendUserMessage,
         UpdateRoomSharedConfig, WriteTopic, SetRoomRunState, BumpRoomContext
<1>3. QED
  BY <1>1, <1>2, SameLivesStayClosed DEF ClosedInv

LEMMA RoundStepKeepsClosed ==
  ASSUME ClosedInv, NEW t \in Tokens, RoundStep(t)
  PROVE  ConcludedRoomIsClosed'
<1>1. PICK r \in RoundIds :
        \/ \E order \in Orders : CreateRound(t, r, order)
        \/ \E to \in {"prewarming", "running"} : TransitionRound(t, r, to)
        \/ PrewarmFailed(t, r)
        \/ RetryFailedParticipant(t, r)
        \/ AbortRound(t, r)
        \/ SkipParticipant(t, r)
  BY DEF RoundStep
<1>2. room \in RoomRows /\ executions \in [ExecutionIds -> Executions]
  BY DEF ClosedInv, Inv, Typed, TypeOK, RowsType
<1>3. CASE \E order \in Orders : CreateRound(t, r, order)
  BY <1>2, <1>3, OpenStaysOpen DEF CreateRound, ClosedInv, RoomRows
<1>4. CASE AbortRound(t, r)
  <2>1. room'.activeRoundId = None /\ room'.status = room.status /\ UNCHANGED reports
    BY <1>2, <1>4 DEF AbortRound, RoomRows
  <2>2. ASSUME NEW e \in ExecutionIds, ~ Live(e)
        PROVE  ~ Live(e)'
    BY <1>2, <1>4, <2>2 DEF AbortRound, InterruptIfLive, Live, LiveStates, Executions
  <2>3. QED
    BY <2>1, <2>2, StillClosed DEF ClosedInv, ConcludedRoomIsClosed
<1>5. CASE \/ \E to \in {"prewarming", "running"} : TransitionRound(t, r, to)
           \/ PrewarmFailed(t, r) \/ RetryFailedParticipant(t, r) \/ SkipParticipant(t, r)
  BY <1>5, SameLivesStayClosed
  DEF TransitionRound, PrewarmFailed, PauseRound, RetryFailedParticipant, ResumeRound,
      SkipParticipant, ClosedInv
<1>6. QED
  BY <1>1, <1>3, <1>4, <1>5

\* A call is begun over an active Round, or is the report of a Room not concluded.
LEMMA BeginStepKeepsClosed ==
  ASSUME ClosedInv, NEW t \in Tokens, BeginStep(t)
  PROVE  ConcludedRoomIsClosed'
<1>1. PICK e \in ExecutionIds, r \in RoundIds, p \in Participants, ctx \in published :
        \/ \E kind \in {"message", "summary"} : BeginExecution(t, e, kind, r, p, ctx)
        \/ BeginFocusExecution(t, e, r, p, ctx)
        \/ BeginReportExecution(t, e, r, p, ctx)
  BY DEF BeginStep
<1>2. room \in RoomRows
  BY DEF ClosedInv, Inv, Typed, TypeOK, RowsType
<1>3. room.status # "concluded"
  BY <1>1, RoundIdsAssumption
  DEF BeginExecution, BeginFocusExecution, BeginReportExecution, SlotFree, ClosedInv,
      ConcludedRoomIsClosed
<1>4. room'.status = room.status /\ UNCHANGED reports
  BY <1>1, <1>2 DEF BeginExecution, BeginFocusExecution, BeginReportExecution, RoomRows
<1>5. QED
  BY <1>3, <1>4, OpenStaysOpen DEF ClosedInv

\* The report was the one live call, and its Room had no active Round.
LEMMA CommitReportKeepsClosed ==
  ASSUME ClosedInv, NEW t, NEW e \in ExecutionIds, CommitReport(t, e)
  PROVE  ConcludedRoomIsClosed'
<1>1. Live(e) /\ executions[e].resultKind = "report" /\ room \in RoomRows /\ Inv
  BY DEF CommitReport, Committable, Live, LiveStates, ClosedInv, Inv, Typed, TypeOK, RowsType
<1>2. CASE UNCHANGED <<room, reports>>
  BY <1>1, <1>2, LiveIsOpen, OpenStaysOpen DEF ClosedInv
<1>3. CASE ~ UNCHANGED <<room, reports>>
  <2>1. /\ Persist(e, "committed") /\ reports' = {e}
        /\ room'.status = "concluded" /\ room'.activeRoundId = room.activeRoundId
    BY <1>1, <1>3 DEF CommitReport, RoomRows
  <2>2. room'.activeRoundId = None
    BY <1>1, <2>1, LiveHasRound
  <2>3. ASSUME NEW d \in ExecutionIds
        PROVE  ~ Live(d)'
    BY <1>1, <2>1, PersistEnds DEF Inv, InStep, AtMostOneLiveExecution, Live
  <2>4. QED
    BY <2>1, <2>2, <2>3 DEF ConcludedRoomIsClosed
<1>4. QED
  BY <1>2, <1>3

LEMMA EndStepKeepsClosed ==
  ASSUME ClosedInv, NEW t \in Tokens, EndStep(t)
  PROVE  ConcludedRoomIsClosed'
<1>1. PICK e \in ExecutionIds :
        \/ CommitModelMessage(t, e)
        \/ CommitFocusMessage(t, e)
        \/ CommitSummary(t, e)
        \/ CommitReport(t, e)
        \/ DiscardExecution(t, e)
        \/ \E kind \in {"failed", "interrupted"}, pause \in BOOLEAN : FailExecution(t, e, kind, pause)
  BY DEF EndStep
<1>2. room.status # "concluded"
  BY <1>1, LiveIsOpen
  DEF ClosedInv, CommitModelMessage, CommitFocusMessage, CommitSummary, CommitReport, Committable,
      DiscardExecution, FailExecution, RecordExecutionFailure, Live, LiveStates
<1>3. CASE ~ CommitReport(t, e)
  <2>1. room \in RoomRows
    BY DEF ClosedInv, Inv, Typed, TypeOK, RowsType
  <2>2. room'.status = room.status /\ UNCHANGED reports
    BY <1>1, <1>3, <2>1
    DEF CommitModelMessage, CommitFocusMessage, CommitSummary, DiscardExecution,
        DiscardLockedExecution, FailExecution, RecordExecutionFailure, BumpRoomContext, RoomRows
  <2>3. QED
    BY <1>2, <2>2, OpenStaysOpen DEF ClosedInv
<1>4. QED
  BY <1>3, CommitReportKeepsClosed

LEMMA UncontrolledStepKeepsClosed ==
  ASSUME ClosedInv, UncontrolledStep \/ BindingsStep
  PROVE  ConcludedRoomIsClosed'
<1>1. room \in RoomRows /\ executions \in [ExecutionIds -> Executions]
  BY DEF ClosedInv, Inv, Typed, TypeOK, RowsType
<1>2. CASE BindingsStep
  BY <1>2, SameLivesStayClosed
  DEF BindingsStep, CreateRuntimeBinding, ActivateRuntimeBinding, TakeoverRuntimeBinding, Grant,
      MarkBindingClosed, ReleaseRuntime, BindingStep, ClosedInv
<1>3. ASSUME NEW topic \in Topics, RenameColdRoom(topic)
      PROVE  ConcludedRoomIsClosed'
  BY <1>1, <1>3, SameLivesStayClosed DEF RenameColdRoom, WriteTopic, BumpRoomContext, RoomRows, ClosedInv
<1>4. ASSUME NEW e \in ExecutionIds, Live(e), UNCHANGED <<room, reports>>
      PROVE  ConcludedRoomIsClosed'
  BY <1>4, LiveIsOpen, OpenStaysOpen DEF ClosedInv
<1>5. ASSUME NEW e \in ExecutionIds, NEW ack, SetAckState(e, ack)
      PROVE  ConcludedRoomIsClosed'
  <2>1. ASSUME NEW d \in ExecutionIds
        PROVE  Live(d)' <=> Live(d)
    BY <1>1, <1>5 DEF SetAckState, Live, Executions
  <2>2. QED
    BY <1>5, <2>1, StillClosed DEF SetAckState, ClosedInv, ConcludedRoomIsClosed
<1>6. QED
  BY <1>2, <1>3, <1>4, <1>5
  DEF UncontrolledStep, MarkExecutionDispatched, MarkExecutionSucceededUncommitted, SetState,
      FailUnboundExecution, RecordExecutionFailure, MarkAcknowledged, MarkAckExpired, Live, LiveStates

LEMMA InitClosed == Init => ClosedInv
<1>1. SUFFICES ASSUME Init PROVE ConcludedRoomIsClosed
  BY InitInv DEF ClosedInv
<1>2. room.status = "open" /\ reports = {}
  BY <1>1 DEF Init
<1>3. QED
  BY <1>2 DEF ConcludedRoomIsClosed

LEMMA NextClosed ==
  ASSUME ClosedInv, [Next]_vars
  PROVE  ClosedInv'
<1>1. Inv'
  BY NextInv DEF ClosedInv
<1>2. CASE UNCHANGED vars
  BY <1>1, <1>2, SameLivesStayClosed DEF vars, ClosedInv
<1>3. CASE Next
  BY <1>1, <1>3, ContextStepKeepsClosed, RoundStepKeepsClosed, BeginStepKeepsClosed,
     EndStepKeepsClosed, UncontrolledStepKeepsClosed
  DEF Next, ClosedInv
<1>4. QED
  BY <1>2, <1>3

\* A Room is concluded exactly when it has its one decision report, and then it
\* has no active Round and no model call in flight: no page, however stale its
\* copy, opens a Round or a call behind the report.
THEOREM ConcludedIsClosed == Spec => []ConcludedRoomIsClosed
BY InitClosed, NextClosed, PTL DEF Spec, ClosedInv

-----------------------------------------------------------------------------
(* A paused Round can be taken up again.  The pause names an execution that *)
(* failed; that the same slot may be dispatched again is a fact about the   *)
(* live execution, kept from the moment its begin guard held.               *)

\* The begin guard for the kind and the participant of x still holds of its Round.
Fits(round, x) ==
  /\ (x.resultKind = "focus") <=> (round.focusMessageId = None)
  /\ IF x.resultKind = "message" THEN AtCursor(round, x.participantId)
     ELSE x.participantId = Facilitator

OfRound(e) == executions[e].resultKind # "report"

LiveFits == \A e \in ExecutionIds :
              Live(e) /\ OfRound(e) => Fits(rounds[executions[e].roundId], executions[e])

\* The failure d stays on record as it was.
FailureStays(d) ==
  Failed(d) => /\ Failed(d)'
               /\ executions'[d].roundId = executions[d].roundId
               /\ executions'[d].resultKind = executions[d].resultKind
               /\ executions'[d].participantId = executions[d].participantId

\* What a paused Round r has besides its free slot.
PauseIsSound(r) ==
  LET round == rounds[r] IN
  /\ round.pausedFrom # None /\ round.pauseReason # None
  /\ round.pauseReason.executionId = None => round.pausedFrom = "prewarming"
  /\ round.pauseReason.executionId # None =>
       LET x == executions[round.pauseReason.executionId] IN
       /\ Failed(round.pauseReason.executionId) /\ x.roundId = r
       /\ x.participantId = round.pauseReason.participantId
       /\ round.pausedFrom = IF x.resultKind = "summary" THEN "summarizing" ELSE "running"
       /\ Fits(round, x)

PausesAreSound == \A r \in RoundIds : rounds[r].phase = "paused" => PauseIsSound(r)

RetryInv == Inv /\ PausesAreSound /\ LiveFits

LEMMA SoundPausesSuffice == RetryInv => PausedRoundIsRetryable
<1> SUFFICES ASSUME RetryInv PROVE PausedRoundIsRetryable
  OBVIOUS
<1>1. ASSUME NEW r \in RoundIds, rounds[r].phase = "paused"
      PROVE  rounds[r].activeExecutionId = None
  <2>1. rounds[r].activeExecutionId \in ExecutionIds \cup {None}
    BY DEF RetryInv, Inv, Typed, TypeOK, RowsType, Rounds
  <2>2. QED
    BY <1>1, <2>1, LiveHasRound, ExecutionIdsAssumption
    DEF RetryInv, Inv, InStep, LiveExecutionIsAnchored
<1>2. QED
  BY <1>1 DEF PausedRoundIsRetryable, RetryInv, PausesAreSound, PauseIsSound, Fits

\* A Round that was paused and did not move, over a failure that stays.
LEMMA PauseStays ==
  ASSUME RetryInv, NEW r \in RoundIds, rounds[r].phase = "paused", rounds'[r] = rounds[r],
         \A d \in ExecutionIds : FailureStays(d)
  PROVE  PauseIsSound(r)'
<1>1. PauseIsSound(r)
  BY DEF RetryInv, PausesAreSound
<1>2. rounds[r].pauseReason \in PauseReasons
  BY <1>1 DEF PauseIsSound, RetryInv, Inv, Typed, TypeOK, RowsType, Rounds
<1>3. rounds[r].pauseReason.executionId \in ExecutionIds \cup {None}
  BY <1>2 DEF PauseReasons
<1>4. QED
  BY <1>1, <1>3 DEF PauseIsSound, FailureStays, Fits, AtCursor

LEMMA PausesStay ==
  ASSUME RetryInv, \A d \in ExecutionIds : FailureStays(d),
         \A r \in RoundIds : rounds'[r].phase = "paused" => rounds'[r] = rounds[r]
  PROVE  PausesAreSound'
BY PauseStays DEF PausesAreSound

\* The calls in flight after the step are calls of other Rounds, as they were.
LEMMA OtherFitsStay ==
  ASSUME RetryInv, NEW r \in RoundIds, \A q \in RoundIds \ {r} : rounds'[q] = rounds[q],
         \A e \in ExecutionIds : Live(e)' /\ OfRound(e)' =>
           executions'[e] = executions[e] /\ executions[e].roundId # r
  PROVE  LiveFits'
<1>1. ASSUME NEW e \in ExecutionIds, Live(e)', OfRound(e)'
      PROVE  Fits(rounds[executions[e].roundId], executions[e])'
  <2>1. executions'[e] = executions[e] /\ executions[e].roundId # r
    BY <1>1
  <2>2. Live(e) /\ OfRound(e)
    BY <1>1, <2>1 DEF Live, OfRound
  <2>3. rounds'[executions[e].roundId] = rounds[executions[e].roundId]
    BY <2>1, <2>2, LiveHasRound DEF RetryInv
  <2>4. Fits(rounds[executions[e].roundId], executions[e])
    BY <2>2 DEF RetryInv, LiveFits
  <2>5. QED
    BY <2>1, <2>3, <2>4 DEF Fits, AtCursor
<1>2. QED
  BY <1>1 DEF LiveFits

\* A step that moves no Round and ends no call.
LEMMA StillRetryable ==
  ASSUME RetryInv, Inv', UNCHANGED rounds,
         \A e \in ExecutionIds : /\ executions'[e].roundId = executions[e].roundId
                                 /\ executions'[e].resultKind = executions[e].resultKind
                                 /\ executions'[e].participantId = executions[e].participantId
                                 /\ Live(e)' => Live(e)
                                 /\ Failed(e) => Failed(e)'
  PROVE  RetryInv'
<1>1. PausesAreSound'
  BY PausesStay DEF FailureStays
<1>2. LiveFits'
  BY DEF RetryInv, LiveFits, OfRound, Fits, AtCursor
<1>3. QED
  BY <1>1, <1>2 DEF RetryInv

LEMMA SameRowsStayRetryable ==
  ASSUME RetryInv, Inv', UNCHANGED <<rounds, executions>>
  PROVE  RetryInv'
BY StillRetryable DEF Live, Failed

\* The end of the one live call: nothing is in flight.
LEMMA EndLeavesNone ==
  ASSUME Inv, NEW e \in ExecutionIds, Live(e), executions'[e].state \notin LiveStates,
         \A d \in ExecutionIds \ {e} : executions'[d] = executions[d]
  PROVE  /\ \A d \in ExecutionIds : ~ Live(d)'
         /\ \A d \in ExecutionIds : FailureStays(d)
BY DEF Inv, InStep, AtMostOneLiveExecution, Live, LiveStates, FailureStays, Failed, FailureStates

\* A commit: the Round of the call goes on or is completed.
LEMMA CommitStaysRetryable ==
  ASSUME RetryInv, Inv', NEW e \in ExecutionIds, Live(e), executions'[e].state \notin LiveStates,
         \A d \in ExecutionIds \ {e} : executions'[d] = executions[d],
         NEW r \in RoundIds, rounds'[r].phase # "paused" \/ rounds'[r] = rounds[r],
         \A q \in RoundIds \ {r} : rounds'[q] = rounds[q]
  PROVE  RetryInv'
<1>1. /\ \A d \in ExecutionIds : ~ Live(d)'
      /\ \A d \in ExecutionIds : FailureStays(d)
  BY EndLeavesNone DEF RetryInv
<1>2. PausesAreSound'
  BY <1>1, PausesStay
<1>3. QED
  BY <1>1, <1>2 DEF RetryInv, LiveFits

\* A failure or a drop: the Round is left as it is, freed, or paused over it.
LEMMA DropStaysRetryable ==
  ASSUME RetryInv, Inv', NEW e \in ExecutionIds, Live(e), Failed(e)', NEW pause \in BOOLEAN,
         executions'[e].roundId = executions[e].roundId,
         executions'[e].resultKind = executions[e].resultKind,
         executions'[e].participantId = executions[e].participantId,
         \A d \in ExecutionIds \ {e} : executions'[d] = executions[d],
         rounds' = [rounds EXCEPT ![executions[e].roundId] = WithoutExecution(@, e, pause)]
  PROVE  RetryInv'
<1>1. rounds \in [RoundIds -> Rounds] /\ executions \in [ExecutionIds -> Executions]
  BY DEF RetryInv, Inv, Typed, TypeOK, RowsType
<1>2. PICK r \in RoundIds : r = executions[e].roundId
  BY LiveHasRound DEF RetryInv
<1>3. /\ rounds'[r] = WithoutExecution(rounds[r], e, pause)
      /\ \A q \in RoundIds \ {r} : rounds'[q] = rounds[q]
  BY <1>1, <1>2
<1>4. /\ \A d \in ExecutionIds : ~ Live(d)'
      /\ \A d \in ExecutionIds : FailureStays(d)
  BY EndLeavesNone DEF RetryInv, Failed, FailureStates, LiveStates
<1>5. CASE rounds'[r].phase # "paused" \/ rounds'[r] = rounds[r]
  BY <1>3, <1>4, <1>5, PausesStay DEF RetryInv, LiveFits
<1>6. CASE ~ (rounds'[r].phase # "paused" \/ rounds'[r] = rounds[r])
  <2>1. rounds[r].activeExecutionId = e
    BY <1>3, <1>6 DEF WithoutExecution
  <2>2. /\ OfRound(e)
        /\ rounds[r].phase = IF executions[e].resultKind = "summary" THEN "summarizing" ELSE "running"
        /\ Fits(rounds[r], executions[e])
    BY <1>2, <2>1, ExecutionIdsAssumption
    DEF RetryInv, Inv, InStep, LiveExecutionIsAnchored, LiveFits, OfRound
  <2>3. PICK reason \in PauseReasons :
          /\ reason = [participantId |-> executions[e].participantId, executionId |-> e]
          /\ rounds'[r] = Paused([rounds[r] EXCEPT !.activeExecutionId = None], reason)
    <3>1. [participantId |-> executions[e].participantId, executionId |-> e] \in PauseReasons
      BY <1>1 DEF Executions, PauseReasons
    <3>2. [rounds[r] EXCEPT !.activeExecutionId = None].phase # "paused"
      BY <1>1, <2>2 DEF Rounds
    <3>3. rounds'[r] = Paused([rounds[r] EXCEPT !.activeExecutionId = None],
                              [participantId |-> executions[e].participantId, executionId |-> e])
      BY <1>3, <1>6, <2>1, <3>2 DEF WithoutExecution
    <3>4. QED
      BY <3>1, <3>3
  <2>4. /\ rounds'[r].pausedFrom = rounds[r].phase /\ rounds'[r].pauseReason = reason
        /\ rounds'[r].focusMessageId = rounds[r].focusMessageId
        /\ rounds'[r].participantOrder = rounds[r].participantOrder
        /\ rounds'[r].nextParticipantIndex = rounds[r].nextParticipantIndex
    BY <1>1, <2>3, ZenonT(60) DEF Paused, Rounds
  <2>5. rounds'[r].pausedFrom # None /\ rounds'[r].pauseReason # None
    <3>1. rounds'[r] \in Rounds
      BY <1>1, <1>2, <1>3, WithoutExecutionIsRound DEF RetryInv, Inv, Typed, TypeOK
    <3>2. rounds[r].phase \in {"running", "summarizing"}
      BY <2>2
    <3>3. QED
      BY <2>2, <2>3, <2>4, <3>2, ReasonAssumption, PhaseAssumption DEF RoundPhases
  <2>6. PauseIsSound(r)'
    <3>1. /\ rounds'[r].pauseReason.executionId = e
          /\ rounds'[r].pauseReason.participantId = executions[e].participantId
      BY <2>3, <2>4
    <3>2. /\ Failed(e)' /\ executions'[e].roundId = r
          /\ executions'[e].resultKind = executions[e].resultKind
          /\ executions'[e].participantId = executions[e].participantId
      BY <1>2
    <3>3. Fits(rounds'[r], executions'[e])
      BY <2>2, <2>4, <3>2 DEF Fits, AtCursor
    <3>4. rounds'[r].pausedFrom = IF executions'[e].resultKind = "summary" THEN "summarizing" ELSE "running"
      BY <2>2, <2>4, <3>2
    <3>5. QED
      BY <2>5, <3>1, <3>2, <3>3, <3>4, ExecutionIdsAssumption DEF PauseIsSound
  <2>7. \A q \in RoundIds : rounds'[q].phase = "paused" => PauseIsSound(q)'
    BY <1>3, <1>4, <2>6, PauseStays
  <2>8. QED
    BY <1>4, <2>7 DEF RetryInv, PausesAreSound, LiveFits
<1>7. QED
  BY <1>5, <1>6

LEMMA RoundStepStaysRetryable ==
  ASSUME RetryInv, Inv', NEW t \in Tokens, RoundStep(t)
  PROVE  RetryInv'
<1>1. PICK r \in RoundIds :
        \/ \E order \in Orders : CreateRound(t, r, order)
        \/ \E to \in {"prewarming", "running"} : TransitionRound(t, r, to)
        \/ PrewarmFailed(t, r)
        \/ RetryFailedParticipant(t, r)
        \/ AbortRound(t, r)
        \/ SkipParticipant(t, r)
  BY DEF RoundStep
<1>2. rounds \in [RoundIds -> Rounds] /\ executions \in [ExecutionIds -> Executions]
  BY DEF RetryInv, Inv, Typed, TypeOK, RowsType
<1>3. \A q \in RoundIds \ {r} : rounds'[q] = rounds[q]
  BY <1>1, <1>2 DEF CreateRound, TransitionRound, PrewarmFailed, PauseRound,
                    RetryFailedParticipant, ResumeRound, AbortRound, SkipParticipant
<1>4. CASE AbortRound(t, r)
  <2>1. rounds'[r].phase # "paused"
    BY <1>2, <1>4 DEF AbortRound, Aborted, Rounds
  <2>2. \A d \in ExecutionIds : FailureStays(d)
    BY <1>2, <1>4 DEF AbortRound, InterruptIfLive, Live, LiveStates, FailureStays, Failed, FailureStates
  <2>3. \A e \in ExecutionIds : Live(e)' /\ OfRound(e)' =>
          executions'[e] = executions[e] /\ executions[e].roundId # r
    <3>1. ASSUME NEW e \in ExecutionIds, Live(e)', OfRound(e)'
          PROVE  executions'[e] = executions[e] /\ executions[e].roundId # r
      <4>1. executions'[e] = executions[e] /\ rounds[r].activeExecutionId # e
        BY <1>2, <1>4, <3>1, ExecutionIdsAssumption
        DEF AbortRound, InterruptIfLive, Live, LiveStates, Executions
      <4>2. Live(e) /\ executions[e].resultKind # "report"
        BY <3>1, <4>1 DEF Live, OfRound
      <4>3. QED
        BY <4>1, <4>2, LiveHasRound DEF RetryInv
    <3>2. QED
      BY <3>1
  <2>4. QED
    BY <1>3, <2>1, <2>2, <2>3, PausesStay, OtherFitsStay DEF RetryInv
<1>5. CASE ~ AbortRound(t, r)
  <2>1. UNCHANGED executions /\ rounds[r].phase \notin {"running", "summarizing"}
    BY <1>1, <1>5 DEF CreateRound, NextRound, TransitionRound, PrewarmFailed, PauseRound,
                      RetryFailedParticipant, ResumeRound, SkipParticipant
  <2>2. \A d \in ExecutionIds : FailureStays(d)
    BY <2>1 DEF FailureStays, Failed
  <2>3. \A e \in ExecutionIds : Live(e)' /\ OfRound(e)' =>
          executions'[e] = executions[e] /\ executions[e].roundId # r
    BY <2>1, LiveHasRound DEF RetryInv, Live, OfRound
  <2>4. LiveFits'
    BY <1>3, <2>3, OtherFitsStay
  <2>5. CASE rounds'[r].phase # "paused"
    BY <1>3, <2>2, <2>4, <2>5, PausesStay DEF RetryInv
  <2>6. CASE rounds'[r].phase = "paused"
    <3>1. PrewarmFailed(t, r)
      <4>1. ~ \E order \in Orders : CreateRound(t, r, order)
        BY <1>2, <2>6 DEF CreateRound, NoRound
      <4>2. ~ \E to \in {"prewarming", "running"} : TransitionRound(t, r, to)
        BY <1>2, <2>6 DEF TransitionRound, Rounds
      <4>3. ~ RetryFailedParticipant(t, r)
        BY <1>2, <2>6 DEF RetryFailedParticipant, ResumeRound, Rounds
      <4>4. ~ SkipParticipant(t, r)
        BY <1>2, <2>6 DEF SkipParticipant, Rounds
      <4>5. QED
        BY <1>1, <1>5, <4>1, <4>2, <4>3, <4>4
    <3>2. PICK reason \in PauseReasons : /\ reason.executionId = None
                                         /\ rounds'[r] = Paused(rounds[r], reason)
      BY <1>2, <3>1 DEF PrewarmFailed, PauseRound, PauseReasons
    <3>3. rounds'[r].pausedFrom = "prewarming" /\ rounds'[r].pauseReason = reason
      BY <1>2, <3>1, <3>2 DEF PrewarmFailed, Paused, Rounds
    <3>4. PauseIsSound(r)'
      BY <3>2, <3>3, ReasonAssumption, PhaseAssumption DEF PauseIsSound, RoundPhases
    <3>5. \A q \in RoundIds : rounds'[q].phase = "paused" => PauseIsSound(q)'
      BY <1>3, <2>2, <3>4, PauseStays
    <3>6. QED
      BY <2>4, <3>5 DEF RetryInv, PausesAreSound
  <2>7. QED
    BY <2>5, <2>6
<1>6. QED
  BY <1>4, <1>5

\* The new call is the one in flight, and the begin guard is what it has to fit.
LEMMA BeginStepStaysRetryable ==
  ASSUME RetryInv, Inv', NEW t \in Tokens, BeginStep(t)
  PROVE  RetryInv'
<1>1. PICK e \in ExecutionIds, r \in RoundIds, p \in Participants, ctx \in published :
        \/ \E kind \in {"message", "summary"} : BeginExecution(t, e, kind, r, p, ctx)
        \/ BeginFocusExecution(t, e, r, p, ctx)
        \/ BeginReportExecution(t, e, r, p, ctx)
  BY DEF BeginStep
<1>2. /\ rounds \in [RoundIds -> Rounds] /\ executions \in [ExecutionIds -> Executions]
      /\ room \in RoomRows
  BY DEF RetryInv, Inv, Typed, TypeOK, RowsType
<1>3. PICK kind \in ResultKinds : AddExecution(e, kind, r, p, ctx)
  BY <1>1 DEF BeginExecution, BeginFocusExecution, BeginReportExecution, ResultKinds
<1>4. /\ executions'[e].state = "prepared" /\ executions'[e].resultKind = kind
      /\ executions'[e].roundId = r /\ executions'[e].participantId = p
      /\ executions[e].state = "none"
      /\ \A d \in ExecutionIds \ {e} : executions'[d] = executions[d]
  BY <1>2, <1>3 DEF AddExecution, NextExecution
<1>5. \A d \in ExecutionIds : FailureStays(d)
  BY <1>4 DEF FailureStays, Failed, FailureStates
<1>6. \A d \in ExecutionIds : Live(d)' => d = e
  BY <1>4 DEF Inv, InStep, AtMostOneLiveExecution, Live, LiveStates
<1>7. CASE BeginReportExecution(t, e, r, p, ctx)
  <2>1. kind = "report"
    BY <1>2, <1>4, <1>7 DEF BeginReportExecution, AddExecution
  <2>2. LiveFits'
    BY <1>4, <1>6, <2>1 DEF LiveFits, OfRound
  <2>3. \A q \in RoundIds : rounds'[q].phase = "paused" => rounds'[q] = rounds[q]
    <3>1. CASE UNCHANGED rounds
      BY <3>1
    <3>2. CASE ~ UNCHANGED rounds
      <4>1. PICK q \in RoundIds : rounds' = [rounds EXCEPT ![q] = Aborted(rounds[q])]
        BY <1>2, <1>7, <3>2 DEF BeginReportExecution, RoomRows
      <4>2. rounds'[q].phase = "aborted"
        BY <1>2, <4>1 DEF Aborted, Rounds
      <4>3. QED
        BY <1>2, <4>1, <4>2
    <3>3. QED
      BY <3>1, <3>2
  <2>4. QED
    BY <1>5, <2>2, <2>3, PausesStay DEF RetryInv
<1>8. CASE ~ BeginReportExecution(t, e, r, p, ctx)
  <2>1. Occupy(r, e) /\ rounds[r].phase \in {"running", "summarizing"}
    BY <1>1, <1>8 DEF BeginExecution, BeginFocusExecution, SlotFree
  <2>2. \A q \in RoundIds : rounds'[q].phase = "paused" => rounds'[q] = rounds[q]
    BY <1>2, <2>1 DEF Occupy, Rounds
  <2>3. /\ rounds'[r].focusMessageId = rounds[r].focusMessageId
        /\ rounds'[r].participantOrder = rounds[r].participantOrder
        /\ rounds'[r].nextParticipantIndex = rounds[r].nextParticipantIndex
    BY <1>2, <2>1 DEF Occupy, Rounds
  <2>4. /\ (kind = "focus") <=> (rounds[r].focusMessageId = None)
        /\ IF kind = "message" THEN AtCursor(rounds[r], p) ELSE p = Facilitator
    <3>1. CASE BeginFocusExecution(t, e, r, p, ctx)
      <4>1. kind = "focus"
        BY <1>2, <1>4, <3>1 DEF BeginFocusExecution, AddExecution
      <4>2. QED
        BY <3>1, <4>1 DEF BeginFocusExecution
    <3>2. ASSUME NEW k \in {"message", "summary"}, BeginExecution(t, e, k, r, p, ctx)
          PROVE  /\ (kind = "focus") <=> (rounds[r].focusMessageId = None)
                 /\ IF kind = "message" THEN AtCursor(rounds[r], p) ELSE p = Facilitator
      <4>1. kind = k
        BY <1>2, <1>4, <3>2 DEF BeginExecution, AddExecution
      <4>2. QED
        BY <3>2, <4>1 DEF BeginExecution
    <3>3. QED
      BY <1>1, <1>8, <3>1, <3>2
  <2>5. Fits(rounds[r], executions[e])'
    BY <1>4, <2>3, <2>4 DEF Fits, AtCursor
  <2>6. LiveFits'
    BY <1>4, <1>6, <2>5 DEF LiveFits
  <2>7. QED
    BY <1>5, <2>2, <2>6, PausesStay DEF RetryInv
<1>9. QED
  BY <1>7, <1>8

LEMMA DiscardStaysRetryable ==
  ASSUME RetryInv, Inv', NEW e \in ExecutionIds, Live(e), DiscardLockedExecution(e)
  PROVE  RetryInv'
<1>1. executions \in [ExecutionIds -> Executions]
  BY DEF RetryInv, Inv, Typed, TypeOK, RowsType
<1>2. /\ Failed(e)'
      /\ executions'[e].roundId = executions[e].roundId
      /\ executions'[e].resultKind = executions[e].resultKind
      /\ executions'[e].participantId = executions[e].participantId
      /\ \A d \in ExecutionIds \ {e} : executions'[d] = executions[d]
  BY <1>1 DEF DiscardLockedExecution, Persist, Failed, FailureStates, Executions
<1>3. QED
  BY <1>2, DropStaysRetryable DEF DiscardLockedExecution

LEMMA FailureStaysRetryable ==
  ASSUME RetryInv, Inv', NEW e \in ExecutionIds, NEW kind \in {"failed", "interrupted"},
         NEW pause \in BOOLEAN, RecordExecutionFailure(e, kind, pause)
  PROVE  RetryInv'
<1>1. executions \in [ExecutionIds -> Executions]
  BY DEF RetryInv, Inv, Typed, TypeOK, RowsType
<1>2. /\ Failed(e)'
      /\ executions'[e].roundId = executions[e].roundId
      /\ executions'[e].resultKind = executions[e].resultKind
      /\ executions'[e].participantId = executions[e].participantId
      /\ \A d \in ExecutionIds \ {e} : executions'[d] = executions[d]
  BY <1>1 DEF RecordExecutionFailure, Failed, FailureStates, Executions
<1>3. QED
  BY <1>2, DropStaysRetryable DEF RecordExecutionFailure

LEMMA EndStepStaysRetryable ==
  ASSUME RetryInv, Inv', NEW t \in Tokens, EndStep(t)
  PROVE  RetryInv'
<1>1. PICK e \in ExecutionIds :
        \/ CommitModelMessage(t, e)
        \/ CommitFocusMessage(t, e)
        \/ CommitSummary(t, e)
        \/ CommitReport(t, e)
        \/ DiscardExecution(t, e)
        \/ \E kind \in {"failed", "interrupted"}, pause \in BOOLEAN : FailExecution(t, e, kind, pause)
  BY DEF EndStep
<1>2. rounds \in [RoundIds -> Rounds] /\ executions \in [ExecutionIds -> Executions]
  BY DEF RetryInv, Inv, Typed, TypeOK, RowsType
<1>3. CASE DiscardExecution(t, e)
  BY <1>3, DiscardStaysRetryable DEF DiscardExecution, Live, LiveStates
<1>4. CASE \/ CommitModelMessage(t, e) \/ CommitFocusMessage(t, e)
           \/ CommitSummary(t, e) \/ CommitReport(t, e)
  <2>1. Live(e)
    BY <1>4 DEF CommitModelMessage, CommitFocusMessage, CommitSummary, CommitReport, Committable,
                Live, LiveStates
  <2>2. PICK r \in RoundIds : r = executions[e].roundId
    BY <2>1, LiveHasRound DEF RetryInv
  <2>3. CASE DiscardLockedExecution(e)
    BY <2>1, <2>3, DiscardStaysRetryable
  <2>4. CASE ~ DiscardLockedExecution(e)
    <3>1. PICK state \in {"committed", "discarded"} : Persist(e, state)
      BY <1>4, <2>4 DEF CommitModelMessage, CommitFocusMessage, CommitSummary, CommitReport
    <3>2. /\ executions'[e].state \notin LiveStates
          /\ \A d \in ExecutionIds \ {e} : executions'[d] = executions[d]
      BY <3>1, PersistEnds DEF RetryInv
    <3>3. \A q \in RoundIds \ {r} : rounds'[q] = rounds[q]
      BY <1>2, <1>4, <2>2, <2>4 DEF CommitModelMessage, CommitFocusMessage, CommitSummary, CommitReport
    <3>4. rounds'[r].phase # "paused" \/ rounds'[r] = rounds[r]
      <4>1. CASE CommitModelMessage(t, e)
        <5>1. PICK phase \in {"running", "summarizing"} :
                rounds' = [rounds EXCEPT ![r] =
                  [rounds[r] EXCEPT !.activeExecutionId = None,
                                    !.nextParticipantIndex = rounds[r].nextParticipantIndex + 1,
                                    !.phase = phase]]
          BY <2>2, <2>4, <4>1 DEF CommitModelMessage
        <5>2. QED
          BY <1>2, <5>1 DEF Rounds
      <4>2. CASE CommitFocusMessage(t, e)
        BY <1>2, <2>2, <2>4, <4>2 DEF CommitFocusMessage, IsActiveExecution, Rounds
      <4>3. CASE CommitSummary(t, e)
        BY <1>2, <2>2, <2>4, <4>3 DEF CommitSummary, Rounds
      <4>4. CASE CommitReport(t, e)
        BY <4>4 DEF CommitReport
      <4>5. QED
        BY <1>4, <4>1, <4>2, <4>3, <4>4
    <3>5. QED
      BY <2>1, <3>2, <3>3, <3>4, CommitStaysRetryable
  <2>5. QED
    BY <2>3, <2>4
<1>5. QED
  BY <1>1, <1>3, <1>4, FailureStaysRetryable DEF FailExecution

LEMMA UncontrolledStepStaysRetryable ==
  ASSUME RetryInv, Inv', UncontrolledStep
  PROVE  RetryInv'
<1>1. executions \in [ExecutionIds -> Executions]
  BY DEF RetryInv, Inv, Typed, TypeOK, RowsType
<1>2. ASSUME NEW topic \in Topics, RenameColdRoom(topic)
      PROVE  RetryInv'
  BY <1>2, SameRowsStayRetryable DEF RenameColdRoom, WriteTopic
<1>3. ASSUME NEW e \in ExecutionIds, NEW from \in LiveStates, NEW to \in LiveStates,
             SetState(e, from, to)
      PROVE  RetryInv'
  BY <1>1, <1>3, StillRetryable DEF SetState, Executions, Live, Failed, LiveStates, FailureStates
<1>4. ASSUME NEW e \in ExecutionIds, NEW ack, SetAckState(e, ack)
      PROVE  RetryInv'
  BY <1>1, <1>4, StillRetryable DEF SetAckState, Executions, Live, Failed
<1>5. QED
  BY <1>2, <1>3, <1>4, FailureStaysRetryable
  DEF UncontrolledStep, MarkExecutionDispatched, MarkExecutionSucceededUncommitted,
      FailUnboundExecution, MarkAcknowledged, MarkAckExpired, LiveStates

LEMMA InitRetryable == Init => RetryInv
<1>1. SUFFICES ASSUME Init PROVE PausesAreSound /\ LiveFits
  BY InitInv DEF RetryInv
<1>2. /\ \A r \in RoundIds : rounds[r].phase = "none"
      /\ \A e \in ExecutionIds : executions[e].state = "none"
  BY <1>1 DEF Init, NoRound
<1>3. QED
  BY <1>2 DEF PausesAreSound, LiveFits, Live, LiveStates

LEMMA NextRetryable ==
  ASSUME RetryInv, [Next]_vars
  PROVE  RetryInv'
<1>1. Inv'
  BY NextInv DEF RetryInv
<1>2. CASE UNCHANGED <<rounds, executions>>
  BY <1>1, <1>2, SameRowsStayRetryable
<1>3. CASE BindingsStep \/ \E t \in Tokens : ContextStep(t)
  BY <1>2, <1>3
  DEF BindingsStep, CreateRuntimeBinding, ActivateRuntimeBinding, TakeoverRuntimeBinding, Grant,
      MarkBindingClosed, ReleaseRuntime, BindingStep, ContextStep, AppendUserMessage,
      UpdateRoomSharedConfig, WriteTopic, SetRoomRunState
<1>4. QED
  BY <1>1, <1>2, <1>3, RoundStepStaysRetryable, BeginStepStaysRetryable, EndStepStaysRetryable,
     UncontrolledStepStaysRetryable DEF Next, vars

\* A Round paused over a failed call can be resumed and the same call begun again:
\* nothing that happens while it waits moves its cursor, fills its slot or loses
\* the failure the pause names.
THEOREM PausesAreRetryable == Spec => []PausedRoundIsRetryable
BY InitRetryable, NextRetryable, SoundPausesSuffice, PTL DEF Spec

-----------------------------------------------------------------------------
(* Commits are serial.  A commit checks its frozen context against the     *)
(* Room's; that the context of an earlier commit lies strictly behind it    *)
(* also rests on the order of creation, on the digest being current and on  *)
(* nothing being committed after the report, which moves no revision.       *)

Begun(e) == executions[e].state # "none"

\* Executions are begun in the order of their ids, and the one in flight is the last.
InOrder ==
  \A d, e \in ExecutionIds :
    /\ d < e /\ Begun(e) => Begun(d)
    /\ Live(d) /\ Begun(e) => e <= d

\* An answer in the transcript was asked for over an older context than the Room's.
Behind ==
  \A d \in ExecutionIds :
    Committed(d) /\ d \notin reports => executions[d].context.revision < room.contextRevision

SerialInv == ClosedInv /\ ContextInv /\ LandedInv /\ InOrder /\ Behind /\ SerialContext

\* The step commits e: an item of the transcript, or the report.
Commits(e) ==
  /\ Live(e) /\ Committed(e)' /\ FreshContext(e)
  /\ executions'[e].context = executions[e].context
  /\ \A d \in ExecutionIds \ {e} : executions'[d] = executions[d]
  /\ \/ /\ \E item \in Items : item.sourceExecutionId = e /\ projection' = Append(projection, item)
        /\ room'.contextRevision = room.contextRevision + 1
        /\ UNCHANGED reports
     \/ /\ UNCHANGED projection /\ e \in reports'
        /\ room'.contextRevision = room.contextRevision

\* The step commits nothing.
Quiet ==
  /\ \A e \in ExecutionIds : Committed(e)' => Committed(e)
  /\ UNCHANGED reports
  /\ UNCHANGED projection \/ \E item \in Items : /\ item.sourceExecutionId = None
                                                 /\ projection' = Append(projection, item)

LEMMA EndStepCommits ==
  ASSUME Inv, NEW t \in Tokens, EndStep(t)
  PROVE  Quiet \/ \E e \in ExecutionIds : Commits(e)
<1>1. PICK e \in ExecutionIds :
        \/ CommitModelMessage(t, e)
        \/ CommitFocusMessage(t, e)
        \/ CommitSummary(t, e)
        \/ CommitReport(t, e)
        \/ DiscardExecution(t, e)
        \/ \E kind \in {"failed", "interrupted"}, pause \in BOOLEAN : FailExecution(t, e, kind, pause)
  BY DEF EndStep
<1>2. room \in RoomRows /\ executions \in [ExecutionIds -> Executions]
  BY DEF Inv, Typed, TypeOK, RowsType
<1>3. CASE DiscardLockedExecution(e)
  BY <1>2, <1>3 DEF DiscardLockedExecution, Persist, Quiet, Committed, Executions
<1>4. ASSUME NEW kind \in {"failed", "interrupted"}, NEW pause \in BOOLEAN, FailExecution(t, e, kind, pause)
      PROVE  Quiet
  BY <1>2, <1>4 DEF FailExecution, RecordExecutionFailure, Quiet, Committed
<1>5. CASE Persist(e, "committed")
  <2>1. /\ Committed(e)' /\ executions'[e].context = executions[e].context
        /\ \A d \in ExecutionIds \ {e} : executions'[d] = executions[d]
    BY <1>2, <1>5 DEF Persist, Committed, Executions
  <2>2. executions[e].state # "discarded" /\ executions'[e].state = "committed"
    BY <1>1, <1>2, <2>1
    DEF Committed, CommitModelMessage, CommitFocusMessage, CommitSummary, CommitReport, Committable,
        DiscardExecution, FailExecution, RecordExecutionFailure, Live, LiveStates
  <2>3. CASE CommitReport(t, e)
    <3>1. Live(e) /\ FreshContext(e) /\ UNCHANGED projection /\ e \in reports'
      BY <1>2, <2>2, <2>3 DEF CommitReport, Committable, Persist, Live, LiveStates, Executions
    <3>2. room'.contextRevision = room.contextRevision
      BY <1>2, <2>3 DEF CommitReport, RoomRows
    <3>3. QED
      BY <2>1, <3>1, <3>2 DEF Commits
  <2>4. CASE CommitModelMessage(t, e) \/ CommitFocusMessage(t, e) \/ CommitSummary(t, e)
    <3>1. /\ Live(e) /\ FreshContext(e) /\ UNCHANGED reports
          /\ \E role \in {"participant", "summary"} : AppendItem(ItemOf(e, role))
          /\ LET row == BumpRoomContext(room, room.topic, projection')
             IN  room' = row \/ room' = [row EXCEPT !.activeRoundId = None, !.runState = "idle"]
      <4>1. ~ DiscardLockedExecution(e)
        BY <1>2, <2>2, ZenonT(60) DEF DiscardLockedExecution, Persist, Executions
      <4>2. QED
        BY <2>4, <4>1 DEF CommitModelMessage, CommitFocusMessage, CommitSummary, Committable, Live, LiveStates
    <3>2. room'.contextRevision = room.contextRevision + 1
      BY <1>2, <3>1 DEF BumpRoomContext, RoomRows
    <3>3. \E item \in Items : item.sourceExecutionId = e /\ projection' = Append(projection, item)
      BY <1>2, <3>1, LiveHasRound DEF AppendItem, ItemOf, Items, Executions
    <3>4. QED
      BY <2>1, <3>1, <3>2, <3>3 DEF Commits
  <2>5. CASE DiscardExecution(t, e)
    BY <1>3, <2>5 DEF DiscardExecution
  <2>6. QED
    BY <1>1, <1>4, <2>3, <2>4, <2>5
<1>6. CASE CommitReport(t, e) /\ ~ Persist(e, "committed")
  BY <1>2, <1>6 DEF CommitReport, Persist, Quiet, Committed
<1>7. QED
  BY <1>1, <1>3, <1>4, <1>5, <1>6
  DEF CommitModelMessage, CommitFocusMessage, CommitSummary, DiscardExecution

LEMMA OtherStepsAreQuiet ==
  ASSUME Inv, \/ UncontrolledStep \/ BindingsStep
              \/ \E t \in Tokens : ContextStep(t) \/ RoundStep(t) \/ BeginStep(t)
  PROVE  Quiet
<1>1. executions \in [ExecutionIds -> Executions]
  BY DEF Inv, Typed, TypeOK, RowsType
<1>2. CASE UNCHANGED <<executions, reports, projection>>
  BY <1>2 DEF Quiet, Committed
<1>3. CASE BindingsStep
  BY <1>2, <1>3
  DEF BindingsStep, CreateRuntimeBinding, ActivateRuntimeBinding, TakeoverRuntimeBinding, Grant,
      MarkBindingClosed, ReleaseRuntime, BindingStep
<1>4. ASSUME NEW t \in Tokens, ContextStep(t)
      PROVE  Quiet
  <2>1. ASSUME NEW r \in RoundIds, AppendUserMessage(t, r)
        PROVE  Quiet
    BY <2>1 DEF AppendUserMessage, AppendItem, Items, Quiet, Committed
  <2>2. QED
    BY <1>2, <1>4, <2>1 DEF ContextStep, UpdateRoomSharedConfig, WriteTopic, SetRoomRunState
<1>5. ASSUME NEW t \in Tokens, RoundStep(t)
      PROVE  Quiet
  <2>1. UNCHANGED <<reports, projection>>
    BY <1>5 DEF RoundStep, CreateRound, TransitionRound, PrewarmFailed, PauseRound,
                RetryFailedParticipant, ResumeRound, AbortRound, SkipParticipant
  <2>2. UNCHANGED executions \/ \E r \in RoundIds : AbortRound(t, r)
    BY <1>5 DEF RoundStep, CreateRound, TransitionRound, PrewarmFailed, PauseRound,
                RetryFailedParticipant, ResumeRound, SkipParticipant
  <2>3. \A e \in ExecutionIds : Committed(e)' => Committed(e)
    <3>1. CASE UNCHANGED executions
      BY <3>1 DEF Committed
    <3>2. ASSUME NEW r \in RoundIds, AbortRound(t, r), NEW e \in ExecutionIds, Committed(e)'
          PROVE  Committed(e)
      BY <1>1, <3>2 DEF AbortRound, InterruptIfLive, Committed, Executions
    <3>3. QED
      BY <2>2, <3>1, <3>2
  <2>4. QED
    BY <2>1, <2>3 DEF Quiet
<1>6. ASSUME NEW t \in Tokens, BeginStep(t)
      PROVE  Quiet
  <2>1. PICK e \in ExecutionIds, r \in RoundIds, p \in Participants, ctx \in published :
          \/ \E kind \in {"message", "summary"} : BeginExecution(t, e, kind, r, p, ctx)
          \/ BeginFocusExecution(t, e, r, p, ctx)
          \/ BeginReportExecution(t, e, r, p, ctx)
    BY <1>6 DEF BeginStep
  <2>2. PICK kind : AddExecution(e, kind, r, p, ctx)
    BY <2>1 DEF BeginExecution, BeginFocusExecution, BeginReportExecution
  <2>3. UNCHANGED <<reports, projection>>
    BY <2>1 DEF BeginExecution, BeginFocusExecution, BeginReportExecution
  <2>4. QED
    BY <1>1, <2>2, <2>3 DEF AddExecution, Quiet, Committed
<1>7. CASE UncontrolledStep
  <2>1. UNCHANGED <<reports, projection>>
    BY <1>7 DEF UncontrolledStep, RenameColdRoom, WriteTopic, MarkExecutionDispatched,
                MarkExecutionSucceededUncommitted, SetState, FailUnboundExecution,
                RecordExecutionFailure, MarkAcknowledged, MarkAckExpired, SetAckState
  <2>2. \A e \in ExecutionIds : Committed(e)' => Committed(e)
    <3>1. ASSUME NEW d \in ExecutionIds, NEW from \in LiveStates, NEW to \in LiveStates,
                 SetState(d, from, to)
          PROVE  \A e \in ExecutionIds : Committed(e)' => Committed(e)
      BY <1>1, <3>1 DEF SetState, Committed, LiveStates, Executions
    <3>2. ASSUME NEW d \in ExecutionIds, NEW ack, SetAckState(d, ack)
          PROVE  \A e \in ExecutionIds : Committed(e)' => Committed(e)
      BY <1>1, <3>2 DEF SetAckState, Committed, Executions
    <3>3. ASSUME NEW d \in ExecutionIds, NEW kind \in {"failed", "interrupted"},
                 FailUnboundExecution(d, kind)
          PROVE  \A e \in ExecutionIds : Committed(e)' => Committed(e)
      BY <1>1, <3>3 DEF FailUnboundExecution, RecordExecutionFailure, Committed, Executions
    <3>4. QED
      BY <1>7, <3>1, <3>2, <3>3
      DEF UncontrolledStep, RenameColdRoom, WriteTopic, MarkExecutionDispatched,
          MarkExecutionSucceededUncommitted, MarkAcknowledged, MarkAckExpired, LiveStates, Committed
  <2>3. QED
    BY <2>1, <2>2 DEF Quiet
<1>8. QED
  BY <1>3, <1>4, <1>5, <1>6, <1>7

-----------------------------------------------------------------------------
(* The order of creation.                                                  *)

\* No execution is begun, and none comes to life.
LEMMA OrderStays ==
  ASSUME InOrder, \A e \in ExecutionIds : (Begun(e)' <=> Begun(e)) /\ (Live(e)' => Live(e))
  PROVE  InOrder'
BY DEF InOrder

LEMMA BeginStepInOrder ==
  ASSUME Inv, Inv', InOrder, NEW t \in Tokens, BeginStep(t)
  PROVE  InOrder'
<1>1. PICK e \in ExecutionIds, r \in RoundIds, p \in Participants, ctx \in published :
        \/ \E kind \in {"message", "summary"} : BeginExecution(t, e, kind, r, p, ctx)
        \/ BeginFocusExecution(t, e, r, p, ctx)
        \/ BeginReportExecution(t, e, r, p, ctx)
  BY DEF BeginStep
<1>2. PICK kind : AddExecution(e, kind, r, p, ctx)
  BY <1>1 DEF BeginExecution, BeginFocusExecution, BeginReportExecution
<1>3. /\ ~ Begun(e) /\ \A x \in ExecutionIds : x < e => Begun(x)
      /\ Begun(e)' /\ Live(e)'
      /\ \A d \in ExecutionIds \ {e} : executions'[d] = executions[d]
  BY <1>2 DEF AddExecution, NextExecution, Begun, Live, LiveStates, Inv, Typed, TypeOK, RowsType
<1>4. \A d \in ExecutionIds : Begun(d)' <=> (d = e \/ Begun(d))
  BY <1>3 DEF Begun
<1>5. \A d \in ExecutionIds : Live(d)' => d = e
  BY <1>3 DEF Inv, InStep, AtMostOneLiveExecution
<1>6. ASSUME NEW d \in ExecutionIds, Begun(d)
      PROVE  d < e
  <2>1. d \in Nat /\ e \in Nat
    BY ExecutionIdsAssumption
  <2>2. d # e /\ ~ (e < d)
    BY <1>3, <1>6 DEF InOrder
  <2>3. QED
    BY <2>1, <2>2
<1>7. ASSUME NEW c \in ExecutionIds, NEW d \in ExecutionIds
      PROVE  /\ c < d /\ Begun(d)' => Begun(c)'
             /\ Live(c)' /\ Begun(d)' => d <= c
  <2>1. c \in Nat /\ d \in Nat /\ e \in Nat
    BY ExecutionIdsAssumption
  <2>2. c < d /\ Begun(d)' => Begun(c)'
    BY <1>3, <1>4, <2>1 DEF InOrder
  <2>3. Live(c)' /\ Begun(d)' => d <= c
    BY <1>4, <1>5, <1>6, <2>1
  <2>4. QED
    BY <2>2, <2>3
<1>8. QED
  BY <1>7 DEF InOrder

LEMMA NextInOrder ==
  ASSUME Inv, Inv', InOrder, Next
  PROVE  InOrder'
<1>1. executions \in [ExecutionIds -> Executions]
  BY DEF Inv, Typed, TypeOK, RowsType
<1>2. CASE UNCHANGED executions
  BY <1>2, OrderStays DEF Begun, Live
<1>3. CASE BindingsStep \/ \E t \in Tokens : ContextStep(t)
  BY <1>2, <1>3
  DEF BindingsStep, CreateRuntimeBinding, ActivateRuntimeBinding, TakeoverRuntimeBinding, Grant,
      MarkBindingClosed, ReleaseRuntime, BindingStep, ContextStep, AppendUserMessage,
      UpdateRoomSharedConfig, WriteTopic, SetRoomRunState
<1>4. ASSUME NEW e \in ExecutionIds, Begun(e)' <=> Begun(e), Live(e)' => Live(e),
             \A d \in ExecutionIds \ {e} : executions'[d] = executions[d]
      PROVE  InOrder'
  BY <1>4, OrderStays DEF Begun, Live
<1>5. ASSUME NEW t \in Tokens, RoundStep(t)
      PROVE  InOrder'
  <2>1. UNCHANGED executions \/ \E r \in RoundIds : AbortRound(t, r)
    BY <1>5 DEF RoundStep, CreateRound, TransitionRound, PrewarmFailed, PauseRound,
                RetryFailedParticipant, ResumeRound, SkipParticipant
  <2>2. ASSUME NEW r \in RoundIds, AbortRound(t, r)
        PROVE  InOrder'
    BY <1>1, <2>2, OrderStays DEF AbortRound, InterruptIfLive, Begun, Live, LiveStates, Executions
  <2>3. QED
    BY <1>2, <2>1, <2>2
<1>6. ASSUME NEW e \in ExecutionIds, Live(e), NEW state \in {"committed"} \cup FailureStates,
             executions'[e].state = state,
             \A d \in ExecutionIds \ {e} : executions'[d] = executions[d]
      PROVE  InOrder'
  BY <1>4, <1>6 DEF Begun, Live, LiveStates, FailureStates
<1>7. ASSUME NEW e \in ExecutionIds, NEW state \in {"committed", "discarded"}, Live(e), Persist(e, state)
      PROVE  InOrder'
  BY <1>1, <1>6, <1>7 DEF Persist, Executions, FailureStates
<1>8. ASSUME NEW e \in ExecutionIds, NEW kind \in {"failed", "interrupted"}, NEW pause,
             RecordExecutionFailure(e, kind, pause)
      PROVE  InOrder'
  BY <1>1, <1>6, <1>8 DEF RecordExecutionFailure, Executions, FailureStates
<1>9. ASSUME NEW t \in Tokens, EndStep(t)
      PROVE  InOrder'
  <2>1. \/ \E e \in ExecutionIds : Live(e) /\ (Persist(e, "committed") \/ Persist(e, "discarded"))
        \/ \E e \in ExecutionIds, kind \in {"failed", "interrupted"}, pause \in BOOLEAN :
             RecordExecutionFailure(e, kind, pause)
    BY <1>9 DEF EndStep, CommitModelMessage, CommitFocusMessage, CommitSummary, CommitReport,
                Committable, DiscardExecution, DiscardLockedExecution, FailExecution, Live, LiveStates
  <2>2. QED
    BY <1>7, <1>8, <2>1
<1>10. CASE UncontrolledStep
  <2>1. ASSUME NEW e \in ExecutionIds, NEW from \in LiveStates, NEW to \in LiveStates,
               SetState(e, from, to)
        PROVE  InOrder'
    BY <1>1, <1>4, <2>1 DEF SetState, Begun, Live, LiveStates, Executions
  <2>2. ASSUME NEW e \in ExecutionIds, NEW ack, SetAckState(e, ack)
        PROVE  InOrder'
    BY <1>1, <1>4, <2>2 DEF SetAckState, Begun, Live, Executions
  <2>3. QED
    BY <1>2, <1>8, <1>10, <2>1, <2>2
    DEF UncontrolledStep, RenameColdRoom, WriteTopic, MarkExecutionDispatched,
        MarkExecutionSucceededUncommitted, FailUnboundExecution, MarkAcknowledged, MarkAckExpired,
        LiveStates
<1>11. QED
  BY <1>3, <1>5, <1>9, <1>10, BeginStepInOrder DEF Next

-----------------------------------------------------------------------------
(* The induction.                                                          *)

\* What a later step finds of a committed execution, and of the place of its entity.
Kept(e) == Committed(e) => Committed(e)' /\ executions'[e].context = executions[e].context

LEMMA CommittedIsKept ==
  ASSUME SerialInv, Typed', VerdictsStand, NEW e \in ExecutionIds
  PROVE  Kept(e)
<1>1. executions[e] \in Executions /\ executions'[e] \in Executions
  BY DEF SerialInv, ClosedInv, Inv, Typed, TypeOK, RowsType
<1>2. CASE Committed(e)
  <2>1. [executions'[e] EXCEPT !.ackState = None] = [executions[e] EXCEPT !.ackState = None]
    BY <1>2 DEF VerdictsStand, ExecutionStands, Committed
  <2>2. /\ [executions'[e] EXCEPT !.ackState = None].state = executions'[e].state
        /\ [executions'[e] EXCEPT !.ackState = None].context = executions'[e].context
        /\ [executions[e] EXCEPT !.ackState = None].state = executions[e].state
        /\ [executions[e] EXCEPT !.ackState = None].context = executions[e].context
    BY <1>1 DEF Executions
  <2>3. QED
    BY <1>2, <2>1, <2>2 DEF Kept, Committed
<1>3. QED
  BY <1>2 DEF Kept

LEMMA ItemContextStays ==
  ASSUME SerialInv, Typed', VerdictsStand, NEW i \in DOMAIN projection, IsModelItem(i),
         projection'[i] = projection[i]
  PROVE  Source(i)'.context.digest.items = i - 1
<1>1. /\ projection[i].sourceExecutionId \in ExecutionIds
      /\ Committed(projection[i].sourceExecutionId)
  BY ItemsAreCommitted DEF SerialInv
<1>2. Source(i)'.context = Source(i).context
  BY <1>1, CommittedIsKept DEF Kept, Source
<1>3. QED
  BY <1>2 DEF SerialInv, SerialContext

LEMMA QuietStaysSerial ==
  ASSUME SerialInv, Typed', VerdictsStand, ContextMoves, Quiet
  PROVE  SerialContext' /\ Behind'
<1>1. ASSUME NEW e \in ExecutionIds, Committed(e)'
      PROVE  Committed(e) /\ executions'[e].context = executions[e].context
  BY <1>1, CommittedIsKept DEF Quiet, Kept
<1>2. Behind'
  <2>1. room.contextRevision \in Nat /\ room'.contextRevision \in Nat
    BY DEF SerialInv, ClosedInv, Inv, Typed, TypeOK, RowsType, RoomRows
  <2>2. room'.contextRevision >= room.contextRevision
    BY <2>1 DEF ContextMoves
  <2>3. ASSUME NEW d \in ExecutionIds, Committed(d)', d \notin reports'
        PROVE  executions'[d].context.revision < room'.contextRevision
    <3>1. executions[d].context.revision < room.contextRevision
      BY <1>1, <2>3 DEF Quiet, SerialInv, Behind
    <3>2. executions[d].context.revision \in Nat
      BY DEF SerialInv, ClosedInv, Inv, Typed, TypeOK, RowsType, Executions, Contexts
    <3>3. QED
      BY <1>1, <2>1, <2>2, <2>3, <3>1, <3>2
  <2>4. QED
    BY <2>3 DEF Behind
<1>3. ASSUME NEW i \in DOMAIN projection', IsModelItem(i)'
      PROVE  Source(i)'.context.digest.items = i - 1
  <2>1. projection \in Seq(Items)
    BY DEF SerialInv, LandedInv, Typed, TypeOK, EntitiesType
  <2>2. i \in DOMAIN projection /\ projection'[i] = projection[i]
    BY <1>3, <2>1 DEF Quiet, IsModelItem
  <2>3. QED
    BY <1>3, <2>2, ItemContextStays DEF IsModelItem
<1>4. \A d, e \in ExecutionIds : Committed(d)' /\ Committed(e)' /\ d < e =>
        executions'[d].context.revision < executions'[e].context.revision
  BY <1>1 DEF SerialInv, SerialContext
<1>5. QED
  BY <1>2, <1>3, <1>4 DEF SerialContext

LEMMA CommitStaysSerial ==
  ASSUME SerialInv, Typed', VerdictsStand, NEW e \in ExecutionIds, Commits(e)
  PROVE  SerialContext' /\ Behind'
<1>1. /\ executions[e].context.revision = room.contextRevision
      /\ executions[e].context.digest.items = Len(projection)
      /\ executions'[e].context = executions[e].context
      /\ room.contextRevision \in Nat
  BY DEF Commits, FreshContext, SerialInv, ContextInv, DigestIsCurrent, ComputeContextDigest,
         Typed, TypeOK, RowsType, RoomRows
<1>2. reports = {}
  <2>1. room.status = "open"
    BY DEF SerialInv, ClosedInv, ConcludedRoomIsClosed, Commits, Inv, Typed, TypeOK, RowsType, RoomRows
  <2>2. QED
    BY <2>1 DEF SerialInv, ClosedInv, ConcludedRoomIsClosed
<1>3. ASSUME NEW d \in ExecutionIds, d # e, Committed(d)'
      PROVE  /\ Committed(d) /\ executions'[d] = executions[d]
             /\ d < e /\ executions[d].context.revision < room.contextRevision
  <2>1. Committed(d) /\ executions'[d] = executions[d]
    BY <1>3 DEF Commits, Committed
  <2>2. executions[d].context.revision < room.contextRevision
    BY <1>2, <2>1 DEF SerialInv, Behind
  <2>3. d <= e /\ d \in Nat /\ e \in Nat
    BY <2>1, ExecutionIdsAssumption DEF SerialInv, InOrder, Begun, Committed, Commits
  <2>4. QED
    BY <1>3, <2>1, <2>2, <2>3
<1>4. \A c, d \in ExecutionIds : Committed(c)' /\ Committed(d)' /\ c < d =>
        executions'[c].context.revision < executions'[d].context.revision
  <2>1. ASSUME NEW c \in ExecutionIds, NEW d \in ExecutionIds, Committed(c)', Committed(d)', c < d
        PROVE  executions'[c].context.revision < executions'[d].context.revision
    <3>1. CASE c # e /\ d # e
      BY <1>3, <2>1, <3>1 DEF SerialInv, SerialContext
    <3>2. CASE d = e
      <4>1. c # e
        BY <2>1, <3>2, ExecutionIdsAssumption
      <4>2. QED
        BY <1>1, <1>3, <2>1, <3>2, <4>1
    <3>3. CASE c = e /\ d # e
      <4>1. d < e /\ d \in Nat /\ e \in Nat
        BY <1>3, <2>1, <3>3, ExecutionIdsAssumption
      <4>2. QED
        BY <2>1, <3>3, <4>1
    <3>4. QED
      BY <3>1, <3>2, <3>3
  <2>2. QED
    BY <2>1
<1>5. CASE /\ UNCHANGED projection /\ e \in reports'
           /\ room'.contextRevision = room.contextRevision
  <2>1. \A i \in DOMAIN projection' : IsModelItem(i)' => Source(i)'.context.digest.items = i - 1
    BY <1>5, ItemContextStays DEF IsModelItem
  <2>2. Behind'
    <3>1. ASSUME NEW d \in ExecutionIds, Committed(d)', d \notin reports'
          PROVE  executions'[d].context.revision < room'.contextRevision
      <4>1. d # e
        BY <1>5, <3>1
      <4>2. QED
        BY <1>3, <1>5, <3>1, <4>1
    <3>2. QED
      BY <3>1 DEF Behind
  <2>3. QED
    BY <1>4, <2>1, <2>2 DEF SerialContext
<1>6. ASSUME NEW item \in Items, item.sourceExecutionId = e, projection' = Append(projection, item),
             room'.contextRevision = room.contextRevision + 1
      PROVE  SerialContext' /\ Behind'
  <2>1. /\ projection \in Seq(Items) /\ Len(projection) \in Nat
        /\ DOMAIN projection = 1 .. Len(projection)
        /\ DOMAIN projection' = 1 .. Len(projection) + 1
        /\ projection'[Len(projection) + 1] = item
        /\ \A i \in 1 .. Len(projection) : projection'[i] = projection[i]
    BY <1>6 DEF SerialInv, LandedInv, Typed, TypeOK, EntitiesType
  <2>2. ASSUME NEW i \in DOMAIN projection', IsModelItem(i)'
        PROVE  Source(i)'.context.digest.items = i - 1
    <3>1. CASE i = Len(projection) + 1
      BY <1>1, <1>6, <2>1, <3>1 DEF Source
    <3>2. CASE i # Len(projection) + 1
      <4>1. i \in DOMAIN projection /\ projection'[i] = projection[i]
        BY <2>1, <3>2
      <4>2. QED
        BY <2>2, <4>1, ItemContextStays DEF IsModelItem
    <3>3. QED
      BY <3>1, <3>2
  <2>3. ASSUME NEW d \in ExecutionIds, Committed(d)'
        PROVE  executions'[d].context.revision < room'.contextRevision
    <3>1. CASE d = e
      BY <1>1, <1>6, <3>1
    <3>2. CASE d # e
      <4>1. executions[d].context.revision \in Nat
        BY DEF SerialInv, ClosedInv, Inv, Typed, TypeOK, RowsType, Executions, Contexts
      <4>2. QED
        BY <1>1, <1>3, <1>6, <2>3, <3>2, <4>1
    <3>3. QED
      BY <3>1, <3>2
  <2>4. QED
    BY <1>4, <2>2, <2>3 DEF SerialContext, Behind
<1>7. QED
  BY <1>5, <1>6 DEF Commits

LEMMA InitSerial == Init => SerialInv
<1>1. SUFFICES ASSUME Init PROVE InOrder /\ Behind /\ SerialContext
  BY InitClosed, InitContext, InitLanded DEF SerialInv
<1>2. projection = <<>> /\ \A e \in ExecutionIds : ~ Begun(e) /\ ~ Live(e) /\ ~ Committed(e)
  BY <1>1 DEF Init, Begun, Live, LiveStates, Committed
<1>3. DOMAIN projection = {}
  BY <1>2
<1>4. QED
  BY <1>2, <1>3 DEF InOrder, Behind, SerialContext

LEMMA NextSerial ==
  ASSUME SerialInv, [Next]_vars
  PROVE  SerialInv'
<1>1. ClosedInv' /\ ContextInv' /\ LandedInv'
  BY NextClosed, NextContext, NextLanded DEF SerialInv
<1>2. CASE UNCHANGED vars
  BY <1>1, <1>2 DEF vars, SerialInv, InOrder, Begun, Live, Behind, SerialContext, Committed,
                    IsModelItem, Source
<1>3. CASE Next /\ ~ UNCHANGED vars
  <2>1. Inv /\ Inv' /\ Typed'
    BY <1>1 DEF SerialInv, ClosedInv, Inv
  <2>2. InOrder'
    BY <1>3, <2>1, NextInOrder DEF SerialInv
  <2>3. VerdictsStand /\ ContextMoves
    BY <1>3, <2>1, NextStands, NextContext DEF SerialInv
  <2>4. Quiet \/ \E e \in ExecutionIds : Commits(e)
    BY <1>3, <2>1, EndStepCommits, OtherStepsAreQuiet DEF Next
  <2>5. QED
    BY <1>1, <2>1, <2>2, <2>3, <2>4, QuietStaysSerial, CommitStaysSerial DEF SerialInv
<1>4. QED
  BY <1>2, <1>3

\* The transcript is serial for any number of pages, Rounds and user writes: every
\* committed answer was asked for over the whole of what was committed before it,
\* and stands right behind the context it was given.
THEOREM CommitsAreSerial == Spec => []SerialContext
BY InitSerial, NextSerial, PTL DEF Spec, SerialInv

-----------------------------------------------------------------------------
(* What the cursor passed.  A commit moves it over its own participant, a  *)
(* skip over one that failed: the pause it takes up names the failure, for *)
(* the participant at the cursor.                                          *)

\* No participant speaks twice in the order of a Round.
OrdersAreSets ==
  \A r \in RoundIds : LET order == rounds[r].participantOrder IN
    \A i, j \in DOMAIN order : order[i] = order[j] => i = j

\* The Round an execution was begun for has been created.
BegunHasRoundRow == \A e \in ExecutionIds : Begun(e) => rounds[executions[e].roundId].phase # "none"

AccountInv == RetryInv /\ PassedSlotsAccounted /\ OrdersAreSets /\ BegunHasRoundRow

SameScript(r) ==
  /\ rounds'[r].participantOrder = rounds[r].participantOrder
  /\ rounds'[r].nextParticipantIndex = rounds[r].nextParticipantIndex
  /\ rounds[r].phase # "none" => rounds'[r].phase # "none"

SameAsked(e) == /\ executions'[e].roundId = executions[e].roundId
                /\ executions'[e].resultKind = executions[e].resultKind
                /\ executions'[e].participantId = executions[e].participantId

Decided(e) == Committed(e) \/ Failed(e)

LEMMA EndedIsKept ==
  ASSUME Inv, Inv', VerdictsStand, NEW e \in ExecutionIds, Decided(e)
  PROVE  SameAsked(e) /\ Decided(e)' /\ (Committed(e)' <=> Committed(e))
<1>1. executions[e] \in Executions /\ executions'[e] \in Executions
  BY DEF Inv, Typed, TypeOK, RowsType
<1>2. [executions'[e] EXCEPT !.ackState = None] = [executions[e] EXCEPT !.ackState = None]
  BY DEF VerdictsStand, ExecutionStands, Decided, Committed, Failed
<1>3. /\ [executions'[e] EXCEPT !.ackState = None].state = executions'[e].state
      /\ [executions'[e] EXCEPT !.ackState = None].roundId = executions'[e].roundId
      /\ [executions'[e] EXCEPT !.ackState = None].resultKind = executions'[e].resultKind
      /\ [executions'[e] EXCEPT !.ackState = None].participantId = executions'[e].participantId
      /\ [executions[e] EXCEPT !.ackState = None].state = executions[e].state
      /\ [executions[e] EXCEPT !.ackState = None].roundId = executions[e].roundId
      /\ [executions[e] EXCEPT !.ackState = None].resultKind = executions[e].resultKind
      /\ [executions[e] EXCEPT !.ackState = None].participantId = executions[e].participantId
  BY <1>1 DEF Executions
<1>4. QED
  BY <1>2, <1>3 DEF Decided, Committed, Failed, SameAsked

\* The account of one Round.
SlotsAccounted(r) ==
  \A i \in DOMAIN rounds[r].participantOrder :
    /\ (\E e \in ExecutionIds : Committed(e) /\ AnswersSlot(e, r, i)) => i <= rounds[r].nextParticipantIndex
    /\ i <= rounds[r].nextParticipantIndex => \E e \in ExecutionIds : Decided(e) /\ AnswersSlot(e, r, i)

LEMMA AccountsSuffice == PassedSlotsAccounted <=> \A r \in RoundIds : SlotsAccounted(r)
BY DEF PassedSlotsAccounted, SlotsAccounted, Decided

\* A Round whose script stays, under a step that commits no message of it.
LEMMA AccountStays ==
  ASSUME AccountInv, Inv', VerdictsStand, NEW r \in RoundIds, SameScript(r),
         \A e \in ExecutionIds : Committed(e)' => \/ Committed(e) \/ executions'[e].roundId # r
                                                 \/ executions'[e].resultKind # "message"
  PROVE  SlotsAccounted(r)'
<1>1. SlotsAccounted(r)
  BY AccountsSuffice DEF AccountInv
<1>2. ASSUME NEW e \in ExecutionIds, Decided(e), NEW i
      PROVE  AnswersSlot(e, r, i)' <=> AnswersSlot(e, r, i)
  BY <1>2, EndedIsKept DEF AccountInv, RetryInv, SameAsked, SameScript, AnswersSlot
<1>3. ASSUME NEW i \in DOMAIN rounds'[r].participantOrder
      PROVE  /\ (\E e \in ExecutionIds : Committed(e)' /\ AnswersSlot(e, r, i)') =>
                   i <= rounds'[r].nextParticipantIndex
             /\ i <= rounds'[r].nextParticipantIndex =>
                   \E e \in ExecutionIds : Decided(e)' /\ AnswersSlot(e, r, i)'
  <2>1. i \in DOMAIN rounds[r].participantOrder
    BY <1>3 DEF SameScript
  <2>2. ASSUME NEW e \in ExecutionIds, Committed(e)', AnswersSlot(e, r, i)'
        PROVE  i <= rounds'[r].nextParticipantIndex
    <3>1. Committed(e) /\ Decided(e)
      BY <2>2 DEF AnswersSlot, Decided
    <3>2. QED
      BY <1>1, <1>2, <2>1, <2>2, <3>1 DEF SlotsAccounted, SameScript
  <2>3. ASSUME i <= rounds'[r].nextParticipantIndex
        PROVE  \E e \in ExecutionIds : Decided(e)' /\ AnswersSlot(e, r, i)'
    <3>1. PICK e \in ExecutionIds : Decided(e) /\ AnswersSlot(e, r, i)
      BY <1>1, <2>1, <2>3 DEF SlotsAccounted, SameScript
    <3>2. QED
      BY <1>2, <3>1, EndedIsKept DEF AccountInv, RetryInv
  <2>4. QED
    BY <2>2, <2>3
<1>4. QED
  BY <1>3 DEF SlotsAccounted

\* A Round whose cursor moves over the slot of an execution that ends or has ended.
LEMMA AccountMoves ==
  ASSUME AccountInv, Inv', VerdictsStand, NEW r \in RoundIds, NEW d \in ExecutionIds,
         NEW cursor \in DOMAIN rounds[r].participantOrder,
         cursor = rounds[r].nextParticipantIndex + 1, rounds'[r].nextParticipantIndex = cursor,
         AnswersSlot(d, r, cursor)', Decided(d)',
         rounds'[r].participantOrder = rounds[r].participantOrder,
         \A e \in ExecutionIds : Committed(e)' => Committed(e) \/ e = d
  PROVE  SlotsAccounted(r)'
<1>1. SlotsAccounted(r) /\ rounds[r].nextParticipantIndex \in Nat
  BY AccountsSuffice DEF AccountInv, RetryInv, Inv, Typed, TypeOK, RowsType, Rounds
<1>2. ASSUME NEW e \in ExecutionIds, Decided(e), NEW i
      PROVE  AnswersSlot(e, r, i)' <=> AnswersSlot(e, r, i)
  BY <1>2, EndedIsKept DEF AccountInv, RetryInv, SameAsked, AnswersSlot
<1>3. /\ cursor = rounds[r].nextParticipantIndex + 1
      /\ rounds'[r].nextParticipantIndex = cursor
      /\ AnswersSlot(d, r, cursor)'
  OBVIOUS
<1>4. ASSUME NEW i \in DOMAIN rounds'[r].participantOrder
      PROVE  /\ (\E e \in ExecutionIds : Committed(e)' /\ AnswersSlot(e, r, i)') => i <= cursor
             /\ i <= cursor => \E e \in ExecutionIds : Decided(e)' /\ AnswersSlot(e, r, i)'
  <2>1. i \in DOMAIN rounds[r].participantOrder /\ i \in Nat
    BY <1>4 DEF AccountInv, RetryInv, Inv, Typed, TypeOK, RowsType, Rounds
  <2>2. ASSUME NEW e \in ExecutionIds, Committed(e)', AnswersSlot(e, r, i)'
        PROVE  i <= cursor
    <3>1. CASE e = d
      <4>1. rounds[r].participantOrder[i] = rounds[r].participantOrder[cursor]
        BY <1>3, <2>2, <3>1 DEF AnswersSlot
      <4>2. i = cursor
        BY <1>3, <2>1, <4>1 DEF AccountInv, OrdersAreSets
      <4>3. QED
        BY <2>1, <4>2
    <3>2. CASE e # d
      <4>1. i <= rounds[r].nextParticipantIndex
        BY <1>1, <1>2, <2>1, <2>2, <3>2 DEF SlotsAccounted, Decided
      <4>2. QED
        BY <1>1, <1>3, <2>1, <4>1
    <3>3. QED
      BY <3>1, <3>2
  <2>3. ASSUME i <= cursor
        PROVE  \E e \in ExecutionIds : Decided(e)' /\ AnswersSlot(e, r, i)'
    <3>1. CASE i = cursor
      BY <1>3, <3>1
    <3>2. CASE i # cursor
      <4>1. i <= rounds[r].nextParticipantIndex
        BY <1>1, <1>3, <2>1, <2>3, <3>2
      <4>2. PICK e \in ExecutionIds : Decided(e) /\ AnswersSlot(e, r, i)
        BY <1>1, <2>1, <4>1 DEF SlotsAccounted
      <4>3. QED
        BY <1>2, <4>2, EndedIsKept DEF AccountInv, RetryInv
    <3>3. QED
      BY <3>1, <3>2
  <2>4. QED
    BY <2>2, <2>3
<1>5. QED
  BY <1>3, <1>4 DEF SlotsAccounted

\* No script moves and no message is committed.
ScriptsStay ==
  /\ \A r \in RoundIds : SameScript(r)
  /\ \A e \in ExecutionIds : Committed(e)' => Committed(e) \/ executions'[e].resultKind # "message"

LEMMA SameRoundsKeepScripts ==
  ASSUME Quiet, UNCHANGED rounds
  PROVE  ScriptsStay
BY DEF Quiet, ScriptsStay, SameScript

LEMMA RoundStepScripts ==
  ASSUME Inv, NEW t \in Tokens, RoundStep(t)
  PROVE  \/ ScriptsStay
         \/ \E r \in RoundIds, order \in Orders : CreateRound(t, r, order)
         \/ \E r \in RoundIds : SkipParticipant(t, r)
<1>1. PICK r \in RoundIds :
        \/ \E order \in Orders : CreateRound(t, r, order)
        \/ \E to \in {"prewarming", "running"} : TransitionRound(t, r, to)
        \/ PrewarmFailed(t, r)
        \/ RetryFailedParticipant(t, r)
        \/ AbortRound(t, r)
        \/ SkipParticipant(t, r)
  BY DEF RoundStep
<1>2. Quiet
  BY OtherStepsAreQuiet
<1>3. rounds \in [RoundIds -> Rounds]
  BY DEF Inv, Typed, TypeOK, RowsType
<1>4. ASSUME NEW row, rounds' = [rounds EXCEPT ![r] = row],
             row.participantOrder = rounds[r].participantOrder,
             row.nextParticipantIndex = rounds[r].nextParticipantIndex, row.phase # "none"
      PROVE  ScriptsStay
  BY <1>2, <1>3, <1>4 DEF Quiet, ScriptsStay, SameScript
<1>5. ASSUME NEW to \in {"prewarming", "running"}, TransitionRound(t, r, to)
      PROVE  ScriptsStay
  <2>1. rounds' = [rounds EXCEPT ![r] = [rounds[r] EXCEPT !.phase = to]]
    BY <1>5 DEF TransitionRound
  <2>2. PICK row : row = [rounds[r] EXCEPT !.phase = to]
    OBVIOUS
  <2>3. /\ row.participantOrder = rounds[r].participantOrder
        /\ row.nextParticipantIndex = rounds[r].nextParticipantIndex /\ row.phase # "none"
    BY <1>3, <2>2 DEF Rounds
  <2>4. QED
    BY <1>4, <2>1, <2>2, <2>3
<1>6. CASE PrewarmFailed(t, r)
  BY <1>3, <1>4, <1>6, ZenonT(60) DEF PrewarmFailed, PauseRound, Paused, Rounds
<1>7. CASE RetryFailedParticipant(t, r)
  <2>1. /\ rounds[r].pausedFrom \in {"prewarming", "running", "summarizing"}
        /\ rounds' = [rounds EXCEPT ![r] =
             [rounds[r] EXCEPT !.phase = rounds[r].pausedFrom, !.pausedFrom = None, !.pauseReason = None]]
    BY <1>3, <1>7 DEF RetryFailedParticipant, ResumeRound, Rounds
  <2>2. PICK row : row = [rounds[r] EXCEPT !.phase = rounds[r].pausedFrom, !.pausedFrom = None,
                                           !.pauseReason = None]
    OBVIOUS
  <2>3. /\ row.participantOrder = rounds[r].participantOrder
        /\ row.nextParticipantIndex = rounds[r].nextParticipantIndex /\ row.phase # "none"
    BY <1>3, <2>1, <2>2 DEF Rounds
  <2>4. QED
    BY <1>4, <2>1, <2>2, <2>3
<1>8. CASE AbortRound(t, r)
  <2>1. PICK row : row = Aborted(rounds[r]) /\ rounds' = [rounds EXCEPT ![r] = row]
    BY <1>8 DEF AbortRound
  <2>2. /\ row.participantOrder = rounds[r].participantOrder
        /\ row.nextParticipantIndex = rounds[r].nextParticipantIndex /\ row.phase # "none"
    BY <1>3, <2>1 DEF Aborted, Rounds
  <2>3. QED
    BY <1>4, <2>1, <2>2
<1>9. QED
  BY <1>1, <1>5, <1>6, <1>7, <1>8

LEMMA BeginStepScripts ==
  ASSUME Inv, NEW t \in Tokens, BeginStep(t)
  PROVE  ScriptsStay
<1>1. PICK e \in ExecutionIds, r \in RoundIds, p \in Participants, ctx \in published :
        \/ \E kind \in {"message", "summary"} : BeginExecution(t, e, kind, r, p, ctx)
        \/ BeginFocusExecution(t, e, r, p, ctx)
        \/ BeginReportExecution(t, e, r, p, ctx)
  BY DEF BeginStep
<1>2. Quiet
  BY OtherStepsAreQuiet
<1>3. rounds \in [RoundIds -> Rounds] /\ room \in RoomRows
  BY DEF Inv, Typed, TypeOK, RowsType
<1>4. UNCHANGED rounds \/ \E q \in RoundIds : \/ rounds' = [rounds EXCEPT ![q].activeExecutionId = e]
                                              \/ rounds' = [rounds EXCEPT ![q] = Aborted(rounds[q])]
  BY <1>1, <1>3 DEF BeginExecution, BeginFocusExecution, BeginReportExecution, Occupy, RoomRows
<1>5. \A q \in RoundIds : SameScript(q)
  <2>1. CASE UNCHANGED rounds
    BY <2>1 DEF SameScript
  <2>2. ASSUME NEW x \in RoundIds, rounds' = [rounds EXCEPT ![x].activeExecutionId = e],
               NEW q \in RoundIds
        PROVE  SameScript(q)
    BY <1>3, <2>2 DEF SameScript, Rounds
  <2>3. ASSUME NEW x \in RoundIds, rounds' = [rounds EXCEPT ![x] = Aborted(rounds[x])],
               NEW q \in RoundIds
        PROVE  SameScript(q)
    <3>1. CASE q # x
      BY <1>3, <2>3, <3>1 DEF SameScript
    <3>2. CASE q = x
      <4>1. rounds'[q] = Aborted(rounds[q])
        BY <1>3, <2>3, <3>2
      <4>2. QED
        BY <1>3, <4>1 DEF SameScript, Aborted, Rounds
    <3>3. QED
      BY <3>1, <3>2
  <2>4. QED
    BY <1>4, <2>1, <2>2, <2>3
<1>6. QED
  BY <1>2, <1>5 DEF Quiet, ScriptsStay

\* A drop or a failure leaves the script of the Round.
LEMMA DropScripts ==
  ASSUME Inv, NEW e \in ExecutionIds, NEW pause \in BOOLEAN, executions[e].roundId \in RoundIds,
         \A d \in ExecutionIds : Committed(d)' => Committed(d),
         rounds' = [rounds EXCEPT ![executions[e].roundId] = WithoutExecution(@, e, pause)]
  PROVE  ScriptsStay
<1>1. PICK r \in RoundIds : r = executions[e].roundId
  OBVIOUS
<1>2. rounds \in [RoundIds -> Rounds]
  BY DEF Inv, Typed, TypeOK, RowsType
<1>3. /\ rounds'[r] = WithoutExecution(rounds[r], e, pause)
      /\ \A q \in RoundIds \ {r} : rounds'[q] = rounds[q]
  BY <1>1, <1>2
<1>4. SameScript(r)
  BY <1>2, <1>3 DEF WithoutExecution, Paused, SameScript, Rounds
<1>5. \A q \in RoundIds : SameScript(q)
  BY <1>3, <1>4 DEF SameScript
<1>6. QED
  BY <1>5 DEF ScriptsStay

LEMMA DiscardScripts ==
  ASSUME Inv, NEW e \in ExecutionIds, Live(e), DiscardLockedExecution(e)
  PROVE  ScriptsStay
<1>1. \A d \in ExecutionIds : Committed(d)' => Committed(d)
  BY DEF DiscardLockedExecution, Persist, Committed, Inv, Typed, TypeOK, RowsType, Executions
<1>2. QED
  BY <1>1, LiveHasRound, DropScripts DEF DiscardLockedExecution

LEMMA FailureScripts ==
  ASSUME Inv, NEW e \in ExecutionIds, NEW kind \in {"failed", "interrupted"}, NEW pause \in BOOLEAN,
         RecordExecutionFailure(e, kind, pause)
  PROVE  ScriptsStay
<1>1. \A d \in ExecutionIds : Committed(d)' => Committed(d)
  BY DEF RecordExecutionFailure, Committed, Inv, Typed, TypeOK, RowsType, Executions
<1>2. QED
  BY <1>1, LiveHasRound, DropScripts DEF RecordExecutionFailure

LEMMA EndStepScripts ==
  ASSUME Inv, NEW t \in Tokens, EndStep(t)
  PROVE  \/ ScriptsStay
         \/ \E e \in ExecutionIds : CommitModelMessage(t, e) /\ ~ DiscardLockedExecution(e)
<1>1. PICK e \in ExecutionIds :
        \/ CommitModelMessage(t, e)
        \/ CommitFocusMessage(t, e)
        \/ CommitSummary(t, e)
        \/ CommitReport(t, e)
        \/ DiscardExecution(t, e)
        \/ \E kind \in {"failed", "interrupted"}, pause \in BOOLEAN : FailExecution(t, e, kind, pause)
  BY DEF EndStep
<1>2. rounds \in [RoundIds -> Rounds] /\ executions \in [ExecutionIds -> Executions]
  BY DEF Inv, Typed, TypeOK, RowsType
<1>3. CASE DiscardExecution(t, e)
  BY <1>3, DiscardScripts DEF DiscardExecution, Live, LiveStates
<1>4. CASE \/ CommitModelMessage(t, e) \/ CommitFocusMessage(t, e)
           \/ CommitSummary(t, e) \/ CommitReport(t, e)
  <2>1. Live(e)
    BY <1>4 DEF CommitModelMessage, CommitFocusMessage, CommitSummary, CommitReport, Committable,
                Live, LiveStates
  <2>2. CASE DiscardLockedExecution(e)
    BY <2>1, <2>2, DiscardScripts
  <2>3. CASE ~ DiscardLockedExecution(e) /\ ~ CommitModelMessage(t, e)
    <3>1. executions[e].resultKind # "message"
      BY <1>4, <2>3 DEF CommitFocusMessage, CommitSummary, CommitReport, Committable
    <3>2. PICK state \in {"committed", "discarded"} : Persist(e, state)
      BY <1>4, <2>3 DEF CommitFocusMessage, CommitSummary, CommitReport
    <3>3. \A d \in ExecutionIds : Committed(d)' => Committed(d) \/ executions'[d].resultKind # "message"
      BY <1>2, <3>1, <3>2 DEF Persist, Committed, Executions
    <3>4. PICK r \in RoundIds : r = executions[e].roundId
      BY <2>1, LiveHasRound
    <3>5. \A q \in RoundIds : SameScript(q)
      <4>1. CASE CommitFocusMessage(t, e)
        BY <1>2, <2>3, <3>4, <4>1 DEF CommitFocusMessage, SameScript, Rounds
      <4>2. CASE CommitSummary(t, e)
        <5>1. rounds' = [rounds EXCEPT ![r] = [rounds[r] EXCEPT !.phase = "completed",
                                                                !.activeExecutionId = None]]
          BY <1>2, <2>3, <3>4, <4>2 DEF CommitSummary, Rounds
        <5>2. QED
          BY <1>2, <5>1 DEF SameScript, Rounds
      <4>3. CASE CommitReport(t, e)
        BY <4>3 DEF CommitReport, SameScript
      <4>4. QED
        BY <1>4, <2>3, <4>1, <4>2, <4>3
    <3>6. QED
      BY <3>3, <3>5 DEF ScriptsStay
  <2>4. QED
    BY <1>4, <2>2, <2>3
<1>5. QED
  BY <1>1, <1>3, <1>4, FailureScripts DEF FailExecution

LEMMA UncontrolledStepScripts ==
  ASSUME Inv, UncontrolledStep
  PROVE  ScriptsStay
<1>1. UNCHANGED rounds \/ \E e \in ExecutionIds, kind \in {"failed", "interrupted"} :
                            RecordExecutionFailure(e, kind, TRUE)
  BY DEF UncontrolledStep, RenameColdRoom, WriteTopic, MarkExecutionDispatched,
         MarkExecutionSucceededUncommitted, SetState, FailUnboundExecution, MarkAcknowledged,
         MarkAckExpired, SetAckState
<1>2. QED
  BY <1>1, OtherStepsAreQuiet, SameRoundsKeepScripts, FailureScripts

\* The cursor of a commit or of a skip is a place of the order, and only a message moves it.
LEMMA CommitMessageAccounts ==
  ASSUME AccountInv, Inv', VerdictsStand, NEW t \in Tokens, NEW e \in ExecutionIds,
         CommitModelMessage(t, e), ~ DiscardLockedExecution(e)
  PROVE  \A r \in RoundIds : /\ SlotsAccounted(r)'
                             /\ rounds'[r].participantOrder = rounds[r].participantOrder
                             /\ rounds[r].phase # "none" => rounds'[r].phase # "none"
<1>1. /\ rounds \in [RoundIds -> Rounds] /\ executions \in [ExecutionIds -> Executions] /\ Inv
  BY DEF AccountInv, RetryInv, Inv, Typed, TypeOK, RowsType
<1>2. Live(e) /\ executions[e].resultKind = "message" /\ Persist(e, "committed")
  BY DEF CommitModelMessage, Committable, Live, LiveStates
<1>3. PICK r \in RoundIds : r = executions[e].roundId
  BY <1>1, <1>2, LiveHasRound
<1>4. PICK cursor : cursor = rounds[r].nextParticipantIndex + 1
  OBVIOUS
<1>5. AtCursor(rounds[r], executions[e].participantId)
  BY <1>2, <1>3 DEF AccountInv, RetryInv, LiveFits, OfRound, Fits
<1>6. cursor \in DOMAIN rounds[r].participantOrder
      /\ rounds[r].participantOrder[cursor] = executions[e].participantId
  BY <1>1, <1>4, <1>5 DEF AtCursor, Rounds
<1>7. PICK phase \in {"running", "summarizing"} :
        rounds' = [rounds EXCEPT ![r] =
          [rounds[r] EXCEPT !.activeExecutionId = None, !.nextParticipantIndex = cursor,
                            !.phase = phase]]
  BY <1>3, <1>4 DEF CommitModelMessage
<1>8. /\ rounds'[r].participantOrder = rounds[r].participantOrder
      /\ rounds'[r].nextParticipantIndex = cursor /\ rounds'[r].phase # "none"
      /\ \A q \in RoundIds \ {r} : rounds'[q] = rounds[q]
  BY <1>1, <1>7 DEF Rounds
<1>9. /\ Decided(e)' /\ SameAsked(e)
      /\ \A d \in ExecutionIds \ {e} : executions'[d] = executions[d]
  BY <1>1, <1>2 DEF Persist, Decided, Committed, SameAsked, Executions
<1>10. AnswersSlot(e, r, cursor)'
  BY <1>2, <1>3, <1>6, <1>8, <1>9 DEF AnswersSlot, SameAsked
<1>11. \A d \in ExecutionIds : Committed(d)' => Committed(d) \/ d = e
  BY <1>9 DEF Committed
<1>12. SlotsAccounted(r)'
  BY <1>4, <1>6, <1>8, <1>9, <1>10, <1>11, AccountMoves
<1>13. ASSUME NEW q \in RoundIds, q # r
       PROVE  SlotsAccounted(q)'
  <2>1. SameScript(q)
    BY <1>8, <1>13 DEF SameScript
  <2>2. \A d \in ExecutionIds : Committed(d)' => Committed(d) \/ executions'[d].roundId # q
    BY <1>3, <1>9, <1>11, <1>13 DEF SameAsked
  <2>3. QED
    BY <2>1, <2>2, AccountStays
<1>14. QED
  BY <1>8, <1>12, <1>13

LEMMA SkipAccounts ==
  ASSUME AccountInv, Inv', VerdictsStand, NEW t \in Tokens, NEW r \in RoundIds, SkipParticipant(t, r)
  PROVE  \A q \in RoundIds : /\ SlotsAccounted(q)'
                             /\ rounds'[q].participantOrder = rounds[q].participantOrder
                             /\ rounds[q].phase # "none" => rounds'[q].phase # "none"
<1>1. /\ rounds \in [RoundIds -> Rounds] /\ executions \in [ExecutionIds -> Executions] /\ Inv
  BY DEF AccountInv, RetryInv, Inv, Typed, TypeOK, RowsType
<1>2. PICK cursor : cursor = rounds[r].nextParticipantIndex + 1
  OBVIOUS
<1>3. PICK reason \in PauseReasons :
        /\ reason = rounds[r].pauseReason
        /\ reason.participantId # Facilitator
        /\ AtCursor(rounds[r], reason.participantId)
  BY <1>1 DEF SkipParticipant, Rounds
<1>4. PauseIsSound(r) /\ rounds[r].pausedFrom = "running"
  BY DEF SkipParticipant, AccountInv, RetryInv, PausesAreSound
<1>5. PICK d \in ExecutionIds : d = reason.executionId
  BY <1>3, <1>4 DEF PauseIsSound, PauseReasons
<1>6. /\ Failed(d) /\ executions[d].roundId = r
      /\ executions[d].participantId = reason.participantId
      /\ executions[d].resultKind = "message"
  BY <1>3, <1>4, <1>5, ExecutionIdsAssumption DEF PauseIsSound, Fits
<1>7. cursor \in DOMAIN rounds[r].participantOrder
      /\ rounds[r].participantOrder[cursor] = executions[d].participantId
  BY <1>1, <1>2, <1>3, <1>6 DEF AtCursor, Rounds
<1>8. PICK phase \in {"running", "summarizing"} :
        rounds' = [rounds EXCEPT ![r] =
          [rounds[r] EXCEPT !.nextParticipantIndex = cursor, !.activeExecutionId = None,
                            !.pausedFrom = None, !.pauseReason = None, !.phase = phase]]
  BY <1>2 DEF SkipParticipant
<1>9. /\ rounds'[r].participantOrder = rounds[r].participantOrder
      /\ rounds'[r].nextParticipantIndex = cursor /\ rounds'[r].phase # "none"
      /\ \A q \in RoundIds \ {r} : rounds'[q] = rounds[q]
  BY <1>1, <1>8 DEF Rounds
<1>10. UNCHANGED executions
  BY DEF SkipParticipant
<1>11. AnswersSlot(d, r, cursor)' /\ Decided(d)'
  BY <1>6, <1>7, <1>9, <1>10 DEF AnswersSlot, Decided, Failed
<1>12. SlotsAccounted(r)'
  BY <1>2, <1>7, <1>9, <1>10, <1>11, AccountMoves DEF Committed
<1>13. ASSUME NEW q \in RoundIds, q # r
       PROVE  SlotsAccounted(q)'
  BY <1>9, <1>10, <1>13, AccountStays DEF SameScript, Committed
<1>14. QED
  BY <1>9, <1>12, <1>13

\* A new Round: nothing was begun for it.
LEMMA CreateRoundAccounts ==
  ASSUME AccountInv, Inv', VerdictsStand, NEW t \in Tokens, NEW r \in RoundIds, NEW order \in Orders,
         CreateRound(t, r, order)
  PROVE  \A q \in RoundIds : /\ SlotsAccounted(q)'
                             /\ \/ rounds'[q].participantOrder = rounds[q].participantOrder
                                \/ rounds'[q].participantOrder = order
                             /\ rounds[q].phase # "none" => rounds'[q].phase # "none"
<1>1. /\ rounds \in [RoundIds -> Rounds] /\ Inv
  BY DEF AccountInv, RetryInv, Inv, Typed, TypeOK, RowsType
<1>2. UNCHANGED executions /\ rounds[r].phase = "none"
  BY DEF CreateRound, NextRound
<1>3. /\ rounds'[r].participantOrder = order /\ rounds'[r].nextParticipantIndex = 0
      /\ rounds'[r].phase # "none"
      /\ \A q \in RoundIds \ {r} : rounds'[q] = rounds[q]
  BY <1>1 DEF CreateRound, NoRound
<1>4. ASSUME NEW e \in ExecutionIds, Decided(e)
      PROVE  executions[e].roundId # r
  BY <1>2, <1>4 DEF AccountInv, BegunHasRoundRow, Begun, Decided, Committed, Failed, FailureStates
<1>5. SlotsAccounted(r)'
  <2>1. order \in Seq(Participants)
    BY OrdersAssumption
  <2>2. ASSUME NEW i \in DOMAIN rounds'[r].participantOrder
        PROVE  ~ (i <= rounds'[r].nextParticipantIndex)
    BY <1>3, <2>1, <2>2
  <2>3. ASSUME NEW e \in ExecutionIds, Committed(e)', NEW i
        PROVE  ~ AnswersSlot(e, r, i)'
    BY <1>2, <1>4, <2>3 DEF AnswersSlot, Decided, Committed
  <2>4. QED
    BY <2>2, <2>3 DEF SlotsAccounted
<1>6. ASSUME NEW q \in RoundIds, q # r
      PROVE  SlotsAccounted(q)'
  BY <1>2, <1>3, <1>6, AccountStays DEF SameScript, Committed
<1>7. QED
  BY <1>3, <1>5, <1>6

\* Only a begin gives an execution its Round.
LEMMA AskedOnce ==
  ASSUME Inv, \/ UncontrolledStep \/ BindingsStep
              \/ \E t \in Tokens : ContextStep(t) \/ RoundStep(t) \/ EndStep(t),
         NEW e \in ExecutionIds, Begun(e)'
  PROVE  Begun(e) /\ SameAsked(e)
<1>1. executions \in [ExecutionIds -> Executions]
  BY DEF Inv, Typed, TypeOK, RowsType
<1>2. CASE UNCHANGED executions
  BY <1>2 DEF Begun, SameAsked
<1>3. ASSUME NEW d \in ExecutionIds, NEW state, Begun(d), NEW ack,
             executions' = [executions EXCEPT ![d].state = state, ![d].ackState = ack]
      PROVE  Begun(e) /\ SameAsked(e)
  BY <1>1, <1>3 DEF Begun, SameAsked, Executions
<1>4. ASSUME NEW d \in ExecutionIds, NEW state, Begun(d),
             executions' = [executions EXCEPT ![d].state = state]
      PROVE  Begun(e) /\ SameAsked(e)
  BY <1>1, <1>4 DEF Begun, SameAsked, Executions
<1>5. ASSUME NEW d \in ExecutionIds, NEW ack, executions' = [executions EXCEPT ![d].ackState = ack]
      PROVE  Begun(e) /\ SameAsked(e)
  BY <1>1, <1>5 DEF Begun, SameAsked, Executions
<1>6. CASE BindingsStep \/ \E t \in Tokens : ContextStep(t)
  BY <1>2, <1>6
  DEF BindingsStep, CreateRuntimeBinding, ActivateRuntimeBinding, TakeoverRuntimeBinding, Grant,
      MarkBindingClosed, ReleaseRuntime, BindingStep, ContextStep, AppendUserMessage,
      UpdateRoomSharedConfig, WriteTopic, SetRoomRunState
<1>7. ASSUME NEW t \in Tokens, RoundStep(t)
      PROVE  Begun(e) /\ SameAsked(e)
  <2>1. UNCHANGED executions \/ \E r \in RoundIds : AbortRound(t, r)
    BY <1>7 DEF RoundStep, CreateRound, TransitionRound, PrewarmFailed, PauseRound,
                RetryFailedParticipant, ResumeRound, SkipParticipant
  <2>2. ASSUME NEW r \in RoundIds, AbortRound(t, r)
        PROVE  Begun(e) /\ SameAsked(e)
    BY <1>1, <2>2 DEF AbortRound, InterruptIfLive, Live, LiveStates, Begun, SameAsked, Executions
  <2>3. QED
    BY <1>2, <2>1, <2>2
<1>8. ASSUME NEW d \in ExecutionIds, NEW kind, NEW pause, RecordExecutionFailure(d, kind, pause)
      PROVE  Begun(e) /\ SameAsked(e)
  BY <1>3, <1>8 DEF RecordExecutionFailure, Live, LiveStates, Begun
<1>9. ASSUME NEW t \in Tokens, EndStep(t)
      PROVE  Begun(e) /\ SameAsked(e)
  <2>1. \/ \E d \in ExecutionIds : Live(d) /\ (Persist(d, "committed") \/ Persist(d, "discarded"))
        \/ \E d \in ExecutionIds, kind \in {"failed", "interrupted"}, pause \in BOOLEAN :
             RecordExecutionFailure(d, kind, pause)
    BY <1>9 DEF EndStep, CommitModelMessage, CommitFocusMessage, CommitSummary, CommitReport,
                Committable, DiscardExecution, DiscardLockedExecution, FailExecution, Live, LiveStates
  <2>2. ASSUME NEW d \in ExecutionIds, Live(d), NEW state, Persist(d, state)
        PROVE  Begun(e) /\ SameAsked(e)
    BY <1>3, <2>2 DEF Persist, Live, LiveStates, Begun
  <2>3. QED
    BY <1>8, <2>1, <2>2
<1>10. CASE UncontrolledStep
  <2>1. ASSUME NEW d \in ExecutionIds, NEW from \in LiveStates, NEW to, SetState(d, from, to)
        PROVE  Begun(e) /\ SameAsked(e)
    BY <1>4, <2>1 DEF SetState, Begun, LiveStates
  <2>2. ASSUME NEW d \in ExecutionIds, NEW ack, SetAckState(d, ack)
        PROVE  Begun(e) /\ SameAsked(e)
    BY <1>5, <2>2 DEF SetAckState
  <2>3. QED
    BY <1>2, <1>8, <1>10, <2>1, <2>2
    DEF UncontrolledStep, RenameColdRoom, WriteTopic, MarkExecutionDispatched,
        MarkExecutionSucceededUncommitted, FailUnboundExecution, MarkAcknowledged, MarkAckExpired,
        LiveStates
<1>11. QED
  BY <1>6, <1>7, <1>9, <1>10

LEMMA BegunRowsStay ==
  ASSUME AccountInv, Next, \A r \in RoundIds : rounds[r].phase # "none" => rounds'[r].phase # "none"
  PROVE  BegunHasRoundRow'
<1>1. Inv /\ \A e \in ExecutionIds : Begun(e) => executions[e].roundId \in RoundIds
  BY DEF AccountInv, RetryInv, Inv, Typed, BegunHasRound, Begun
<1>2. ASSUME NEW e \in ExecutionIds, Begun(e), SameAsked(e)
      PROVE  rounds'[executions'[e].roundId].phase # "none"
  BY <1>1, <1>2 DEF AccountInv, BegunHasRoundRow, SameAsked
<1>3. ASSUME NEW t \in Tokens, BeginStep(t)
      PROVE  BegunHasRoundRow'
  <2>1. PICK e \in ExecutionIds, r \in RoundIds, p \in Participants, ctx \in published :
          \/ \E kind \in {"message", "summary"} : BeginExecution(t, e, kind, r, p, ctx)
          \/ BeginFocusExecution(t, e, r, p, ctx)
          \/ BeginReportExecution(t, e, r, p, ctx)
    BY <1>3 DEF BeginStep
  <2>2. PICK kind : AddExecution(e, kind, r, p, ctx)
    BY <2>1 DEF BeginExecution, BeginFocusExecution, BeginReportExecution
  <2>3. /\ executions'[e].roundId = r
        /\ \A d \in ExecutionIds \ {e} : executions'[d] = executions[d]
    BY <1>1, <2>2 DEF AddExecution, Inv, Typed, TypeOK, RowsType
  <2>4. rounds[r].phase # "none"
    BY <2>1 DEF BeginExecution, BeginFocusExecution, BeginReportExecution, SlotFree
  <2>5. QED
    BY <1>2, <2>3, <2>4 DEF BegunHasRoundRow, Begun, SameAsked
<1>4. CASE \/ UncontrolledStep \/ BindingsStep
           \/ \E t \in Tokens : ContextStep(t) \/ RoundStep(t) \/ EndStep(t)
  BY <1>1, <1>2, <1>4, AskedOnce DEF BegunHasRoundRow
<1>5. QED
  BY <1>3, <1>4 DEF Next

LEMMA NextScripts ==
  ASSUME Inv, Next
  PROVE  \/ ScriptsStay
         \/ \E t \in Tokens, r \in RoundIds, order \in Orders : CreateRound(t, r, order)
         \/ \E t \in Tokens, r \in RoundIds : SkipParticipant(t, r)
         \/ \E t \in Tokens, e \in ExecutionIds :
              CommitModelMessage(t, e) /\ ~ DiscardLockedExecution(e)
<1>1. ASSUME BindingsStep \/ \E t \in Tokens : ContextStep(t)
      PROVE  ScriptsStay
  <2>1. UNCHANGED rounds
    BY <1>1
    DEF BindingsStep, CreateRuntimeBinding, ActivateRuntimeBinding, TakeoverRuntimeBinding, Grant,
        MarkBindingClosed, ReleaseRuntime, BindingStep, ContextStep, AppendUserMessage,
        UpdateRoomSharedConfig, WriteTopic, SetRoomRunState
  <2>2. QED
    BY <1>1, <2>1, OtherStepsAreQuiet, SameRoundsKeepScripts
<1>2. QED
  BY <1>1, RoundStepScripts, BeginStepScripts, EndStepScripts, UncontrolledStepScripts DEF Next

LEMMA InitAccount == Init => AccountInv
<1>1. SUFFICES ASSUME Init PROVE PassedSlotsAccounted /\ OrdersAreSets /\ BegunHasRoundRow
  BY InitRetryable DEF AccountInv
<1>2. /\ \A r \in RoundIds : rounds[r].participantOrder = <<>>
      /\ \A e \in ExecutionIds : ~ Begun(e)
  BY <1>1 DEF Init, NoRound, Begun
<1>3. \A r \in RoundIds : DOMAIN rounds[r].participantOrder = {}
  BY <1>2
<1>4. QED
  BY <1>2, <1>3 DEF PassedSlotsAccounted, OrdersAreSets, BegunHasRoundRow

LEMMA NextAccount ==
  ASSUME AccountInv, [Next]_vars
  PROVE  AccountInv'
<1>1. RetryInv' /\ Inv /\ Inv'
  BY NextRetryable DEF AccountInv, RetryInv
<1>2. CASE UNCHANGED vars
  BY <1>1, <1>2 DEF vars, AccountInv, PassedSlotsAccounted, OrdersAreSets, BegunHasRoundRow, Begun,
                    Committed, Failed, AnswersSlot
<1>3. CASE Next /\ ~ UNCHANGED vars
  <2>1. VerdictsStand
    BY <1>1, <1>3, NextStands
  <2>2. \A r \in RoundIds : /\ SlotsAccounted(r)'
                            /\ \/ rounds'[r].participantOrder = rounds[r].participantOrder
                               \/ rounds'[r].participantOrder \in Orders
                            /\ rounds[r].phase # "none" => rounds'[r].phase # "none"
    <3>1. CASE ScriptsStay
      BY <1>1, <2>1, <3>1, AccountStays DEF ScriptsStay, SameScript
    <3>2. QED
      BY <1>1, <1>3, <2>1, <3>1, NextScripts, CreateRoundAccounts, SkipAccounts, CommitMessageAccounts
  <2>3. PassedSlotsAccounted'
    BY <2>2 DEF PassedSlotsAccounted, SlotsAccounted, Decided
  <2>4. OrdersAreSets'
    BY <2>2, OrdersAssumption DEF AccountInv, OrdersAreSets
  <2>5. BegunHasRoundRow'
    BY <1>3, <2>2, BegunRowsStay
  <2>6. QED
    BY <1>1, <2>3, <2>4, <2>5 DEF AccountInv
<1>4. QED
  BY <1>2, <1>3

\* The cursor of a Round passes a participant only over its committed answer or
\* over a failure on record, and a committed answer is always behind the cursor:
\* what later contexts call skipped is proved absent, for orders of any length.
THEOREM SlotsAreAccounted == Spec => []PassedSlotsAccounted
BY InitAccount, NextAccount, PTL DEF Spec, AccountInv

-----------------------------------------------------------------------------
(* The order of the transcript.  An entity is put at its end; that the end *)
(* is its place in the script follows from the cursor (no message behind   *)
(* it), from the slot of the focus (nobody before it) and from the Rounds  *)
(* being opened one after the other.                                       *)

\* A Round is opened only when all before it are over.
RoundsInOrder ==
  \A q, r \in RoundIds : q < r /\ rounds[r].phase # "none" => rounds[q].phase \in FinalPhases

\* The focus a Round names is in the transcript.
FocusLanded ==
  \A r \in RoundIds : rounds[r].focusMessageId # None =>
    \E i \in DOMAIN projection : /\ projection[i].roundId = r
                                 /\ projection[i].sourceExecutionId = rounds[r].focusMessageId

\* What the Round of an entity says of it.
ItemFits(i) ==
  LET round == rounds[projection[i].roundId]
      order == round.participantOrder
      x     == Source(i)
  IN  /\ round.focusMessageId # None
      /\ x.resultKind # "report"
      /\ x.resultKind = "summary" => round.phase = "completed"
      /\ x.resultKind = "message" => \E k \in DOMAIN order : order[k] = x.participantId

ItemsFit == \A i \in DOMAIN projection : IsModelItem(i) => ItemFits(i)

ScriptInv == AccountInv /\ LandedInv /\ RoundsInOrder /\ FocusLanded /\ ItemsFit /\ SpokenInOrder

Slot(order, p) == CHOOSE i \in DOMAIN order : order[i] = p

Position(order, kind, p) ==
  CASE kind = "focus"   -> 0
    [] kind = "message" -> Slot(order, p)
    [] OTHER            -> Len(order) + 1

LEMMA PositionInScript ==
  ASSUME NEW e
  PROVE  LET x == executions[e]
         IN  ScriptPosition(x) = Position(rounds[x.roundId].participantOrder, x.resultKind, x.participantId)
BY DEF ScriptPosition, Position, Slot

LEMMA PositionNextInScript ==
  ASSUME NEW e
  PROVE  LET x == executions'[e]
         IN  ScriptPosition(executions[e])' =
               Position(rounds'[x.roundId].participantOrder, x.resultKind, x.participantId)
BY DEF ScriptPosition, Position, Slot

LEMMA PositionOfMessage ==
  ASSUME NEW order \in Seq(Participants), NEW k \in DOMAIN order,
         \A i, j \in DOMAIN order : order[i] = order[j] => i = j
  PROVE  Position(order, "message", order[k]) = k
<1>1. Slot(order, order[k]) = k
  BY DEF Slot
<1>2. QED
  BY <1>1 DEF Position

-----------------------------------------------------------------------------
(* What a step does to the script and to the transcript.                   *)

\* A Round keeps its order and its focus, and is not opened.
SameTold(r) ==
  /\ rounds'[r].participantOrder = rounds[r].participantOrder
  /\ rounds'[r].focusMessageId = rounds[r].focusMessageId
  /\ rounds[r].phase = "none" => rounds'[r].phase = "none"

\* No entity is put in the transcript.
Silent ==
  /\ \A e \in ExecutionIds : Committed(e)' => Committed(e) \/ executions'[e].resultKind = "report"
  /\ UNCHANGED projection \/ \E item \in Items : /\ item.sourceExecutionId = None
                                                 /\ projection' = Append(projection, item)

\* The step puts the entity of e at the end of the transcript.
Lands(e) ==
  LET r == executions[e].roundId IN
  /\ Live(e) /\ OfRound(e) /\ SameAsked(e)
  /\ \A d \in ExecutionIds \ {e} : executions'[d] = executions[d]
  /\ \E item \in Items : /\ item.roundId = r /\ item.sourceExecutionId = e
                         /\ projection' = Append(projection, item)
  /\ \A q \in RoundIds \ {r} : rounds'[q] = rounds[q]
  /\ rounds'[r].participantOrder = rounds[r].participantOrder
  /\ rounds'[r].focusMessageId = IF executions[e].resultKind = "focus" THEN e
                                 ELSE rounds[r].focusMessageId
  /\ executions[e].resultKind = "summary" => rounds'[r].phase = "completed"

LEMMA QuietIsSilent == Quiet => Silent
BY DEF Quiet, Silent

LEMMA RowTells ==
  ASSUME Inv, NEW r \in RoundIds, NEW row, rounds' = [rounds EXCEPT ![r] = row],
         row.participantOrder = rounds[r].participantOrder,
         row.focusMessageId = rounds[r].focusMessageId,
         rounds[r].phase # "none" \/ row.phase = "none",
         NEW q \in RoundIds
  PROVE  SameTold(q)
<1>1. rounds \in [RoundIds -> Rounds]
  BY DEF Inv, Typed, TypeOK, RowsType
<1>2. rounds'[q] = IF q = r THEN row ELSE rounds[q]
  BY <1>1
<1>3. QED
  BY <1>2 DEF SameTold

LEMMA RoundStepTells ==
  ASSUME Inv, NEW t \in Tokens, RoundStep(t)
  PROVE  \/ \A q \in RoundIds : SameTold(q)
         \/ \E r \in RoundIds, order \in Orders : CreateRound(t, r, order)
<1>1. PICK r \in RoundIds :
        \/ \E order \in Orders : CreateRound(t, r, order)
        \/ \E to \in {"prewarming", "running"} : TransitionRound(t, r, to)
        \/ PrewarmFailed(t, r)
        \/ RetryFailedParticipant(t, r)
        \/ AbortRound(t, r)
        \/ SkipParticipant(t, r)
  BY DEF RoundStep
<1>2. rounds[r] \in Rounds
  BY DEF Inv, Typed, TypeOK, RowsType
<1>3. CASE ~ \E order \in Orders : CreateRound(t, r, order)
  <2>1. rounds[r].phase # "none"
    BY <1>1, <1>3 DEF TransitionRound, PrewarmFailed, RetryFailedParticipant, ResumeRound,
                      AbortRound, SkipParticipant
  <2>2. ASSUME NEW row, rounds' = [rounds EXCEPT ![r] = row],
               row.participantOrder = rounds[r].participantOrder,
               row.focusMessageId = rounds[r].focusMessageId
        PROVE  \A q \in RoundIds : SameTold(q)
    BY <2>1, <2>2, RowTells
  <2>3. ASSUME NEW to \in {"prewarming", "running"}, TransitionRound(t, r, to)
        PROVE  \A q \in RoundIds : SameTold(q)
    <3>1. PICK row : row = [rounds[r] EXCEPT !.phase = to]
      OBVIOUS
    <3>2. row.participantOrder = rounds[r].participantOrder /\ row.focusMessageId = rounds[r].focusMessageId
      BY <1>2, <3>1 DEF Rounds
    <3>3. rounds' = [rounds EXCEPT ![r] = row]
      BY <2>3, <3>1 DEF TransitionRound
    <3>4. QED
      BY <2>2, <3>2, <3>3
  <2>4. CASE PrewarmFailed(t, r)
    <3>1. PICK reason : rounds' = [rounds EXCEPT ![r] = Paused(rounds[r], reason)]
      BY <2>4 DEF PrewarmFailed, PauseRound
    <3>2. PICK row : row = Paused(rounds[r], reason)
      OBVIOUS
    <3>3. row.participantOrder = rounds[r].participantOrder /\ row.focusMessageId = rounds[r].focusMessageId
      BY <1>2, <3>2 DEF Paused, Rounds
    <3>4. QED
      BY <2>2, <3>1, <3>2, <3>3
  <2>5. CASE RetryFailedParticipant(t, r)
    <3>1. PICK row : row = [rounds[r] EXCEPT !.phase = rounds[r].pausedFrom, !.pausedFrom = None,
                                             !.pauseReason = None]
      OBVIOUS
    <3>2. row.participantOrder = rounds[r].participantOrder /\ row.focusMessageId = rounds[r].focusMessageId
      BY <1>2, <3>1 DEF Rounds
    <3>3. rounds' = [rounds EXCEPT ![r] = row]
      BY <2>5, <3>1 DEF RetryFailedParticipant, ResumeRound
    <3>4. QED
      BY <2>2, <3>2, <3>3
  <2>6. CASE AbortRound(t, r)
    <3>1. PICK row : row = Aborted(rounds[r])
      OBVIOUS
    <3>2. row.participantOrder = rounds[r].participantOrder /\ row.focusMessageId = rounds[r].focusMessageId
      BY <1>2, <3>1 DEF Aborted, Rounds
    <3>3. rounds' = [rounds EXCEPT ![r] = row]
      BY <2>6, <3>1 DEF AbortRound
    <3>4. QED
      BY <2>2, <3>2, <3>3
  <2>7. CASE SkipParticipant(t, r)
    <3>1. PICK cursor, phase :
            rounds' = [rounds EXCEPT ![r] =
              [rounds[r] EXCEPT !.nextParticipantIndex = cursor,
                                !.activeExecutionId = None, !.pausedFrom = None, !.pauseReason = None,
                                !.phase = phase]]
      BY <2>7, Zenon DEF SkipParticipant
    <3>2. PICK row : row = [rounds[r] EXCEPT !.nextParticipantIndex = cursor, !.activeExecutionId = None,
                                             !.pausedFrom = None, !.pauseReason = None, !.phase = phase]
      OBVIOUS
    <3>3. row.participantOrder = rounds[r].participantOrder /\ row.focusMessageId = rounds[r].focusMessageId
      BY <1>2, <3>2 DEF Rounds
    <3>4. QED
      BY <2>2, <3>1, <3>2, <3>3
  <2>8. QED
    BY <1>1, <1>3, <2>3, <2>4, <2>5, <2>6, <2>7
<1>4. QED
  BY <1>3

LEMMA BeginStepTells ==
  ASSUME Inv, NEW t \in Tokens, BeginStep(t), NEW q \in RoundIds
  PROVE  SameTold(q)
<1>1. PICK e \in ExecutionIds, r \in RoundIds, p \in Participants, ctx \in published :
        \/ \E kind \in {"message", "summary"} : BeginExecution(t, e, kind, r, p, ctx)
        \/ BeginFocusExecution(t, e, r, p, ctx)
        \/ BeginReportExecution(t, e, r, p, ctx)
  BY DEF BeginStep
<1>2. room \in RoomRows /\ \A x \in RoundIds : rounds[x] \in Rounds
  BY DEF Inv, Typed, TypeOK, RowsType
<1>3. \/ UNCHANGED rounds
      \/ \E x \in RoundIds : \/ rounds' = [rounds EXCEPT ![x] = [rounds[x] EXCEPT !.activeExecutionId = e]]
                             \/ /\ rounds' = [rounds EXCEPT ![x] = Aborted(rounds[x])]
                                /\ room.activeRoundId = x
  BY <1>1, <1>2 DEF BeginExecution, BeginFocusExecution, BeginReportExecution, Occupy, RoomRows
<1>4. CASE UNCHANGED rounds
  BY <1>4 DEF SameTold
<1>5. ASSUME NEW x \in RoundIds,
             rounds' = [rounds EXCEPT ![x] = [rounds[x] EXCEPT !.activeExecutionId = e]]
      PROVE  SameTold(q)
  <2>1. PICK row : row = [rounds[x] EXCEPT !.activeExecutionId = e]
    OBVIOUS
  <2>2. /\ row.participantOrder = rounds[x].participantOrder
        /\ row.focusMessageId = rounds[x].focusMessageId /\ row.phase = rounds[x].phase
    BY <1>2, <2>1 DEF Rounds
  <2>3. rounds[x].phase # "none" \/ row.phase = "none"
    BY <2>2
  <2>4. QED
    BY <1>5, <2>1, <2>2, <2>3, RowTells
<1>6. ASSUME NEW x \in RoundIds, rounds' = [rounds EXCEPT ![x] = Aborted(rounds[x])],
             room.activeRoundId = x
      PROVE  SameTold(q)
  <2>1. PICK row : row = Aborted(rounds[x])
    OBVIOUS
  <2>2. /\ row.participantOrder = rounds[x].participantOrder
        /\ row.focusMessageId = rounds[x].focusMessageId
    BY <1>2, <2>1 DEF Aborted, Rounds
  <2>3. rounds[x].phase # "none"
    BY <1>6, ActiveIsUnfinished DEF Unfinished
  <2>4. QED
    BY <1>6, <2>1, <2>2, <2>3, RowTells
<1>7. QED
  BY <1>3, <1>4, <1>5, <1>6

LEMMA DropTells ==
  ASSUME Inv, NEW e \in ExecutionIds, NEW pause \in BOOLEAN, executions[e].roundId \in RoundIds,
         rounds' = [rounds EXCEPT ![executions[e].roundId] = WithoutExecution(@, e, pause)],
         NEW q \in RoundIds
  PROVE  SameTold(q)
<1>1. PICK r \in RoundIds : r = executions[e].roundId
  OBVIOUS
<1>. DEFINE row == WithoutExecution(rounds[r], e, pause)
<1>2. rounds[r] \in Rounds
  BY DEF Inv, Typed, TypeOK, RowsType
<1>3. /\ row.participantOrder = rounds[r].participantOrder
      /\ row.focusMessageId = rounds[r].focusMessageId
      /\ rounds[r].phase # "none" \/ row.phase = "none"
  BY <1>1, <1>2 DEF WithoutExecution, Paused, Rounds
<1>4. rounds' = [rounds EXCEPT ![r] = row]
  BY <1>1
<1>5. QED
  BY <1>3, <1>4, RowTells

LEMMA FailureTells ==
  ASSUME Inv, NEW e \in ExecutionIds, NEW kind \in {"failed", "interrupted"}, NEW pause \in BOOLEAN,
         RecordExecutionFailure(e, kind, pause), NEW q \in RoundIds
  PROVE  SameTold(q)
BY LiveHasRound, DropTells DEF RecordExecutionFailure

LEMMA DiscardTells ==
  ASSUME Inv, NEW e \in ExecutionIds, Live(e), DiscardLockedExecution(e), NEW q \in RoundIds
  PROVE  SameTold(q)
BY LiveHasRound, DropTells DEF DiscardLockedExecution

LEMMA UncontrolledStepTells ==
  ASSUME Inv, UncontrolledStep, NEW q \in RoundIds
  PROVE  SameTold(q)
<1>1. UNCHANGED rounds \/ \E e \in ExecutionIds, kind \in {"failed", "interrupted"} :
                            RecordExecutionFailure(e, kind, TRUE)
  BY DEF UncontrolledStep, RenameColdRoom, WriteTopic, MarkExecutionDispatched,
         MarkExecutionSucceededUncommitted, SetState, FailUnboundExecution, MarkAcknowledged,
         MarkAckExpired, SetAckState
<1>2. QED
  BY <1>1, FailureTells DEF SameTold

\* A commit into the transcript.
LEMMA CommitTells ==
  ASSUME Inv, NEW t \in Tokens, NEW e \in ExecutionIds, ~ DiscardLockedExecution(e),
         CommitModelMessage(t, e) \/ CommitFocusMessage(t, e) \/ CommitSummary(t, e)
  PROVE  Lands(e)
<1>1. /\ executions \in [ExecutionIds -> Executions] /\ \A q \in RoundIds : rounds[q] \in Rounds
      /\ rounds = [q \in RoundIds |-> rounds[q]]
  BY DEF Inv, Typed, TypeOK, RowsType
<1>2. Live(e) /\ OfRound(e) /\ Persist(e, "committed")
  BY DEF CommitModelMessage, CommitFocusMessage, CommitSummary, Committable, Live, LiveStates, OfRound
<1>3. PICK r \in RoundIds : r = executions[e].roundId
  BY <1>2, LiveHasRound
<1>4. SameAsked(e) /\ \A d \in ExecutionIds \ {e} : executions'[d] = executions[d]
  BY <1>1, <1>2 DEF Persist, SameAsked, Executions
<1>5. \E role \in {"participant", "summary"} : AppendItem(ItemOf(e, role))
  BY DEF CommitModelMessage, CommitFocusMessage, CommitSummary
<1>6. \E item \in Items : /\ item.roundId = r /\ item.sourceExecutionId = e
                          /\ projection' = Append(projection, item)
  BY <1>1, <1>3, <1>5 DEF AppendItem, ItemOf, Items, Executions
<1>7. /\ \A q \in RoundIds \ {r} : rounds'[q] = rounds[q]
      /\ rounds'[r].participantOrder = rounds[r].participantOrder
      /\ rounds'[r].focusMessageId = IF executions[e].resultKind = "focus" THEN e
                                     ELSE rounds[r].focusMessageId
      /\ executions[e].resultKind = "summary" => rounds'[r].phase = "completed"
  <2>1. CASE CommitModelMessage(t, e)
    <3>1. PICK cursor, phase :
            rounds' = [rounds EXCEPT ![r] =
              [rounds[r] EXCEPT !.activeExecutionId = None, !.nextParticipantIndex = cursor,
                                !.phase = phase]]
      BY <1>3, <2>1, Zenon DEF CommitModelMessage
    <3>2. executions[e].resultKind = "message"
      BY <2>1 DEF CommitModelMessage, Committable
    <3>3. PICK row : row = [rounds[r] EXCEPT !.activeExecutionId = None,
                                             !.nextParticipantIndex = cursor, !.phase = phase]
      OBVIOUS
    <3>4. row.participantOrder = rounds[r].participantOrder /\ row.focusMessageId = rounds[r].focusMessageId
      BY <1>1, <3>3 DEF Rounds
    <3>5. rounds' = [rounds EXCEPT ![r] = row]
      BY <3>1, <3>3
    <3>6. QED
      BY <1>1, <3>2, <3>4, <3>5
  <2>2. CASE CommitFocusMessage(t, e)
    <3>1. rounds' = [rounds EXCEPT ![r].activeExecutionId = None, ![r].focusMessageId = e]
      BY <1>3, <2>2, Zenon DEF CommitFocusMessage
    <3>2. executions[e].resultKind = "focus"
      BY <2>2 DEF CommitFocusMessage, Committable
    <3>3. QED
      BY <1>1, <3>1, <3>2 DEF Rounds
  <2>3. CASE CommitSummary(t, e)
    <3>1. rounds' = [rounds EXCEPT ![r].phase = "completed", ![r].activeExecutionId = None]
      BY <1>3, <2>3, Zenon DEF CommitSummary
    <3>2. executions[e].resultKind = "summary"
      BY <2>3 DEF CommitSummary, Committable
    <3>3. QED
      BY <1>1, <3>1, <3>2 DEF Rounds
  <2>4. QED
    BY <2>1, <2>2, <2>3
<1>8. QED
  BY <1>2, <1>3, <1>4, <1>6, <1>7 DEF Lands

LEMMA EndStepTells ==
  ASSUME Inv, NEW t \in Tokens, EndStep(t)
  PROVE  \/ Silent /\ \A q \in RoundIds : SameTold(q)
         \/ \E e \in ExecutionIds : Lands(e)
<1>1. PICK e \in ExecutionIds :
        \/ CommitModelMessage(t, e)
        \/ CommitFocusMessage(t, e)
        \/ CommitSummary(t, e)
        \/ CommitReport(t, e)
        \/ DiscardExecution(t, e)
        \/ \E kind \in {"failed", "interrupted"}, pause \in BOOLEAN : FailExecution(t, e, kind, pause)
  BY DEF EndStep
<1>2. executions \in [ExecutionIds -> Executions]
  BY DEF Inv, Typed, TypeOK, RowsType
<1>3. ASSUME NEW kind \in {"failed", "interrupted"}, NEW pause \in BOOLEAN, FailExecution(t, e, kind, pause)
      PROVE  Silent /\ \A q \in RoundIds : SameTold(q)
  <2>1. RecordExecutionFailure(e, kind, pause)
    BY <1>3 DEF FailExecution
  <2>2. Silent
    BY <1>2, <2>1 DEF RecordExecutionFailure, Silent, Committed
  <2>3. QED
    BY <2>1, <2>2, FailureTells
<1>4. CASE Live(e) /\ DiscardLockedExecution(e)
  <2>1. Silent
    BY <1>2, <1>4 DEF DiscardLockedExecution, Persist, Silent, Committed, Executions
  <2>2. QED
    BY <1>4, <2>1, DiscardTells
<1>5. CASE CommitReport(t, e)
  <2>1. executions[e].resultKind = "report" /\ UNCHANGED <<rounds, projection>>
    BY <1>5 DEF CommitReport, Committable
  <2>2. \E state \in {"committed", "discarded"} : Persist(e, state)
    BY <1>5 DEF CommitReport
  <2>3. Silent
    BY <1>2, <2>1, <2>2 DEF Persist, Silent, Committed, Executions
  <2>4. QED
    BY <2>1, <2>3 DEF SameTold
<1>6. CASE CommitModelMessage(t, e) \/ CommitFocusMessage(t, e) \/ CommitSummary(t, e)
  <2>1. Live(e)
    BY <1>6 DEF CommitModelMessage, CommitFocusMessage, CommitSummary, Committable, Live, LiveStates
  <2>2. QED
    BY <1>4, <1>6, <2>1, CommitTells
<1>7. CASE DiscardExecution(t, e)
  BY <1>4, <1>7 DEF DiscardExecution, Live, LiveStates
<1>8. QED
  BY <1>1, <1>3, <1>5, <1>6, <1>7

LEMMA NextTells ==
  ASSUME Inv, Next
  PROVE  \/ Silent /\ \A q \in RoundIds : SameTold(q)
         \/ Silent /\ \E t \in Tokens, r \in RoundIds, order \in Orders : CreateRound(t, r, order)
         \/ \E e \in ExecutionIds : Lands(e)
<1>1. ASSUME BindingsStep \/ \E t \in Tokens : ContextStep(t)
      PROVE  \A q \in RoundIds : SameTold(q)
  <2>1. UNCHANGED rounds
    BY <1>1
    DEF BindingsStep, CreateRuntimeBinding, ActivateRuntimeBinding, TakeoverRuntimeBinding, Grant,
        MarkBindingClosed, ReleaseRuntime, BindingStep, ContextStep, AppendUserMessage,
        UpdateRoomSharedConfig, WriteTopic, SetRoomRunState
  <2>2. QED
    BY <2>1 DEF SameTold
<1>2. CASE \E t \in Tokens : EndStep(t)
  BY <1>2, EndStepTells
<1>3. CASE \/ UncontrolledStep \/ BindingsStep
           \/ \E t \in Tokens : ContextStep(t) \/ RoundStep(t) \/ BeginStep(t)
  <2>1. Silent
    BY <1>3, OtherStepsAreQuiet, QuietIsSilent
  <2>2. QED
    BY <1>1, <1>3, <2>1, RoundStepTells, BeginStepTells, UncontrolledStepTells
<1>4. QED
  BY <1>2, <1>3 DEF Next

-----------------------------------------------------------------------------
(* The induction.                                                          *)

\* The place of j is right: behind what comes before it in the script, its focus included.
SpokenAt(j) ==
  /\ \A i \in 1 .. j - 1 : IsModelItem(i) =>
       \/ projection[i].roundId < projection[j].roundId
       \/ /\ projection[i].roundId = projection[j].roundId
          /\ ScriptPosition(Source(i)) < ScriptPosition(Source(j))
  /\ Source(j).resultKind # "focus" =>
       \E i \in 1 .. j - 1 : /\ projection[i].roundId = projection[j].roundId
                             /\ projection[i].sourceExecutionId
                                  = rounds[projection[j].roundId].focusMessageId

LEMMA SpokenSuffices == SpokenInOrder <=> \A j \in DOMAIN projection : IsModelItem(j) => SpokenAt(j)
BY DEF SpokenInOrder, SpokenAt

LEMMA SpokenNextSuffices ==
  ASSUME \A j \in DOMAIN projection' : IsModelItem(j)' => SpokenAt(j)'
  PROVE  SpokenInOrder'
BY DEF SpokenInOrder, SpokenAt

\* What stands in the transcript comes before what a live execution is about to say.
LEMMA LiveIsNext ==
  ASSUME ScriptInv, NEW e \in ExecutionIds, Live(e), OfRound(e),
         NEW i \in DOMAIN projection, IsModelItem(i)
  PROVE  \/ projection[i].roundId < executions[e].roundId
         \/ /\ projection[i].roundId = executions[e].roundId
            /\ ScriptPosition(Source(i)) < ScriptPosition(executions[e])
<1>1. Inv /\ AccountInv /\ RetryInv /\ LandedInv
  BY DEF ScriptInv, AccountInv, RetryInv
<1>2. PICK d \in ExecutionIds : d = projection[i].sourceExecutionId /\ Committed(d)
  BY <1>1, ItemsAreCommitted
<1>3. PICK r \in RoundIds : r = executions[e].roundId /\ rounds[r].phase \in {"running", "summarizing"}
  BY <1>1, LiveHasRound DEF OfRound
<1>4. PICK q \in RoundIds : q = projection[i].roundId
  <2>1. projection \in Seq(Items) /\ i \in 1 .. Len(projection)
    BY <1>1 DEF LandedInv, Typed, TypeOK, EntitiesType
  <2>2. projection[i] \in Items
    BY <2>1
  <2>3. QED
    BY <2>2 DEF Items
<1>5. executions[d].roundId = q /\ Source(i) = executions[d]
  BY <1>1, <1>2, <1>4 DEF LandedInv, Landed, Source
<1>6. rounds[q].phase # "none"
  BY <1>1, <1>2, <1>5 DEF AccountInv, BegunHasRoundRow, Begun, Committed
<1>7. ~ (r < q)
  BY <1>3, <1>6 DEF ScriptInv, RoundsInOrder, FinalPhases
<1>8. q \in Nat /\ r \in Nat
  BY RoundIdsAssumption
<1>9. CASE q < r
  BY <1>3, <1>4, <1>9
<1>10. CASE q = r
  <2>1. ItemFits(i)
    BY DEF ScriptInv, ItemsFit
  <2>2. /\ rounds[r].focusMessageId # None
        /\ executions[d].resultKind \in {"focus", "message"}
    BY <1>1, <1>3, <1>4, <1>5, <1>10, <2>1
    DEF ItemFits, Inv, Typed, TypeOK, RowsType, Executions, ResultKinds
  <2>3. Fits(rounds[r], executions[e])
    BY <1>1, <1>3 DEF RetryInv, LiveFits
  <2>4. executions[e].resultKind \in {"message", "summary"}
    BY <1>1, <2>2, <2>3 DEF Fits, OfRound, Inv, Typed, TypeOK, RowsType, Executions, ResultKinds
  <2>. DEFINE order == rounds[r].participantOrder
              cursor == rounds[r].nextParticipantIndex
  <2>5. order \in Seq(Participants) /\ Len(order) \in Nat /\ cursor \in Nat
        /\ DOMAIN order = 1 .. Len(order)
    BY <1>1 DEF Inv, Typed, TypeOK, RowsType, Rounds
  <2>6. \A k, m \in DOMAIN order : order[k] = order[m] => k = m
    BY <1>1 DEF AccountInv, OrdersAreSets
  <2>7. PICK here : /\ here = ScriptPosition(Source(i)) /\ here \in Nat
                    /\ here <= cursor /\ here <= Len(order)
    <3>1. CASE executions[d].resultKind = "focus"
      BY <1>5, <2>5, <3>1 DEF ScriptPosition
    <3>2. CASE executions[d].resultKind = "message"
      <4>1. PICK k \in DOMAIN order : order[k] = executions[d].participantId
        BY <1>4, <1>5, <1>10, <2>1, <3>2 DEF ItemFits
      <4>2. ScriptPosition(executions[d]) = k
        <5>1. ScriptPosition(executions[d]) = Position(order, "message", order[k])
          BY <1>5, <1>10, <3>2, <4>1, PositionInScript
        <5>2. QED
          BY <2>5, <2>6, <5>1, PositionOfMessage
      <4>3. AnswersSlot(d, r, k)
        BY <1>5, <1>10, <3>2, <4>1 DEF AnswersSlot
      <4>4. k <= cursor
        BY <1>1, <1>2, <4>3 DEF AccountInv, PassedSlotsAccounted
      <4>5. QED
        BY <1>5, <2>5, <4>2, <4>4
    <3>3. QED
      BY <2>2, <3>1, <3>2
  <2>8. PICK there : there = ScriptPosition(executions[e]) /\ there \in Nat /\ here < there
    <3>1. CASE executions[e].resultKind = "message"
      <4>1. cursor + 1 \in DOMAIN order /\ order[cursor + 1] = executions[e].participantId
        BY <2>3, <2>5, <3>1 DEF Fits, AtCursor
      <4>2. ScriptPosition(executions[e]) = Position(order, "message", order[cursor + 1])
        BY <1>3, <3>1, <4>1, PositionInScript
      <4>3. ScriptPosition(executions[e]) = cursor + 1
        BY <2>5, <2>6, <4>1, <4>2, PositionOfMessage
      <4>4. QED
        BY <2>5, <2>7, <4>3
    <3>2. CASE executions[e].resultKind = "summary"
      <4>1. ScriptPosition(executions[e]) = Len(order) + 1
        BY <1>3, <3>2 DEF ScriptPosition
      <4>2. QED
        BY <2>5, <2>7, <4>1
    <3>3. QED
      BY <2>4, <3>1, <3>2
  <2>9. QED
    BY <1>3, <1>4, <1>10, <2>7, <2>8
<1>11. QED
  BY <1>7, <1>8, <1>9, <1>10

\* What a step may not touch in a Round that is open or over.
ScriptKept(r) ==
  rounds[r].phase # "none" =>
    /\ rounds'[r].participantOrder = rounds[r].participantOrder
    /\ rounds[r].focusMessageId # None => rounds'[r].focusMessageId = rounds[r].focusMessageId

LEMMA ItemStays ==
  ASSUME ScriptInv, Inv', VerdictsStand, \A r \in RoundIds : ScriptKept(r),
         NEW i \in DOMAIN projection, IsModelItem(i), projection'[i] = projection[i]
  PROVE  /\ ItemFits(i)'
         /\ Source(i)'.resultKind = Source(i).resultKind
         /\ ScriptPosition(Source(i))' = ScriptPosition(Source(i))
         /\ rounds'[projection[i].roundId].focusMessageId = rounds[projection[i].roundId].focusMessageId
<1>1. Inv /\ AccountInv /\ LandedInv
  BY DEF ScriptInv, AccountInv, RetryInv
<1>2. PICK d \in ExecutionIds : d = projection[i].sourceExecutionId /\ Committed(d)
  BY <1>1, ItemsAreCommitted
<1>3. SameAsked(d)
  BY <1>1, <1>2, EndedIsKept DEF Decided
<1>4. PICK r : r = projection[i].roundId
  OBVIOUS
<1>5. executions[d].roundId = r /\ Source(i) = executions[d] /\ Source(i)' = executions'[d]
  BY <1>1, <1>2, <1>4 DEF LandedInv, Landed, Source
<1>6. r \in RoundIds
  BY <1>1, <1>2, <1>5 DEF Inv, Typed, BegunHasRound, Committed
<1>7. rounds[r].phase # "none"
  BY <1>1, <1>2, <1>5 DEF AccountInv, BegunHasRoundRow, Begun, Committed
<1>8. ItemFits(i)
  BY DEF ScriptInv, ItemsFit
<1>9. /\ rounds'[r].participantOrder = rounds[r].participantOrder
      /\ rounds'[r].focusMessageId = rounds[r].focusMessageId
      /\ rounds[r].phase = "completed" => rounds'[r].phase = "completed"
  BY <1>4, <1>6, <1>7, <1>8 DEF ScriptKept, ItemFits, VerdictsStand, RoundStands, FinalPhases
<1>10. ItemFits(i)'
  BY <1>3, <1>4, <1>5, <1>8, <1>9 DEF ItemFits, SameAsked
<1>11. ScriptPosition(Source(i))' = ScriptPosition(Source(i))
  <2>1. ScriptPosition(executions[d])' = ScriptPosition(executions[d])
    BY <1>3, <1>5, <1>9, PositionInScript, PositionNextInScript DEF SameAsked
  <2>2. ScriptPosition(Source(i))' = ScriptPosition(executions[d])'
    BY <1>2 DEF Source
  <2>3. QED
    BY <1>5, <2>1, <2>2
<1>12. QED
  BY <1>3, <1>4, <1>5, <1>9, <1>10, <1>11 DEF SameAsked

LEMMA SpokenStays ==
  ASSUME ScriptInv, Inv', VerdictsStand, \A r \in RoundIds : ScriptKept(r),
         NEW j \in DOMAIN projection, IsModelItem(j),
         \A i \in DOMAIN projection : projection'[i] = projection[i]
  PROVE  SpokenAt(j)'
<1>1. projection \in Seq(Items) /\ \A i \in 1 .. j - 1 : i \in DOMAIN projection
  BY DEF ScriptInv, LandedInv, Typed, TypeOK, EntitiesType
<1>2. SpokenAt(j)
  BY SpokenSuffices DEF ScriptInv
<1>3. ASSUME NEW i \in 1 .. j - 1, IsModelItem(i)'
      PROVE  \/ projection'[i].roundId < projection'[j].roundId
             \/ /\ projection'[i].roundId = projection'[j].roundId
                /\ ScriptPosition(Source(i))' < ScriptPosition(Source(j))'
  <2>1. i \in DOMAIN projection /\ projection'[i] = projection[i] /\ projection'[j] = projection[j]
    BY <1>1
  <2>2. IsModelItem(i)
    BY <1>3, <2>1 DEF IsModelItem
  <2>3. QED
    BY <1>2, <2>1, <2>2, ItemStays DEF SpokenAt
<1>4. ASSUME Source(j)'.resultKind # "focus"
      PROVE  \E i \in 1 .. j - 1 : /\ projection'[i].roundId = projection'[j].roundId
                                   /\ projection'[i].sourceExecutionId
                                        = rounds'[projection'[j].roundId].focusMessageId
  <2>1. Source(j).resultKind # "focus"
    BY <1>4, ItemStays
  <2>2. PICK i \in 1 .. j - 1 : /\ projection[i].roundId = projection[j].roundId
                                /\ projection[i].sourceExecutionId
                                     = rounds[projection[j].roundId].focusMessageId
    BY <1>2, <2>1 DEF SpokenAt
  <2>3. projection'[i] = projection[i] /\ projection'[j] = projection[j]
    BY <1>1
  <2>4. rounds'[projection[j].roundId].focusMessageId = rounds[projection[j].roundId].focusMessageId
    BY <2>3, ItemStays
  <2>5. QED
    BY <2>2, <2>3, <2>4
<1>5. QED
  BY <1>3, <1>4 DEF SpokenAt

LEMMA RoundsStayInOrder ==
  ASSUME RoundsInOrder, VerdictsStand,
         \A r \in RoundIds : rounds[r].phase = "none" => rounds'[r].phase = "none"
  PROVE  RoundsInOrder'
BY DEF RoundsInOrder, VerdictsStand, RoundStands

LEMMA CreateRoundKeepsOrder ==
  ASSUME ScriptInv, VerdictsStand, NEW t \in Tokens, NEW r \in RoundIds, NEW order \in Orders,
         CreateRound(t, r, order)
  PROVE  /\ RoundsInOrder'
         /\ \A q \in RoundIds : /\ ScriptKept(q)
                                /\ rounds'[q].focusMessageId \in {None, rounds[q].focusMessageId}
<1>1. Inv /\ \A q \in RoundIds : rounds[q] \in Rounds
  BY DEF ScriptInv, AccountInv, RetryInv, Inv, Typed, TypeOK, RowsType
<1>2. /\ rounds' = [rounds EXCEPT ![r] = [NoRound EXCEPT !.phase = "pending", !.participantOrder = order]]
      /\ room.activeRoundId = None /\ NextRound(r)
  BY DEF CreateRound
<1>3. \A q \in RoundIds \ {r} : rounds'[q] = rounds[q]
  BY <1>1, <1>2
<1>4. rounds'[r].focusMessageId = None /\ rounds[r].phase = "none"
  BY <1>1, <1>2 DEF Inv, Typed, TypeOK, RowsType, NoRound, NextRound
<1>5. \A q \in RoundIds : q < r => rounds[q].phase \in FinalPhases
  BY <1>1, <1>2, ActiveIsUnfinished, RoundIdsAssumption DEF NextRound, Unfinished
<1>6. ASSUME NEW q \in RoundIds, NEW s \in RoundIds, q < s, rounds'[s].phase # "none"
      PROVE  rounds'[q].phase \in FinalPhases
  <2>1. rounds[q].phase \in FinalPhases
    BY <1>3, <1>5, <1>6 DEF ScriptInv, RoundsInOrder
  <2>2. QED
    BY <2>1 DEF VerdictsStand, RoundStands
<1>7. \A q \in RoundIds : ScriptKept(q)
  BY <1>3, <1>4 DEF ScriptKept
<1>8. QED
  BY <1>3, <1>4, <1>6, <1>7 DEF RoundsInOrder

LEMMA SilentKeepsScript ==
  ASSUME ScriptInv, Inv', VerdictsStand, Silent, \A r \in RoundIds : ScriptKept(r),
         \A r \in RoundIds : rounds'[r].focusMessageId \in {None, rounds[r].focusMessageId}
  PROVE  FocusLanded' /\ ItemsFit' /\ SpokenInOrder'
<1>1. projection \in Seq(Items) /\ projection' \in Seq(Items)
  BY DEF ScriptInv, LandedInv, Inv, Typed, TypeOK, EntitiesType
<1>2. /\ \A i \in DOMAIN projection : i \in DOMAIN projection' /\ projection'[i] = projection[i]
      /\ \A i \in DOMAIN projection' : IsModelItem(i)' => i \in DOMAIN projection
  <2>1. CASE UNCHANGED projection
    BY <2>1
  <2>2. ASSUME NEW item \in Items, item.sourceExecutionId = None, projection' = Append(projection, item)
        PROVE  <1>2!1 /\ <1>2!2
    BY <1>1, <2>2 DEF IsModelItem
  <2>3. QED
    BY <2>1, <2>2 DEF Silent
<1>3. FocusLanded'
  <2>1. ASSUME NEW r \in RoundIds, rounds'[r].focusMessageId # None
        PROVE  \E i \in DOMAIN projection' :
                 /\ projection'[i].roundId = r
                 /\ projection'[i].sourceExecutionId = rounds'[r].focusMessageId
    <3>1. rounds'[r].focusMessageId = rounds[r].focusMessageId
      BY <2>1
    <3>2. PICK i \in DOMAIN projection : /\ projection[i].roundId = r
                                         /\ projection[i].sourceExecutionId = rounds[r].focusMessageId
      BY <2>1, <3>1 DEF ScriptInv, FocusLanded
    <3>3. QED
      BY <1>2, <3>1, <3>2
  <2>2. QED
    BY <2>1 DEF FocusLanded
<1>4. ASSUME NEW j \in DOMAIN projection', IsModelItem(j)'
      PROVE  ItemFits(j)' /\ SpokenAt(j)'
  <2>1. j \in DOMAIN projection /\ projection'[j] = projection[j]
    BY <1>2, <1>4
  <2>2. IsModelItem(j)
    BY <1>4, <2>1 DEF IsModelItem
  <2>3. QED
    BY <1>2, <2>1, <2>2, ItemStays, SpokenStays
<1>5. QED
  BY <1>3, <1>4, SpokenNextSuffices DEF ItemsFit

LEMMA LandsKeepsScript ==
  ASSUME ScriptInv, Inv', VerdictsStand, NEW e \in ExecutionIds, Lands(e)
  PROVE  RoundsInOrder' /\ FocusLanded' /\ ItemsFit' /\ SpokenInOrder'
<1>1. Inv /\ AccountInv /\ RetryInv /\ projection \in Seq(Items)
  BY DEF ScriptInv, AccountInv, RetryInv, LandedInv, Typed, TypeOK, EntitiesType
<1>2. PICK r \in RoundIds : r = executions[e].roundId /\ rounds[r].phase \in {"running", "summarizing"}
  BY <1>1, LiveHasRound DEF Lands, OfRound
<1>3. PICK item \in Items : /\ item.roundId = r /\ item.sourceExecutionId = e
                            /\ projection' = Append(projection, item)
  BY <1>2 DEF Lands
<1>a. PICK last \in Nat : last = Len(projection) + 1
  BY <1>1
<1>4. /\ Len(projection) \in Nat /\ DOMAIN projection = 1 .. Len(projection)
      /\ last = Len(projection) + 1
      /\ DOMAIN projection' = 1 .. last
      /\ projection'[last] = item
      /\ \A i \in DOMAIN projection : i \in DOMAIN projection' /\ projection'[i] = projection[i]
  BY <1>1, <1>3, <1>a
<1>5. /\ SameAsked(e)
      /\ \A q \in RoundIds \ {r} : rounds'[q] = rounds[q]
      /\ rounds'[r].participantOrder = rounds[r].participantOrder
      /\ rounds'[r].focusMessageId = IF executions[e].resultKind = "focus" THEN e
                                     ELSE rounds[r].focusMessageId
      /\ executions[e].resultKind = "summary" => rounds'[r].phase = "completed"
      /\ Live(e) /\ OfRound(e)
  BY <1>2 DEF Lands
<1>6. Fits(rounds[r], executions[e]) /\ e # None
  BY <1>1, <1>2, <1>5, ExecutionIdsAssumption DEF RetryInv, LiveFits
<1>7. /\ \A q \in RoundIds : ScriptKept(q)
      /\ \A q \in RoundIds : rounds[q].phase = "none" => rounds'[q].phase = "none"
  BY <1>2, <1>5, <1>6 DEF ScriptKept, Fits
<1>8. RoundsInOrder'
  BY <1>7, RoundsStayInOrder DEF ScriptInv
<1>9. FocusLanded'
  <2>1. ASSUME NEW q \in RoundIds, rounds'[q].focusMessageId # None
        PROVE  \E i \in DOMAIN projection' :
                 /\ projection'[i].roundId = q
                 /\ projection'[i].sourceExecutionId = rounds'[q].focusMessageId
    <3>1. CASE rounds'[q].focusMessageId = rounds[q].focusMessageId
      <4>1. PICK i \in DOMAIN projection : /\ projection[i].roundId = q
                                           /\ projection[i].sourceExecutionId = rounds[q].focusMessageId
        BY <2>1, <3>1 DEF ScriptInv, FocusLanded
      <4>2. QED
        BY <1>4, <3>1, <4>1
    <3>2. CASE q = r /\ rounds'[q].focusMessageId = e
      BY <1>3, <1>4, <3>2
    <3>3. QED
      BY <1>5, <3>1, <3>2
  <2>2. QED
    BY <2>1 DEF FocusLanded
<1>10. Source(last)' = executions'[e] /\ projection'[last].roundId = r
  BY <1>3, <1>4 DEF Source
<1>11. ItemFits(last)'
  <2>1. rounds'[r].focusMessageId # None
    BY <1>5, <1>6 DEF Fits
  <2>2. executions[e].resultKind = "message" =>
          \E k \in DOMAIN rounds[r].participantOrder :
            rounds[r].participantOrder[k] = executions[e].participantId
    <3>1. rounds[r].participantOrder \in Seq(Participants) /\ rounds[r].nextParticipantIndex \in Nat
      BY <1>1 DEF Inv, Typed, TypeOK, RowsType, Rounds
    <3>2. QED
      BY <1>6, <3>1 DEF Fits, AtCursor
  <2>3. QED
    BY <1>5, <1>10, <2>1, <2>2 DEF ItemFits, OfRound, SameAsked
<1>12. SpokenAt(last)'
  <2>1. ScriptPosition(Source(last))' = ScriptPosition(executions[e])
    <3>1. ScriptPosition(Source(last))' = ScriptPosition(executions[e])'
      BY <1>3, <1>4 DEF Source
    <3>2. ScriptPosition(executions[e])' = ScriptPosition(executions[e])
      BY <1>2, <1>5, PositionInScript, PositionNextInScript DEF SameAsked
    <3>3. QED
      BY <3>1, <3>2
  <2>2. ASSUME NEW i \in 1 .. last - 1, IsModelItem(i)'
        PROVE  \/ projection'[i].roundId < projection'[last].roundId
               \/ /\ projection'[i].roundId = projection'[last].roundId
                  /\ ScriptPosition(Source(i))' < ScriptPosition(Source(last))'
    <3>1. i \in DOMAIN projection /\ projection'[i] = projection[i]
      BY <1>4
    <3>2. IsModelItem(i)
      BY <2>2, <3>1 DEF IsModelItem
    <3>3. ScriptPosition(Source(i))' = ScriptPosition(Source(i))
      BY <1>7, <3>1, <3>2, ItemStays
    <3>4. \/ projection[i].roundId < r
          \/ /\ projection[i].roundId = r
             /\ ScriptPosition(Source(i)) < ScriptPosition(executions[e])
      BY <1>2, <1>5, <3>1, <3>2, LiveIsNext
    <3>5. QED
      BY <1>10, <2>1, <3>1, <3>3, <3>4
  <2>3. ASSUME Source(last)'.resultKind # "focus"
        PROVE  \E i \in 1 .. last - 1 : /\ projection'[i].roundId = projection'[last].roundId
                                        /\ projection'[i].sourceExecutionId
                                             = rounds'[projection'[last].roundId].focusMessageId
    <3>1. executions[e].resultKind # "focus"
      BY <1>5, <1>10, <2>3 DEF SameAsked
    <3>2. rounds[r].focusMessageId # None /\ rounds'[r].focusMessageId = rounds[r].focusMessageId
      BY <1>5, <1>6, <3>1 DEF Fits
    <3>3. PICK i \in DOMAIN projection : /\ projection[i].roundId = r
                                         /\ projection[i].sourceExecutionId = rounds[r].focusMessageId
      BY <3>2 DEF ScriptInv, FocusLanded
    <3>4. i \in 1 .. last - 1
      BY <1>4
    <3>5. QED
      BY <1>4, <1>10, <3>2, <3>3, <3>4
  <2>4. QED
    BY <2>2, <2>3 DEF SpokenAt
<1>13. ASSUME NEW j \in DOMAIN projection', IsModelItem(j)'
       PROVE  ItemFits(j)' /\ SpokenAt(j)'
  <2>1. CASE j = last
    BY <1>11, <1>12, <2>1
  <2>2. CASE j # last
    <3>1. j \in DOMAIN projection /\ projection'[j] = projection[j]
      BY <1>4, <1>13, <2>2
    <3>2. IsModelItem(j)
      BY <1>13, <3>1 DEF IsModelItem
    <3>3. QED
      BY <1>4, <1>7, <3>1, <3>2, ItemStays, SpokenStays
  <2>3. QED
    BY <2>1, <2>2
<1>14. QED
  BY <1>8, <1>9, <1>13, SpokenNextSuffices DEF ItemsFit

LEMMA InitScript == Init => ScriptInv
<1>1. SUFFICES ASSUME Init PROVE RoundsInOrder /\ FocusLanded /\ ItemsFit /\ SpokenInOrder
  BY InitAccount, InitLanded DEF ScriptInv
<1>2. /\ projection = <<>>
      /\ \A r \in RoundIds : rounds[r].phase = "none" /\ rounds[r].focusMessageId = None
  BY <1>1 DEF Init, NoRound
<1>3. DOMAIN projection = {}
  BY <1>2
<1>4. QED
  BY <1>2, <1>3 DEF RoundsInOrder, FocusLanded, ItemsFit, SpokenInOrder

LEMMA NextScript ==
  ASSUME ScriptInv, [Next]_vars
  PROVE  ScriptInv'
<1>1. AccountInv' /\ LandedInv' /\ Inv /\ Inv'
  BY NextAccount, NextLanded DEF ScriptInv, AccountInv, RetryInv
<1>2. VerdictsStand
  <2>1. CASE UNCHANGED vars
    BY <2>1, SameExecutionsStand, SameRoundsStand DEF vars, VerdictsStand
  <2>2. CASE ~ UNCHANGED vars
    BY <1>1, <2>2, NextStands
  <2>3. QED
    BY <2>1, <2>2
<1>3. CASE Silent /\ \A r \in RoundIds : SameTold(r)
  <2>1. \A r \in RoundIds :
          /\ ScriptKept(r)
          /\ rounds'[r].focusMessageId \in {None, rounds[r].focusMessageId}
          /\ rounds[r].phase = "none" => rounds'[r].phase = "none"
    BY <1>3 DEF SameTold, ScriptKept
  <2>2. RoundsInOrder'
    BY <1>2, <2>1, RoundsStayInOrder DEF ScriptInv
  <2>3. FocusLanded' /\ ItemsFit' /\ SpokenInOrder'
    BY <1>1, <1>2, <1>3, <2>1, SilentKeepsScript
  <2>4. QED
    BY <1>1, <2>2, <2>3 DEF ScriptInv
<1>4. CASE Silent /\ \E t \in Tokens, r \in RoundIds, order \in Orders : CreateRound(t, r, order)
  <2>1. /\ RoundsInOrder'
        /\ \A r \in RoundIds : /\ ScriptKept(r)
                               /\ rounds'[r].focusMessageId \in {None, rounds[r].focusMessageId}
    BY <1>2, <1>4, CreateRoundKeepsOrder
  <2>2. FocusLanded' /\ ItemsFit' /\ SpokenInOrder'
    BY <1>1, <1>2, <1>4, <2>1, SilentKeepsScript
  <2>3. QED
    BY <1>1, <2>1, <2>2 DEF ScriptInv
<1>5. CASE \E e \in ExecutionIds : Lands(e)
  BY <1>1, <1>2, <1>5, LandsKeepsScript DEF ScriptInv
<1>6. CASE UNCHANGED vars
  <2>1. Silent /\ \A r \in RoundIds : SameTold(r)
    BY <1>6 DEF vars, Silent, SameTold, Committed
  <2>2. QED
    BY <1>3, <2>1
<1>7. QED
  BY <1>1, <1>3, <1>4, <1>5, <1>6, NextTells

\* Entities stand in the transcript in the order of the script: Round after Round, in
\* each the focus, then the participants in their order, then the summary, no slot
\* twice, for any number of Rounds, participants, retries, skips and controllers.
THEOREM TranscriptFollowsScript == Spec => []SpokenInOrder
BY InitScript, NextScript, PTL DEF Spec, ScriptInv
===============================================================================
