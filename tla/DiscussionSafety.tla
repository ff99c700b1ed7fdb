--------------------------- MODULE DiscussionSafety ---------------------------
(***************************************************************************)
(* The rows of one Room stay well formed; the Room, its Rounds and their   *)
(* executions stay in step; and the context pair of the Room follows the   *)
(* shared projection, where each commit lands once: for every number of    *)
(* Rounds, executions, tokens, participants and user writes.               *)
(***************************************************************************)
EXTENDS DiscussionProperties, TLAPS, SequenceTheorems, FiniteSetTheorems

\* A row that was written has its Round (the schema's required roundId).
BegunHasRound ==
  \A e \in ExecutionIds : executions[e].state # "none" => executions[e].roundId \in RoundIds

Typed == TypeOK /\ BegunHasRound

-----------------------------------------------------------------------------
(* What the helpers return.                                                *)

LEMMA PausedIsRound ==
  ASSUME NEW round \in Rounds, NEW reason \in PauseReasons,
         round.phase \in {"prewarming", "running", "summarizing"}
  PROVE  Paused(round, reason) \in Rounds
BY DEF Paused, Rounds, RoundPhases

LEMMA AbortedIsRound ==
  ASSUME NEW round \in Rounds
  PROVE  Aborted(round) \in Rounds
BY DEF Aborted, Rounds, RoundPhases

LEMMA WithoutExecutionIsRound ==
  ASSUME RowsType, NEW round \in Rounds, NEW e \in ExecutionIds, NEW pause \in BOOLEAN
  PROVE  WithoutExecution(round, e, pause) \in Rounds
<1>1. DEFINE freed  == [round EXCEPT !.activeExecutionId = None]
             reason == [participantId |-> executions[e].participantId, executionId |-> e]
<1>2. freed \in Rounds /\ freed.phase = round.phase
  BY DEF Rounds
<1>3. reason \in PauseReasons
  BY DEF RowsType, Executions, PauseReasons
<1>4. round.phase \in {"running", "summarizing"} => Paused(freed, reason) \in Rounds
  <2>1. HIDE DEF freed, reason
  <2>2. QED
    BY <1>2, <1>3, PausedIsRound
<1>5. QED
  BY <1>2, <1>4 DEF WithoutExecution

LEMMA BumpedIsRoom ==
  ASSUME NEW row \in RoomRows, NEW topic \in Topics, NEW items \in Seq(Items)
  PROVE  /\ BumpRoomContext(row, topic, items) \in RoomRows
         /\ LET bumped == BumpRoomContext(row, topic, items)
            IN  [revision |-> bumped.contextRevision, digest |-> bumped.contextDigest] \in Contexts
<1>1. ComputeContextDigest(topic, items) \in Digests
  <2>1. Len(items) \in Nat
    OBVIOUS
  <2>2. QED
    BY <2>1 DEF ComputeContextDigest, Digests
<1>2. DEFINE digest == ComputeContextDigest(topic, items)
<1>3. HIDE DEF digest
<1>4. digest \in Digests
  BY <1>1 DEF digest
<1>5. BumpRoomContext(row, topic, items) =
        [row EXCEPT !.topic = topic, !.contextRevision = @ + 1, !.contextDigest = digest]
  BY DEF BumpRoomContext, digest
<1>6. row.contextRevision + 1 \in Nat
  BY DEF RoomRows
<1>7. BumpRoomContext(row, topic, items) \in RoomRows
  BY <1>4, <1>5, <1>6 DEF RoomRows
<1>8. QED
  BY <1>7 DEF RoomRows, Contexts

\* The writes into the projection: the appended item and the bumped row.
LEMMA AppendKeepsType ==
  ASSUME TypeOK, NEW item \in Items, AppendItem(item)
  PROVE  /\ projection' \in Seq(Items)
         /\ BumpRoomContext(room, room.topic, projection') \in RoomRows
         /\ ContextType'
<1>1. projection' \in Seq(Items)
  BY DEF AppendItem, TypeOK, EntitiesType
<1>2. room.topic \in Topics /\ room \in RoomRows
  BY DEF TypeOK, RowsType, RoomRows
<1>3. /\ BumpRoomContext(room, room.topic, projection') \in RoomRows
      /\ LET bumped == BumpRoomContext(room, room.topic, projection')
         IN  [revision |-> bumped.contextRevision, digest |-> bumped.contextDigest] \in Contexts
  BY <1>1, <1>2, BumpedIsRoom
<1>4. ContextType'
  BY <1>3 DEF AppendItem, Publish, TypeOK, ContextType
<1>5. QED
  BY <1>1, <1>3, <1>4

-----------------------------------------------------------------------------
(* Every action keeps the rows well formed.                                *)

ExecutionsTyped == executions \in [ExecutionIds -> Executions] /\ BegunHasRound

LEMMA PersistTyped ==
  ASSUME Typed, NEW e \in ExecutionIds, NEW state \in ExecutionStates, Persist(e, state),
         executions[e].state # "none"
  PROVE  ExecutionsTyped'
BY DEF Typed, TypeOK, RowsType, Persist, ExecutionsTyped, BegunHasRound, Executions

LEMMA DiscardTyped ==
  ASSUME Typed, NEW e \in ExecutionIds, executions[e].state # "none", DiscardLockedExecution(e)
  PROVE  Typed'
<1>1. ExecutionsTyped'
  BY PersistTyped DEF DiscardLockedExecution, ExecutionStates
<1>2. rounds' \in [RoundIds -> Rounds]
  BY WithoutExecutionIsRound DEF DiscardLockedExecution, Typed, TypeOK, RowsType
<1>3. QED
  BY <1>1, <1>2 DEF DiscardLockedExecution, ExecutionsTyped, Typed, TypeOK, RowsType,
                    EntitiesType, BindingsType, ContextType

LEMMA WriteTopicTyped ==
  ASSUME Typed, NEW topic \in Topics, WriteTopic(topic)
  PROVE  Typed'
<1>1. projection \in Seq(Items) /\ room \in RoomRows
  BY DEF Typed, TypeOK, RowsType, EntitiesType
<1>2. /\ room' \in RoomRows
      /\ [revision |-> room'.contextRevision, digest |-> room'.contextDigest] \in Contexts
  BY <1>1, BumpedIsRoom DEF WriteTopic
<1>3. published' = published \cup
        {[revision |-> room'.contextRevision, digest |-> room'.contextDigest]}
  BY DEF WriteTopic, Publish
<1>4. QED
  BY <1>2, <1>3 DEF WriteTopic, Typed, TypeOK, RowsType, EntitiesType, BindingsType,
                    ContextType, BegunHasRound

LEMMA ContextStepTyped ==
  ASSUME Typed, NEW t \in Tokens, ContextStep(t)
  PROVE  Typed'
<1>1. ASSUME NEW r \in RoundIds, AppendUserMessage(t, r)
      PROVE  Typed'
  <2>1. PICK item \in Items : AppendItem(item)
    BY <1>1 DEF AppendUserMessage, Items
  <2>2. /\ projection' \in Seq(Items)
        /\ room' \in RoomRows
        /\ ContextType'
    BY <1>1, <2>1, AppendKeepsType DEF AppendUserMessage, Typed
  <2>3. QED
    BY <1>1, <2>2 DEF AppendUserMessage, Typed, TypeOK, RowsType, EntitiesType, BindingsType,
                      BegunHasRound
<1>2. ASSUME NEW topic \in Topics, WriteTopic(topic)
      PROVE  Typed'
  BY <1>2, WriteTopicTyped
<1>3. ASSUME NEW runState \in {"running", "paused"}, SetRoomRunState(t, runState)
      PROVE  Typed'
  BY <1>3 DEF SetRoomRunState, Typed, TypeOK, RowsType, RoomRows, EntitiesType, BindingsType,
              ContextType, BegunHasRound
<1>4. QED
  BY <1>1, <1>2, <1>3 DEF ContextStep, UpdateRoomSharedConfig

LEMMA InterruptTyped ==
  ASSUME Typed, NEW e \in ExecutionIds \cup {None}, executions' = InterruptIfLive(e)
  PROVE  ExecutionsTyped'
<1>1. CASE e # None /\ Live(e)
  <2>1. e \in ExecutionIds /\ executions[e].state # "none"
    BY <1>1 DEF Live, LiveStates
  <2>2. executions' = [executions EXCEPT ![e].state = "interrupted", ![e].ackState = None]
    BY <1>1 DEF InterruptIfLive
  <2>3. [executions[e] EXCEPT !.state = "interrupted", !.ackState = None] \in Executions
    BY <2>1 DEF Typed, TypeOK, RowsType, Executions, ExecutionStates
  <2>4. executions' \in [ExecutionIds -> Executions]
    BY <2>1, <2>2, <2>3 DEF Typed, TypeOK, RowsType
  <2>5. BegunHasRound'
    BY <2>1, <2>2 DEF Typed, TypeOK, RowsType, Executions, BegunHasRound
  <2>6. QED
    BY <2>4, <2>5 DEF ExecutionsTyped
<1>2. CASE ~ (e # None /\ Live(e))
  BY <1>2 DEF InterruptIfLive, Typed, TypeOK, RowsType, ExecutionsTyped, BegunHasRound
<1>3. QED
  BY <1>1, <1>2

LEMMA RoundStepTyped ==
  ASSUME Typed, NEW t \in Tokens, RoundStep(t)
  PROVE  Typed'
<1>0. USE DEF Typed, TypeOK
<1>1. PICK r \in RoundIds :
        \/ \E order \in Orders : CreateRound(t, r, order)
        \/ \E to \in {"prewarming", "running"} : TransitionRound(t, r, to)
        \/ PrewarmFailed(t, r)
        \/ RetryFailedParticipant(t, r)
        \/ AbortRound(t, r)
        \/ SkipParticipant(t, r)
  BY DEF RoundStep
<1>2. ASSUME NEW order \in Orders, CreateRound(t, r, order)
      PROVE  Typed'
  <2>1. order \in Seq(Participants)
    BY OrdersAssumption
  <2>2. [NoRound EXCEPT !.phase = "pending", !.participantOrder = order] \in Rounds
    BY <2>1 DEF NoRound, Rounds, RoundPhases
  <2>3. rounds' \in [RoundIds -> Rounds]
    BY <1>2, <2>2 DEF CreateRound, RowsType
  <2>4. room' \in RoomRows
    BY <1>2 DEF CreateRound, RowsType, RoomRows
  <2>5. QED
    BY <1>2, <2>3, <2>4 DEF CreateRound, RowsType, EntitiesType, BindingsType, ContextType,
                            BegunHasRound
<1>3. ASSUME NEW to \in {"prewarming", "running"}, TransitionRound(t, r, to)
      PROVE  Typed'
  <2>1. rounds' \in [RoundIds -> Rounds]
    BY <1>3, ZenonT(60) DEF TransitionRound, RowsType, Rounds, RoundPhases
  <2>2. QED
    BY <1>3, <2>1 DEF TransitionRound, RowsType, EntitiesType, BindingsType, ContextType,
                      BegunHasRound
<1>4. CASE PrewarmFailed(t, r)
  <2>1. PICK reason \in PauseReasons : PauseRound(t, r, reason)
    BY <1>4 DEF PrewarmFailed, PauseReasons
  <2>2. Paused(rounds[r], reason) \in Rounds
    BY <2>1, PausedIsRound DEF PauseRound, RowsType
  <2>3. rounds' \in [RoundIds -> Rounds]
    BY <2>1, <2>2 DEF PauseRound, RowsType
  <2>4. QED
    BY <2>1, <2>3 DEF PauseRound, RowsType, EntitiesType, BindingsType, ContextType, BegunHasRound
<1>5. CASE RetryFailedParticipant(t, r)
  <2>1. rounds' \in [RoundIds -> Rounds]
    BY <1>5 DEF RetryFailedParticipant, ResumeRound, RowsType, Rounds, RoundPhases
  <2>2. QED
    BY <1>5, <2>1 DEF RetryFailedParticipant, ResumeRound, RowsType, EntitiesType, BindingsType,
                      ContextType, BegunHasRound
<1>6. CASE AbortRound(t, r)
  <2>1. Aborted(rounds[r]) \in Rounds
    BY AbortedIsRound DEF RowsType
  <2>2. rounds' \in [RoundIds -> Rounds]
    BY <1>6, <2>1 DEF AbortRound, RowsType
  <2>3. room' \in RoomRows
    BY <1>6 DEF AbortRound, RowsType, RoomRows
  <2>4. ExecutionsTyped'
    <3>1. rounds[r].activeExecutionId \in ExecutionIds \cup {None}
      BY DEF RowsType, Rounds
    <3>2. QED
      BY <1>6, <3>1, InterruptTyped DEF AbortRound
  <2>5. QED
    BY <1>6, <2>2, <2>3, <2>4 DEF AbortRound, ExecutionsTyped, RowsType, EntitiesType,
                                  BindingsType, ContextType
<1>7. CASE SkipParticipant(t, r)
  <2>1. PICK cursor \in Nat, phase \in {"running", "summarizing"} :
          rounds' = [rounds EXCEPT ![r] =
            [rounds[r] EXCEPT !.nextParticipantIndex = cursor, !.activeExecutionId = None,
                              !.pausedFrom = None, !.pauseReason = None, !.phase = phase]]
    <3>1. rounds[r].nextParticipantIndex + 1 \in Nat
      BY DEF RowsType, Rounds
    <3>2. QED
      BY <1>7, <3>1 DEF SkipParticipant
  <2>2. rounds' \in [RoundIds -> Rounds]
    BY <2>1, ZenonT(60) DEF RowsType, Rounds, RoundPhases
  <2>3. QED
    BY <1>7, <2>2 DEF SkipParticipant, RowsType, EntitiesType, BindingsType, ContextType,
                      BegunHasRound
<1>8. QED
  BY <1>1, <1>2, <1>3, <1>4, <1>5, <1>6, <1>7

LEMMA AddExecutionTyped ==
  ASSUME Typed, NEW e \in ExecutionIds, NEW kind \in ResultKinds, NEW r \in RoundIds,
         NEW p \in Participants, NEW ctx \in published, AddExecution(e, kind, r, p, ctx)
  PROVE  ExecutionsTyped'
<1>1. ctx \in Contexts
  BY DEF Typed, TypeOK, ContextType
<1>2. QED
  BY <1>1 DEF AddExecution, Typed, TypeOK, RowsType, Executions, ExecutionStates,
              ExecutionsTyped, BegunHasRound

LEMMA BeginStepTyped ==
  ASSUME Typed, NEW t \in Tokens, BeginStep(t)
  PROVE  Typed'
<1>0. USE DEF Typed, TypeOK
<1>1. PICK e \in ExecutionIds, r \in RoundIds, p \in Participants, ctx \in published :
        \/ \E kind \in {"message", "summary"} : BeginExecution(t, e, kind, r, p, ctx)
        \/ BeginFocusExecution(t, e, r, p, ctx)
        \/ BeginReportExecution(t, e, r, p, ctx)
  BY DEF BeginStep
<1>2. ASSUME NEW kind \in ResultKinds, AddExecution(e, kind, r, p, ctx), Occupy(r, e),
             UNCHANGED <<room, projection, reports, bindings, granted, published>>
      PROVE  Typed'
  <2>1. ExecutionsTyped'
    BY <1>2, AddExecutionTyped
  <2>2. rounds' \in [RoundIds -> Rounds]
    BY <1>2 DEF Occupy, RowsType, Rounds
  <2>3. QED
    BY <1>2, <2>1, <2>2 DEF ExecutionsTyped, RowsType, EntitiesType, BindingsType, ContextType
<1>3. CASE BeginReportExecution(t, e, r, p, ctx)
  <2>1. ExecutionsTyped'
    BY <1>3, AddExecutionTyped DEF BeginReportExecution, ResultKinds
  <2>2. rounds' \in [RoundIds -> Rounds]
    BY <1>3, AbortedIsRound DEF BeginReportExecution, RowsType, RoomRows
  <2>3. room' \in RoomRows
    BY <1>3 DEF BeginReportExecution, RowsType, RoomRows
  <2>4. QED
    BY <1>3, <2>1, <2>2, <2>3 DEF BeginReportExecution, ExecutionsTyped, RowsType, EntitiesType,
                                  BindingsType, ContextType
<1>4. QED
  BY <1>1, <1>2, <1>3 DEF BeginExecution, BeginFocusExecution, ResultKinds

\* A commit into the shared projection, whatever it makes of its Round.
LEMMA CommitTyped ==
  ASSUME Typed, NEW e \in ExecutionIds, NEW role \in {"participant", "summary"},
         executions[e].state # "none", Persist(e, "committed"), AppendItem(ItemOf(e, role)),
         room' \in RoomRows \/ room' = BumpRoomContext(room, room.topic, projection'),
         rounds' \in [RoundIds -> Rounds], UNCHANGED <<reports, bindings, granted>>
  PROVE  Typed'
<1>1. ItemOf(e, role) \in Items
  BY DEF ItemOf, Items, Typed, TypeOK, RowsType, Executions, BegunHasRound
<1>2. /\ projection' \in Seq(Items)
      /\ BumpRoomContext(room, room.topic, projection') \in RoomRows
      /\ ContextType'
  BY <1>1, AppendKeepsType DEF Typed
<1>3. ExecutionsTyped'
  BY PersistTyped DEF ExecutionStates
<1>4. QED
  BY <1>2, <1>3 DEF ExecutionsTyped, Typed, TypeOK, RowsType, EntitiesType, BindingsType

LEMMA FailureTyped ==
  ASSUME Typed, NEW e \in ExecutionIds, NEW kind \in {"failed", "interrupted"},
         NEW pause \in BOOLEAN, RecordExecutionFailure(e, kind, pause)
  PROVE  Typed'
<1>0. USE DEF Typed, TypeOK
<1>1. executions[e].state # "none"
  BY DEF RecordExecutionFailure, Live, LiveStates
<1>2. [executions[e] EXCEPT !.state = kind, !.ackState = None] \in Executions
  BY DEF RowsType, Executions, ExecutionStates
<1>3. executions' \in [ExecutionIds -> Executions]
  BY <1>2 DEF RecordExecutionFailure, RowsType
<1>4. BegunHasRound'
  BY <1>1 DEF RecordExecutionFailure, RowsType, Executions, BegunHasRound
<1>5. rounds' \in [RoundIds -> Rounds]
  BY WithoutExecutionIsRound DEF RecordExecutionFailure, RowsType
<1>6. QED
  BY <1>3, <1>4, <1>5 DEF RecordExecutionFailure, RowsType, EntitiesType, BindingsType, ContextType

LEMMA EndStepTyped ==
  ASSUME Typed, NEW t \in Tokens, EndStep(t)
  PROVE  Typed'
<1>0. USE DEF Typed, TypeOK
<1>1. PICK e \in ExecutionIds :
        \/ CommitModelMessage(t, e)
        \/ CommitFocusMessage(t, e)
        \/ CommitSummary(t, e)
        \/ CommitReport(t, e)
        \/ DiscardExecution(t, e)
        \/ \E kind \in {"failed", "interrupted"}, pause \in BOOLEAN : FailExecution(t, e, kind, pause)
  BY DEF EndStep
<1>2. DEFINE r == executions[e].roundId
<1>3. ASSUME NEW kind, Committable(t, e, kind)
      PROVE  executions[e].state # "none" /\ r \in RoundIds
  BY <1>3 DEF Committable, BegunHasRound
<1>4. CASE CommitModelMessage(t, e)
  <2>1. executions[e].state # "none" /\ r \in RoundIds
    BY <1>3, <1>4 DEF CommitModelMessage
  <2>2. CASE DiscardLockedExecution(e)
    BY <2>1, <2>2, DiscardTyped
  <2>3. CASE FreshContext(e)
    <3>1. PICK cursor \in Nat, phase \in {"running", "summarizing"} :
            rounds' = [rounds EXCEPT ![r] =
              [rounds[r] EXCEPT !.activeExecutionId = None, !.nextParticipantIndex = cursor,
                                !.phase = phase]]
      <4>1. rounds[r].nextParticipantIndex + 1 \in Nat
        BY <2>1 DEF RowsType, Rounds
      <4>2. QED
        BY <1>4, <2>3, <4>1 DEF CommitModelMessage
    <3>2. rounds' \in [RoundIds -> Rounds]
      BY <2>1, <3>1, ZenonT(60) DEF RowsType, Rounds, RoundPhases
    <3>3. QED
      BY <1>4, <2>1, <2>3, <3>2, CommitTyped DEF CommitModelMessage
  <2>4. QED
    BY <1>4, <2>2, <2>3 DEF CommitModelMessage
<1>5. CASE CommitFocusMessage(t, e)
  <2>1. executions[e].state # "none" /\ r \in RoundIds
    BY <1>3, <1>5 DEF CommitFocusMessage
  <2>2. CASE DiscardLockedExecution(e)
    BY <2>1, <2>2, DiscardTyped
  <2>3. CASE FreshContext(e)
    <3>1. rounds' \in [RoundIds -> Rounds]
      <4>1. rounds' = [rounds EXCEPT ![r] =
                         [rounds[r] EXCEPT !.activeExecutionId = None, !.focusMessageId = e]]
        BY <1>5, <2>1, <2>3 DEF CommitFocusMessage, RowsType
      <4>2. QED
        BY <2>1, <4>1 DEF RowsType, Rounds
    <3>2. QED
      BY <1>5, <2>1, <2>3, <3>1, CommitTyped DEF CommitFocusMessage
  <2>4. QED
    BY <1>5, <2>2, <2>3 DEF CommitFocusMessage
<1>6. CASE CommitSummary(t, e)
  <2>1. executions[e].state # "none" /\ r \in RoundIds
    BY <1>3, <1>6 DEF CommitSummary
  <2>2. CASE DiscardLockedExecution(e)
    BY <2>1, <2>2, DiscardTyped
  <2>3. CASE FreshContext(e)
    <3>1. rounds' \in [RoundIds -> Rounds]
      <4>1. rounds' = [rounds EXCEPT ![r] =
                         [rounds[r] EXCEPT !.phase = "completed", !.activeExecutionId = None]]
        BY <1>6, <2>1, <2>3 DEF CommitSummary, RowsType
      <4>2. QED
        BY <2>1, <4>1, ZenonT(60) DEF RowsType, Rounds, RoundPhases
    <3>2. AppendItem(ItemOf(e, "summary")) /\ ItemOf(e, "summary") \in Items
      BY <1>6, <2>1, <2>3 DEF CommitSummary, ItemOf, Items
    <3>3. BumpRoomContext(room, room.topic, projection') \in RoomRows
      BY <3>2, AppendKeepsType
    <3>4. room' \in RoomRows
      BY <1>6, <2>3, <3>3 DEF CommitSummary, RoomRows
    <3>5. QED
      BY <1>6, <2>1, <2>3, <3>1, <3>4, CommitTyped DEF CommitSummary
  <2>4. QED
    BY <1>6, <2>2, <2>3 DEF CommitSummary
<1>7. CASE CommitReport(t, e)
  <2>1. ExecutionsTyped'
    BY <1>3, <1>7, PersistTyped DEF CommitReport, ExecutionStates
  <2>2. room' \in RoomRows
    BY <1>7 DEF CommitReport, RowsType, RoomRows
  <2>3. QED
    BY <1>7, <2>1, <2>2 DEF CommitReport, ExecutionsTyped, RowsType, EntitiesType, BindingsType,
                            ContextType
<1>8. CASE DiscardExecution(t, e)
  BY <1>8, DiscardTyped DEF DiscardExecution
<1>9. ASSUME NEW kind \in {"failed", "interrupted"}, NEW pause \in BOOLEAN,
             FailExecution(t, e, kind, pause)
      PROVE  Typed'
  BY <1>9, FailureTyped DEF FailExecution
<1>10. QED
  BY <1>1, <1>4, <1>5, <1>6, <1>7, <1>8, <1>9

LEMMA SetStateTyped ==
  ASSUME Typed, NEW e \in ExecutionIds, NEW from \in LiveStates, NEW to \in LiveStates,
         SetState(e, from, to)
  PROVE  Typed'
<1>0. USE DEF Typed, TypeOK
<1>1. executions' \in [ExecutionIds -> Executions]
  BY DEF SetState, RowsType, Executions, ExecutionStates, LiveStates
<1>2. BegunHasRound'
  BY DEF SetState, RowsType, Executions, LiveStates, BegunHasRound
<1>3. QED
  BY <1>1, <1>2 DEF SetState, RowsType, EntitiesType, BindingsType, ContextType

LEMMA UncontrolledStepTyped ==
  ASSUME Typed, UncontrolledStep
  PROVE  Typed'
<1>1. ASSUME NEW topic \in Topics, RenameColdRoom(topic)
      PROVE  Typed'
  BY <1>1, WriteTopicTyped DEF RenameColdRoom
<1>2. ASSUME NEW e \in ExecutionIds,
             MarkExecutionDispatched(e) \/ MarkExecutionSucceededUncommitted(e)
      PROVE  Typed'
  BY <1>2, SetStateTyped DEF MarkExecutionDispatched, MarkExecutionSucceededUncommitted, LiveStates
<1>3. ASSUME NEW e \in ExecutionIds, NEW kind \in {"failed", "interrupted"},
             FailUnboundExecution(e, kind)
      PROVE  Typed'
  BY <1>3, FailureTyped DEF FailUnboundExecution
<1>4. ASSUME NEW e \in ExecutionIds, MarkAcknowledged(e) \/ MarkAckExpired(e)
      PROVE  Typed'
  <2>1. PICK ackState \in {"acknowledged", "expired"} : SetAckState(e, ackState)
    BY <1>4 DEF MarkAcknowledged, MarkAckExpired
  <2>2. executions' \in [ExecutionIds -> Executions]
    BY <2>1 DEF SetAckState, Typed, TypeOK, RowsType, Executions
  <2>3. BegunHasRound'
    BY <2>1 DEF SetAckState, Typed, TypeOK, RowsType, Executions, BegunHasRound
  <2>4. QED
    BY <2>1, <2>2, <2>3 DEF SetAckState, Typed, TypeOK, RowsType, EntitiesType, BindingsType,
                            ContextType
<1>5. QED
  BY <1>1, <1>2, <1>3, <1>4 DEF UncontrolledStep

LEMMA BindingsStepTyped ==
  ASSUME Typed, BindingsStep
  PROVE  Typed'
<1>1. BindingsType'
  BY DEF Typed, TypeOK, BindingsStep, CreateRuntimeBinding, ActivateRuntimeBinding,
         TakeoverRuntimeBinding, Grant, MarkBindingClosed, ReleaseRuntime, BindingStep,
         BindingsType, Bindings
<1>2. UNCHANGED <<room, rounds, executions, projection, reports, published>>
  BY DEF BindingsStep, CreateRuntimeBinding, ActivateRuntimeBinding, TakeoverRuntimeBinding,
         Grant, MarkBindingClosed, ReleaseRuntime, BindingStep
<1>3. QED
  BY <1>1, <1>2 DEF Typed, TypeOK, RowsType, EntitiesType, ContextType, BegunHasRound

LEMMA InitTyped == Init => Typed
<1>1. SUFFICES ASSUME NEW topic \in Topics, Init, room.topic = topic,
                      room = [status |-> "open", runState |-> "idle", activeRoundId |-> None,
                              topic |-> topic, contextRevision |-> 0,
                              contextDigest |-> InitialDigest(topic)],
                      executions = [e \in ExecutionIds |->
                        [state |-> "none", resultKind |-> "message", roundId |-> None,
                         participantId |-> Facilitator, ackState |-> None,
                         context |-> [revision |-> 0, digest |-> InitialDigest(topic)]]],
                      published = {[revision |-> 0, digest |-> InitialDigest(topic)]}
               PROVE  Typed
  BY DEF Init
<1>2. InitialDigest(topic) \in Digests
  BY DEF InitialDigest, ComputeContextDigest, Digests
<1>3. room \in RoomRows /\ ContextType
  BY <1>1, <1>2 DEF RoomRows, ContextType, Contexts
<1>4. rounds \in [RoundIds -> Rounds]
  BY <1>1 DEF Init, NoRound, Rounds, RoundPhases
<1>5. ExecutionsTyped
  BY <1>1, <1>2, FacilitatorAssumption
  DEF Executions, ExecutionStates, ResultKinds, Contexts, ExecutionsTyped, BegunHasRound
<1>6. EntitiesType /\ BindingsType
  BY <1>1 DEF Init, EntitiesType, BindingsType, Bindings
<1>7. QED
  BY <1>3, <1>4, <1>5, <1>6 DEF Typed, TypeOK, RowsType, ExecutionsTyped

LEMMA NextTyped ==
  ASSUME Typed, [Next]_vars
  PROVE  Typed'
<1>1. CASE UNCHANGED vars
  BY <1>1 DEF vars, Typed, TypeOK, RowsType, EntitiesType, BindingsType, ContextType, BegunHasRound
<1>2. QED
  BY <1>1, ContextStepTyped, RoundStepTyped, BeginStepTyped, EndStepTyped, UncontrolledStepTyped,
     BindingsStepTyped DEF Next

\* Every row every transaction writes is well formed: no phase, cursor, slot or
\* reference outside what the schema of the tables allows.
THEOREM RowsAreWellFormed == Spec => []TypeOK
BY InitTyped, NextTyped, PTL DEF Spec, Typed
-----------------------------------------------------------------------------
\* The bindings are written by the binding transactions only.
LEMMA BindingsUntouched ==
  ASSUME [Next]_vars, ~ BindingsStep
  PROVE  UNCHANGED <<bindings, granted>>
<1>1. CASE UNCHANGED vars
  BY <1>1 DEF vars
<1>2. CASE \E t \in Tokens : ContextStep(t)
  BY <1>2 DEF ContextStep, AppendUserMessage, UpdateRoomSharedConfig, WriteTopic,
              SetRoomRunState
<1>3. CASE \E t \in Tokens : RoundStep(t)
  BY <1>3 DEF RoundStep, CreateRound, TransitionRound, PrewarmFailed, PauseRound,
              RetryFailedParticipant, ResumeRound, AbortRound, SkipParticipant
<1>4. CASE \E t \in Tokens : BeginStep(t)
  BY <1>4 DEF BeginStep, BeginExecution, BeginFocusExecution, BeginReportExecution
<1>5. CASE \E t \in Tokens : EndStep(t)
  BY <1>5, ZenonT(60) DEF EndStep, CommitModelMessage, CommitFocusMessage, CommitSummary, CommitReport,
              DiscardExecution, DiscardLockedExecution, FailExecution, RecordExecutionFailure
<1>6. CASE UncontrolledStep
  BY <1>6 DEF UncontrolledStep, RenameColdRoom, WriteTopic, MarkExecutionDispatched,
              MarkExecutionSucceededUncommitted, SetState, FailUnboundExecution,
              RecordExecutionFailure, MarkAcknowledged, MarkAckExpired, SetAckState
<1>7. QED
  BY <1>1, <1>2, <1>3, <1>4, <1>5, <1>6 DEF Next

LEMMA BindingsStepKeepsOneLive ==
  ASSUME BindingsType, OneLiveBinding, BindingsStep
  PROVE  BindingsType' /\ OneLiveBinding'
<1>1. PICK b \in BindingIds :
        \/ CreateRuntimeBinding(b)
        \/ \E t \in Tokens : ActivateRuntimeBinding(b, t) \/ TakeoverRuntimeBinding(b, t)
        \/ MarkBindingClosed(b)
        \/ ReleaseRuntime(b)
  BY DEF BindingsStep
<1>2. CASE CreateRuntimeBinding(b)
  BY <1>2 DEF CreateRuntimeBinding, BindingsType, Bindings, OneLiveBinding
<1>3. ASSUME NEW t \in Tokens, ActivateRuntimeBinding(b, t) \/ TakeoverRuntimeBinding(b, t)
      PROVE  BindingsType' /\ OneLiveBinding'
  BY <1>3 DEF ActivateRuntimeBinding, TakeoverRuntimeBinding, Grant, BindingsType, Bindings,
              OneLiveBinding
<1>4. CASE MarkBindingClosed(b) \/ ReleaseRuntime(b)
  BY <1>4 DEF MarkBindingClosed, ReleaseRuntime, BindingStep, BindingsType, Bindings,
              OneLiveBinding
<1>5. QED
  BY <1>1, <1>2, <1>3, <1>4

\* A Room never has two live bindings, so never two controller pairs that its
\* transactions accept (createRuntimeBindingTx's check is enough).
THEOREM SingleBinding == Spec => []OneLiveBinding
<1>1. Init => BindingsType /\ OneLiveBinding
  BY DEF Init, BindingsType, Bindings, OneLiveBinding
<1>2. ASSUME BindingsType, OneLiveBinding, [Next]_vars
      PROVE  BindingsType' /\ OneLiveBinding'
  <2>1. CASE BindingsStep
    BY <2>1, <1>2, BindingsStepKeepsOneLive
  <2>2. CASE ~ BindingsStep
    BY <2>2, <1>2, BindingsUntouched DEF BindingsType, OneLiveBinding
  <2>3. QED
    BY <2>1, <2>2
<1>3. QED
  BY <1>1, <1>2, PTL DEF Spec

-----------------------------------------------------------------------------
(***************************************************************************)
(* In step: a live model call always holds the slot of the Room's one      *)
(* unfinished Round (or is the report of a Room without one).              *)
(*                                                                         *)
(* None of the three properties is inductive alone.  abortRound does not   *)
(* ask whether its Round is the active one: that it interrupts the live    *)
(* execution needs both the anchor and the one unfinished Round.           *)
(***************************************************************************)

InStep == OneUnfinishedRound /\ LiveExecutionIsAnchored /\ AtMostOneLiveExecution

Inv == Typed /\ InStep

Unfinished(r) == rounds[r].phase \notin FinalPhases \cup {"none"}

-----------------------------------------------------------------------------
(* Consequences of the invariant.                                          *)

LEMMA LiveHasRound ==
  ASSUME Inv, NEW e \in ExecutionIds, Live(e)
  PROVE  /\ executions[e].roundId \in RoundIds
         /\ executions[e].resultKind # "report" =>
              /\ room.activeRoundId = executions[e].roundId
              /\ rounds[executions[e].roundId].activeExecutionId = e
              /\ rounds[executions[e].roundId].phase \in {"running", "summarizing"}
         /\ executions[e].resultKind = "report" => room.activeRoundId = None
<1>1. executions[e].roundId \in RoundIds
  BY DEF Inv, Typed, BegunHasRound, Live, LiveStates
<1>2. QED
  BY <1>1 DEF Inv, InStep, LiveExecutionIsAnchored

\* While e is live every slot is free or holds e.
LEMMA SlotsOfLive ==
  ASSUME Inv, NEW e \in ExecutionIds, Live(e), NEW r \in RoundIds
  PROVE  rounds[r].activeExecutionId \in {None, e}
<1>1. rounds[r].activeExecutionId \in ExecutionIds \cup {None}
  BY DEF Inv, Typed, TypeOK, RowsType, Rounds
<1>2. QED
  BY <1>1 DEF Inv, InStep, LiveExecutionIsAnchored, AtMostOneLiveExecution

\* A Round in flight whose slot is free, or one that waits: nothing is live.
LEMMA NothingLive ==
  ASSUME Inv, NEW r \in RoundIds, room.activeRoundId = r,
         rounds[r].activeExecutionId = None \/ rounds[r].phase \notin {"running", "summarizing"},
         NEW e \in ExecutionIds
  PROVE  ~ Live(e)
<1>1. SUFFICES ASSUME Live(e) PROVE FALSE
  OBVIOUS
<1>2. r # None /\ e # None
  BY RoundIdsAssumption, ExecutionIdsAssumption
<1>3. QED
  BY <1>1, <1>2, LiveHasRound

LEMMA ActiveIsUnfinished ==
  ASSUME Inv, NEW r \in RoundIds
  PROVE  room.activeRoundId = r <=> Unfinished(r)
BY DEF Inv, InStep, OneUnfinishedRound, Unfinished

-----------------------------------------------------------------------------
(* Ways a step keeps the rows in step.                                     *)

LEMMA QuietKeepsStep ==
  ASSUME \A e \in ExecutionIds : ~ Live(e)',
         \A r \in RoundIds : rounds'[r].activeExecutionId = None
  PROVE  LiveExecutionIsAnchored' /\ AtMostOneLiveExecution'
BY DEF LiveExecutionIsAnchored, AtMostOneLiveExecution

LEMMA SamePhasesKeepOneUnfinished ==
  ASSUME Inv, room'.activeRoundId = room.activeRoundId,
         \A r \in RoundIds : Unfinished(r) <=> Unfinished(r)'
  PROVE  OneUnfinishedRound'
BY DEF Inv, InStep, OneUnfinishedRound, Unfinished

\* Nothing happened to the rows but content.
LEMMA ContentKeepsStep ==
  ASSUME Inv, UNCHANGED <<rounds, executions>>,
         room'.activeRoundId = room.activeRoundId, room'.status = room.status
  PROVE  InStep'
BY DEF Inv, InStep, OneUnfinishedRound, LiveExecutionIsAnchored, AtMostOneLiveExecution, Live

\* The one live execution ends and frees its slot.
LEMMA EndKeepsQuiet ==
  ASSUME Inv, NEW e \in ExecutionIds, Live(e), executions'[e].state \notin LiveStates,
         \A d \in ExecutionIds \ {e} : executions'[d] = executions[d],
         \A r \in RoundIds : \/ rounds'[r].activeExecutionId = None
                             \/ /\ rounds'[r].activeExecutionId = rounds[r].activeExecutionId
                                /\ rounds[r].activeExecutionId # e
  PROVE  LiveExecutionIsAnchored' /\ AtMostOneLiveExecution'
<1>1. ASSUME NEW d \in ExecutionIds
      PROVE  ~ Live(d)'
  BY DEF Inv, InStep, AtMostOneLiveExecution, Live
<1>2. ASSUME NEW r \in RoundIds
      PROVE  rounds'[r].activeExecutionId = None
  BY <1>2, SlotsOfLive
<1>3. QED
  BY <1>1, <1>2, QuietKeepsStep

LEMMA NoLiveNoSlot ==
  ASSUME Inv, \A e \in ExecutionIds : ~ Live(e), NEW r \in RoundIds
  PROVE  rounds[r].activeExecutionId = None
<1>1. rounds[r].activeExecutionId \in ExecutionIds \cup {None}
  BY DEF Inv, Typed, TypeOK, RowsType, Rounds
<1>2. QED
  BY <1>1 DEF Inv, InStep, LiveExecutionIsAnchored

\* A Round that is neither running nor summarizing moves.
LEMMA WaitingRoundKeepsStep ==
  ASSUME Inv, NEW r \in RoundIds, Unfinished(r), rounds[r].phase \notin {"running", "summarizing"},
         rounds'[r].activeExecutionId \in {None, rounds[r].activeExecutionId}, Unfinished(r)',
         \A q \in RoundIds \ {r} : rounds'[q] = rounds[q],
         UNCHANGED <<room, executions>>
  PROVE  InStep'
<1>1. rounds \in [RoundIds -> Rounds]
  BY DEF Inv, Typed, TypeOK, RowsType
<1>2. \A e \in ExecutionIds : ~ Live(e)
  BY NothingLive, ActiveIsUnfinished
<1>3. ASSUME NEW q \in RoundIds
      PROVE  rounds'[q].activeExecutionId = None
  BY <1>1, <1>2, NoLiveNoSlot
<1>4. \A e \in ExecutionIds : ~ Live(e)'
  BY <1>2 DEF Live
<1>5. OneUnfinishedRound'
  BY <1>1, SamePhasesKeepOneUnfinished DEF Unfinished
<1>6. QED
  BY <1>3, <1>4, <1>5, QuietKeepsStep DEF InStep

LEMMA CreateRoundKeepsStep ==
  ASSUME Inv, NEW t, NEW r \in RoundIds, NEW order, CreateRound(t, r, order)
  PROVE  InStep'
<1>1. rounds \in [RoundIds -> Rounds] /\ room \in RoomRows
  BY DEF Inv, Typed, TypeOK, RowsType
<1>2. ASSUME NEW e \in ExecutionIds
      PROVE  ~ Live(e)
  BY LiveHasRound, RoundIdsAssumption DEF CreateRound, LiveReport
<1>3. ASSUME NEW q \in RoundIds
      PROVE  rounds'[q].activeExecutionId = None
  BY <1>1, <1>2, NoLiveNoSlot DEF CreateRound, NoRound
<1>4. \A e \in ExecutionIds : ~ Live(e)'
  BY <1>2 DEF CreateRound, Live
<1>5. ASSUME NEW q \in RoundIds
      PROVE  room'.activeRoundId = q <=> Unfinished(q)'
  <2>1. ~ Unfinished(q)
    BY ActiveIsUnfinished, RoundIdsAssumption DEF CreateRound
  <2>2. QED
    BY <1>1, <2>1 DEF CreateRound, NoRound, Unfinished, FinalPhases, RoomRows
<1>6. QED
  BY <1>3, <1>4, <1>5, QuietKeepsStep DEF InStep, OneUnfinishedRound, Unfinished

LEMMA AbortRoundKeepsStep ==
  ASSUME Inv, NEW t, NEW r \in RoundIds, AbortRound(t, r)
  PROVE  InStep'
<1>1. /\ rounds \in [RoundIds -> Rounds] /\ room \in RoomRows
      /\ executions \in [ExecutionIds -> Executions]
  BY DEF Inv, Typed, TypeOK, RowsType
<1>2. room.activeRoundId = r
  BY ActiveIsUnfinished DEF AbortRound, Unfinished, FinalPhases
<1>3. rounds' = [rounds EXCEPT ![r] = Aborted(rounds[r])]
  BY <1>1 DEF AbortRound
<1>4. OneUnfinishedRound'
  <2>1. ASSUME NEW q \in RoundIds
        PROVE  ~ Unfinished(q)'
    <3>1. q # r => ~ Unfinished(q)
      BY <1>2, ActiveIsUnfinished
    <3>2. QED
      BY <1>1, <1>3, <3>1 DEF Unfinished, Aborted, Rounds, FinalPhases
  <2>2. room'.activeRoundId = None
    BY <1>1 DEF AbortRound, RoomRows
  <2>3. QED
    BY <2>1, <2>2, RoundIdsAssumption DEF OneUnfinishedRound, Unfinished
<1>5. CASE \A e \in ExecutionIds : ~ Live(e)
  <2>1. executions' = executions
    BY <1>1, <1>5, NoLiveNoSlot DEF AbortRound, InterruptIfLive
  <2>2. ASSUME NEW q \in RoundIds
        PROVE  rounds'[q].activeExecutionId = None
    BY <1>1, <1>3, <1>5, NoLiveNoSlot DEF Aborted, Rounds
  <2>3. QED
    BY <1>4, <1>5, <2>1, <2>2, QuietKeepsStep DEF InStep, Live
<1>6. ASSUME NEW e \in ExecutionIds, Live(e)
      PROVE  InStep'
  <2>1. rounds[r].activeExecutionId = e
    BY <1>2, <1>6, LiveHasRound, RoundIdsAssumption
  <2>2. executions' = [executions EXCEPT ![e] =
                         [executions[e] EXCEPT !.state = "interrupted", !.ackState = None]]
    BY <1>1, <1>6, <2>1, ExecutionIdsAssumption DEF AbortRound, InterruptIfLive
  <2>3. ASSUME NEW q \in RoundIds
        PROVE  \/ rounds'[q].activeExecutionId = None
               \/ /\ rounds'[q].activeExecutionId = rounds[q].activeExecutionId
                  /\ rounds[q].activeExecutionId # e
    <3>1. CASE q = r
      BY <1>1, <1>3, <3>1 DEF Aborted, Rounds
    <3>2. CASE q # r
      <4>1. rounds[q].activeExecutionId # e
        BY <1>2, <1>6, <2>1, <3>2, ExecutionIdsAssumption
        DEF Inv, InStep, LiveExecutionIsAnchored
      <4>2. QED
        BY <1>1, <1>3, <3>2, <4>1
    <3>3. QED
      BY <3>1, <3>2
  <2>4. /\ executions'[e].state \notin LiveStates
        /\ \A d \in ExecutionIds \ {e} : executions'[d] = executions[d]
    BY <1>1, <2>2 DEF Executions, LiveStates
  <2>5. QED
    BY <1>4, <1>6, <2>3, <2>4, EndKeepsQuiet DEF InStep
<1>7. QED
  BY <1>5, <1>6

LEMMA RoundStepKeepsStep ==
  ASSUME Inv, NEW t \in Tokens, RoundStep(t)
  PROVE  InStep'
<1>1. PICK r \in RoundIds :
        \/ \E order \in Orders : CreateRound(t, r, order)
        \/ \E to \in {"prewarming", "running"} : TransitionRound(t, r, to)
        \/ PrewarmFailed(t, r)
        \/ RetryFailedParticipant(t, r)
        \/ AbortRound(t, r)
        \/ SkipParticipant(t, r)
  BY DEF RoundStep
<1>2. rounds[r] \in Rounds /\ rounds \in [RoundIds -> Rounds]
  BY DEF Inv, Typed, TypeOK, RowsType
<1>3. ASSUME NEW to \in {"prewarming", "running"}, TransitionRound(t, r, to)
      PROVE  InStep'
  <2>1. /\ rounds'[r].activeExecutionId = rounds[r].activeExecutionId
        /\ \A q \in RoundIds \ {r} : rounds'[q] = rounds[q]
    BY <1>2, <1>3 DEF TransitionRound, Rounds
  <2>2. rounds[r].phase \in {"pending", "prewarming"} /\ rounds'[r].phase = to
    BY <1>2, <1>3 DEF TransitionRound, Rounds
  <2>3. QED
    BY <1>3, <2>1, <2>2, WaitingRoundKeepsStep DEF TransitionRound, Unfinished, FinalPhases
<1>4. CASE PrewarmFailed(t, r)
  <2>1. PICK reason : PauseRound(t, r, reason)
    BY <1>4 DEF PrewarmFailed
  <2>2. /\ rounds'[r].activeExecutionId = rounds[r].activeExecutionId
        /\ rounds'[r].phase = "paused"
        /\ \A q \in RoundIds \ {r} : rounds'[q] = rounds[q]
    BY <1>2, <2>1 DEF PauseRound, Paused, Rounds
  <2>3. QED
    BY <1>4, <2>1, <2>2, WaitingRoundKeepsStep
    DEF PrewarmFailed, PauseRound, Unfinished, FinalPhases
<1>5. CASE RetryFailedParticipant(t, r)
  <2>1. /\ rounds'[r].activeExecutionId = rounds[r].activeExecutionId
        /\ rounds'[r].phase = rounds[r].pausedFrom
        /\ \A q \in RoundIds \ {r} : rounds'[q] = rounds[q]
    BY <1>2, <1>5 DEF RetryFailedParticipant, ResumeRound, Rounds
  <2>2. rounds[r].pausedFrom \in {"prewarming", "running", "summarizing"}
    BY <1>2, <1>5 DEF RetryFailedParticipant, ResumeRound, Rounds
  <2>3. QED
    BY <1>5, <2>1, <2>2, WaitingRoundKeepsStep
    DEF RetryFailedParticipant, ResumeRound, Unfinished, FinalPhases
<1>6. CASE SkipParticipant(t, r)
  <2>1. /\ rounds'[r].activeExecutionId = None
        /\ rounds'[r].phase \in {"running", "summarizing"}
        /\ \A q \in RoundIds \ {r} : rounds'[q] = rounds[q]
    BY <1>2, <1>6 DEF SkipParticipant, Rounds
  <2>2. QED
    BY <1>6, <2>1, WaitingRoundKeepsStep DEF SkipParticipant, Unfinished, FinalPhases
<1>7. QED
  BY <1>1, <1>3, <1>4, <1>5, <1>6, CreateRoundKeepsStep, AbortRoundKeepsStep

LEMMA BeginKeepsStep ==
  ASSUME Inv, NEW e \in ExecutionIds, NEW kind \in {"message", "summary", "focus"},
         NEW r \in RoundIds, NEW p, NEW ctx,
         SlotFree(r, IF kind = "summary" THEN "summarizing" ELSE "running"),
         AddExecution(e, kind, r, p, ctx), Occupy(r, e), UNCHANGED room
  PROVE  InStep'
<1>1. /\ rounds \in [RoundIds -> Rounds]
      /\ executions \in [ExecutionIds -> Executions]
  BY DEF Inv, Typed, TypeOK, RowsType
<1>2. \A d \in ExecutionIds : ~ Live(d)
  BY NothingLive DEF SlotFree
<1>3. /\ executions'[e].state = "prepared" /\ executions'[e].resultKind = kind
      /\ executions'[e].roundId = r
      /\ \A d \in ExecutionIds \ {e} : executions'[d] = executions[d]
  BY <1>1 DEF AddExecution
<1>4. /\ rounds'[r].activeExecutionId = e /\ rounds'[r].phase = rounds[r].phase
      /\ \A q \in RoundIds \ {r} : rounds'[q] = rounds[q]
  BY <1>1 DEF Occupy, Rounds
<1>5. OneUnfinishedRound'
  BY <1>4, SamePhasesKeepOneUnfinished DEF Unfinished
<1>6. \A d \in ExecutionIds : Live(d)' <=> d = e
  BY <1>2, <1>3 DEF Live, LiveStates
<1>7. AtMostOneLiveExecution'
  BY <1>6 DEF AtMostOneLiveExecution
<1>8. LiveExecutionIsAnchored'
  <2>1. kind # "report"
    OBVIOUS
  <2>2. ASSUME NEW q \in RoundIds, rounds'[q].activeExecutionId # None
        PROVE  q = r
    BY <1>2, <1>4, <2>2, NoLiveNoSlot
  <2>3. QED
    BY <1>3, <1>4, <1>6, <2>1, <2>2 DEF SlotFree, LiveExecutionIsAnchored
<1>9. QED
  BY <1>5, <1>7, <1>8 DEF InStep

LEMMA BeginReportKeepsStep ==
  ASSUME Inv, NEW t, NEW e \in ExecutionIds, NEW r \in RoundIds, NEW p, NEW ctx,
         BeginReportExecution(t, e, r, p, ctx)
  PROVE  InStep'
<1>1. /\ rounds \in [RoundIds -> Rounds] /\ room \in RoomRows
      /\ executions \in [ExecutionIds -> Executions]
  BY DEF Inv, Typed, TypeOK, RowsType
<1>2. ASSUME NEW d \in ExecutionIds
      PROVE  ~ Live(d)
  <2>1. room.activeRoundId # None => rounds[room.activeRoundId].activeExecutionId = None
    BY DEF BeginReportExecution
  <2>2. room.activeRoundId # None => room.activeRoundId \in RoundIds
    BY <1>1 DEF RoomRows
  <2>3. CASE room.activeRoundId # None
    BY <2>1, <2>2, <2>3, NothingLive
  <2>4. CASE room.activeRoundId = None
    BY <2>4, LiveHasRound, RoundIdsAssumption DEF BeginReportExecution, LiveReport
  <2>5. QED
    BY <2>3, <2>4
<1>3. /\ executions'[e].state = "prepared" /\ executions'[e].resultKind = "report"
      /\ executions'[e].roundId = r
      /\ \A d \in ExecutionIds \ {e} : executions'[d] = executions[d]
  BY <1>1 DEF BeginReportExecution, AddExecution
<1>4. \A d \in ExecutionIds : Live(d)' <=> d = e
  BY <1>2, <1>3 DEF Live, LiveStates
<1>5. room'.activeRoundId = None /\ room'.status = "open"
  BY <1>1 DEF BeginReportExecution, RoomRows
<1>6. ASSUME NEW q \in RoundIds
      PROVE  /\ ~ Unfinished(q)'
             /\ rounds[q].phase = "completed" => rounds'[q] = rounds[q]
             /\ rounds'[q].activeExecutionId = None
  <2>1. rounds[q].activeExecutionId = None
    BY <1>2, NoLiveNoSlot
  <2>2. room.activeRoundId = q <=> Unfinished(q)
    BY ActiveIsUnfinished
  <2>3. CASE room.activeRoundId = q
    <3>1. rounds' = [rounds EXCEPT ![q] = Aborted(rounds[q])]
      BY <1>1, <2>2, <2>3, RoundIdsAssumption DEF BeginReportExecution, Unfinished
    <3>2. QED
      BY <1>1, <2>2, <2>3, <3>1 DEF Aborted, Rounds, Unfinished, FinalPhases
  <2>4. CASE room.activeRoundId # q
    <3>1. rounds'[q] = rounds[q]
      BY <1>1, <2>4 DEF BeginReportExecution
    <3>2. QED
      BY <2>1, <2>2, <2>4, <3>1 DEF Unfinished
  <2>5. QED
    BY <2>3, <2>4
<1>7. rounds'[r].phase = "completed"
  BY <1>6 DEF BeginReportExecution
<1>8. OneUnfinishedRound'
  BY <1>5, <1>6, RoundIdsAssumption DEF OneUnfinishedRound, Unfinished
<1>9. LiveExecutionIsAnchored'
  BY <1>3, <1>4, <1>5, <1>6, <1>7 DEF LiveExecutionIsAnchored
<1>10. AtMostOneLiveExecution'
  BY <1>4 DEF AtMostOneLiveExecution
<1>11. QED
  BY <1>8, <1>9, <1>10 DEF InStep

LEMMA BeginStepKeepsStep ==
  ASSUME Inv, NEW t \in Tokens, BeginStep(t)
  PROVE  InStep'
<1>1. PICK e \in ExecutionIds, r \in RoundIds, p \in Participants, ctx \in published :
        \/ \E kind \in {"message", "summary"} : BeginExecution(t, e, kind, r, p, ctx)
        \/ BeginFocusExecution(t, e, r, p, ctx)
        \/ BeginReportExecution(t, e, r, p, ctx)
  BY DEF BeginStep
<1>2. ASSUME NEW kind \in {"message", "summary"}, BeginExecution(t, e, kind, r, p, ctx)
      PROVE  InStep'
  BY <1>2, BeginKeepsStep DEF BeginExecution
<1>3. CASE BeginFocusExecution(t, e, r, p, ctx)
  <2>1. SlotFree(r, IF "focus" = "summary" THEN "summarizing" ELSE "running")
    BY <1>3 DEF BeginFocusExecution
  <2>2. QED
    BY <1>3, <2>1, BeginKeepsStep DEF BeginFocusExecution
<1>4. QED
  BY <1>1, <1>2, <1>3, BeginReportKeepsStep

-----------------------------------------------------------------------------
(* The end of a live execution.                                            *)

LEMMA EndKeepsAnchors ==
  ASSUME Inv, NEW e \in ExecutionIds, Live(e), executions'[e].state \notin LiveStates,
         \A d \in ExecutionIds \ {e} : executions'[d] = executions[d],
         NEW r \in RoundIds, executions[e].roundId = r,
         rounds'[r].activeExecutionId \in {None, rounds[r].activeExecutionId},
         rounds'[r].activeExecutionId # e,
         \A q \in RoundIds \ {r} : rounds'[q] = rounds[q]
  PROVE  LiveExecutionIsAnchored' /\ AtMostOneLiveExecution'
<1>1. e # None
  BY ExecutionIdsAssumption
<1>2. ASSUME NEW q \in RoundIds, rounds'[q].activeExecutionId # None
      PROVE  /\ rounds'[q].activeExecutionId = rounds[q].activeExecutionId
             /\ rounds[q].activeExecutionId # e
  <2>1. CASE q = r
    BY <1>2, <2>1
  <2>2. CASE q # r
    BY <1>1, <1>2, <2>2 DEF Inv, InStep, LiveExecutionIsAnchored
  <2>3. QED
    BY <2>1, <2>2
<1>3. QED
  BY <1>2, EndKeepsQuiet

\* The execution is dropped or fails: its slot is freed and its Round may pause.
LEMMA DropKeepsStep ==
  ASSUME Inv, NEW e \in ExecutionIds, Live(e), NEW state \in FailureStates, NEW ack,
         NEW pause \in BOOLEAN,
         executions' = [executions EXCEPT ![e].state = state, ![e].ackState = ack],
         rounds' = [rounds EXCEPT ![executions[e].roundId] = WithoutExecution(@, e, pause)],
         UNCHANGED room
  PROVE  InStep'
<1>1. rounds \in [RoundIds -> Rounds] /\ executions \in [ExecutionIds -> Executions]
  BY DEF Inv, Typed, TypeOK, RowsType
<1>2. PICK r \in RoundIds : r = executions[e].roundId
  BY LiveHasRound
<1>3. /\ rounds'[r] = WithoutExecution(rounds[r], e, pause)
      /\ \A q \in RoundIds \ {r} : rounds'[q] = rounds[q]
  BY <1>1, <1>2
<1>4. e # None
  BY ExecutionIdsAssumption
<1>5. /\ rounds'[r].activeExecutionId \in {None, rounds[r].activeExecutionId}
      /\ rounds'[r].activeExecutionId # e
      /\ \/ rounds'[r].phase = rounds[r].phase
         \/ rounds'[r].phase = "paused" /\ rounds[r].phase \in {"running", "summarizing"}
  <2>1. DEFINE reason == [participantId |-> executions[e].participantId, executionId |-> e]
               freed  == [rounds[r] EXCEPT !.activeExecutionId = None]
  <2>2. CASE rounds[r].activeExecutionId # e
    BY <1>3, <2>2 DEF WithoutExecution
  <2>3. CASE rounds[r].activeExecutionId = e
    <3>1. freed.phase = rounds[r].phase /\ freed.activeExecutionId = None
      BY <1>1 DEF Rounds
    <3>2. Paused(freed, reason).phase = "paused" /\ Paused(freed, reason).activeExecutionId = None
      BY <1>1 DEF Paused, Rounds
    <3>3. \/ rounds'[r] = freed
          \/ rounds'[r] = Paused(freed, reason) /\ rounds[r].phase \in {"running", "summarizing"}
      BY <1>3, <2>3, <3>1 DEF WithoutExecution
    <3>4. HIDE DEF reason, freed
    <3>5. QED
      BY <1>4, <3>1, <3>2, <3>3
  <2>4. QED
    BY <2>2, <2>3
<1>6. /\ executions'[e].state \notin LiveStates
      /\ \A d \in ExecutionIds \ {e} : executions'[d] = executions[d]
  BY <1>1 DEF Executions, LiveStates, FailureStates
<1>7. OneUnfinishedRound'
  BY <1>3, <1>5, SamePhasesKeepOneUnfinished DEF Unfinished, FinalPhases
<1>8. QED
  BY <1>2, <1>3, <1>5, <1>6, <1>7, EndKeepsAnchors DEF InStep

LEMMA DiscardKeepsStep ==
  ASSUME Inv, NEW e \in ExecutionIds, Live(e), DiscardLockedExecution(e)
  PROVE  InStep'
BY DropKeepsStep DEF DiscardLockedExecution, Persist, FailureStates

LEMMA CommittableIsLive ==
  ASSUME NEW t, NEW e \in ExecutionIds, NEW kind, Committable(t, e, kind)
  PROVE  Live(e)
BY DEF Committable, Live, LiveStates

LEMMA PersistEnds ==
  ASSUME Inv, NEW e \in ExecutionIds, NEW state \in {"committed", "discarded"}, Persist(e, state)
  PROVE  /\ executions'[e].state \notin LiveStates
         /\ \A d \in ExecutionIds \ {e} : executions'[d] = executions[d]
BY DEF Inv, Typed, TypeOK, RowsType, Persist, Executions, LiveStates

\* A message or the focus lands: the Round goes on.
LEMMA CommitKeepsStep ==
  ASSUME Inv, NEW e \in ExecutionIds, Live(e), Persist(e, "committed"),
         NEW r \in RoundIds, executions[e].roundId = r, rounds[r].phase = "running",
         rounds'[r].activeExecutionId = None, rounds'[r].phase \in {"running", "summarizing"},
         \A q \in RoundIds \ {r} : rounds'[q] = rounds[q],
         room'.activeRoundId = room.activeRoundId
  PROVE  InStep'
<1>1. OneUnfinishedRound'
  BY SamePhasesKeepOneUnfinished DEF Unfinished, FinalPhases
<1>2. QED
  BY <1>1, PersistEnds, EndKeepsAnchors, ExecutionIdsAssumption DEF InStep

\* The Summary lands: the Round is completed and the Room has no active Round.
LEMMA CommitSummaryKeepsStep ==
  ASSUME Inv, NEW t, NEW e \in ExecutionIds, Live(e), CommitSummary(t, e), FreshContext(e)
  PROVE  InStep'
<1>1. /\ rounds \in [RoundIds -> Rounds]
      /\ BumpRoomContext(room, room.topic, projection') \in RoomRows
  <2>1. AppendItem(ItemOf(e, "summary"))
    BY DEF CommitSummary
  <2>2. ItemOf(e, "summary") \in Items
    BY LiveHasRound DEF ItemOf, Items
  <2>3. QED
    BY <2>1, <2>2, AppendKeepsType DEF Inv, Typed, TypeOK, RowsType
<1>2. PICK r \in RoundIds : r = executions[e].roundId
  BY LiveHasRound
<1>3. room.activeRoundId = r /\ room'.activeRoundId = None
  BY <1>1, <1>2 DEF CommitSummary, IsActiveExecution, RoomRows
<1>4. /\ rounds'[r].activeExecutionId = None /\ rounds'[r].phase = "completed"
      /\ \A q \in RoundIds \ {r} : rounds'[q] = rounds[q]
  BY <1>1, <1>2 DEF CommitSummary, Rounds
<1>5. ASSUME NEW q \in RoundIds
      PROVE  ~ Unfinished(q)'
  BY <1>3, <1>4, ActiveIsUnfinished DEF Unfinished, FinalPhases
<1>6. OneUnfinishedRound'
  BY <1>3, <1>5, RoundIdsAssumption DEF OneUnfinishedRound, Unfinished
<1>7. Persist(e, "committed")
  BY DEF CommitSummary
<1>8. QED
  BY <1>2, <1>4, <1>6, <1>7, PersistEnds, EndKeepsAnchors, ExecutionIdsAssumption DEF InStep

\* The report lands or is discarded: no slot holds it, and no Round moves.
LEMMA CommitReportKeepsStep ==
  ASSUME Inv, NEW t, NEW e \in ExecutionIds, CommitReport(t, e)
  PROVE  InStep'
<1>1. Live(e) /\ executions[e].resultKind = "report"
  BY DEF CommitReport, Committable, Live, LiveStates
<1>2. PICK r \in RoundIds : r = executions[e].roundId
  BY <1>1, LiveHasRound
<1>3. UNCHANGED rounds /\ room'.activeRoundId = room.activeRoundId
  BY DEF CommitReport, Inv, Typed, TypeOK, RowsType, RoomRows
<1>4. rounds[r].activeExecutionId # e
  BY <1>1, ExecutionIdsAssumption DEF Inv, InStep, LiveExecutionIsAnchored
<1>5. OneUnfinishedRound'
  BY <1>3, SamePhasesKeepOneUnfinished DEF Unfinished
<1>6. PICK state \in {"committed", "discarded"} : Persist(e, state)
  BY DEF CommitReport
<1>7. QED
  BY <1>1, <1>2, <1>3, <1>4, <1>5, <1>6, PersistEnds, EndKeepsAnchors DEF InStep

LEMMA EndStepKeepsStep ==
  ASSUME Inv, NEW t \in Tokens, EndStep(t)
  PROVE  InStep'
<1>1. PICK e \in ExecutionIds :
        \/ CommitModelMessage(t, e)
        \/ CommitFocusMessage(t, e)
        \/ CommitSummary(t, e)
        \/ CommitReport(t, e)
        \/ DiscardExecution(t, e)
        \/ \E kind \in {"failed", "interrupted"}, pause \in BOOLEAN : FailExecution(t, e, kind, pause)
  BY DEF EndStep
<1>2. rounds \in [RoundIds -> Rounds] /\ room \in RoomRows
  BY DEF Inv, Typed, TypeOK, RowsType
<1>3. CASE CommitModelMessage(t, e)
  <2>1. Live(e)
    BY <1>3, CommittableIsLive DEF CommitModelMessage
  <2>2. CASE DiscardLockedExecution(e)
    BY <2>1, <2>2, DiscardKeepsStep
  <2>3. CASE FreshContext(e)
    <3>1. PICK r \in RoundIds : r = executions[e].roundId
      BY <2>1, LiveHasRound
    <3>2. PICK phase \in {"running", "summarizing"} :
            rounds' = [rounds EXCEPT ![r] =
              [rounds[r] EXCEPT !.activeExecutionId = None,
                                !.nextParticipantIndex = rounds[r].nextParticipantIndex + 1,
                                !.phase = phase]]
      BY <1>3, <2>3, <3>1 DEF CommitModelMessage
    <3>3. /\ rounds'[r].activeExecutionId = None /\ rounds'[r].phase \in {"running", "summarizing"}
          /\ \A q \in RoundIds \ {r} : rounds'[q] = rounds[q]
      BY <1>2, <3>2 DEF Rounds
    <3>4. room'.activeRoundId = room.activeRoundId
      BY <1>2, <1>3, <2>3 DEF CommitModelMessage, BumpRoomContext, RoomRows
    <3>5. Persist(e, "committed") /\ rounds[r].phase = "running"
      BY <1>3, <2>3, <3>1 DEF CommitModelMessage, IsActiveExecution
    <3>6. QED
      BY <2>1, <3>1, <3>3, <3>4, <3>5, CommitKeepsStep
  <2>4. QED
    BY <1>3, <2>2, <2>3 DEF CommitModelMessage
<1>4. CASE CommitFocusMessage(t, e)
  <2>1. Live(e)
    BY <1>4, CommittableIsLive DEF CommitFocusMessage
  <2>2. CASE DiscardLockedExecution(e)
    BY <2>1, <2>2, DiscardKeepsStep
  <2>3. CASE FreshContext(e)
    <3>1. PICK r \in RoundIds : r = executions[e].roundId
      BY <2>1, LiveHasRound
    <3>2. /\ rounds'[r].activeExecutionId = None /\ rounds'[r].phase = rounds[r].phase
          /\ \A q \in RoundIds \ {r} : rounds'[q] = rounds[q]
      BY <1>2, <1>4, <2>3, <3>1 DEF CommitFocusMessage, Rounds
    <3>3. room'.activeRoundId = room.activeRoundId
      BY <1>2, <1>4, <2>3 DEF CommitFocusMessage, BumpRoomContext, RoomRows
    <3>4. Persist(e, "committed") /\ rounds[r].phase = "running"
      BY <1>4, <2>3, <3>1 DEF CommitFocusMessage, IsActiveExecution
    <3>5. QED
      BY <2>1, <3>1, <3>2, <3>3, <3>4, CommitKeepsStep
  <2>4. QED
    BY <1>4, <2>2, <2>3 DEF CommitFocusMessage
<1>5. CASE CommitSummary(t, e)
  <2>1. Live(e)
    BY <1>5, CommittableIsLive DEF CommitSummary
  <2>2. CASE DiscardLockedExecution(e)
    BY <2>1, <2>2, DiscardKeepsStep
  <2>3. QED
    BY <1>5, <2>1, <2>2, CommitSummaryKeepsStep DEF CommitSummary
<1>6. CASE DiscardExecution(t, e)
  BY <1>6, DiscardKeepsStep DEF DiscardExecution, Live, LiveStates
<1>7. ASSUME NEW kind \in {"failed", "interrupted"}, NEW pause \in BOOLEAN,
             FailExecution(t, e, kind, pause)
      PROVE  InStep'
  BY <1>7, DropKeepsStep DEF FailExecution, RecordExecutionFailure, FailureStates
<1>8. QED
  BY <1>1, <1>3, <1>4, <1>5, <1>6, <1>7, CommitReportKeepsStep

-----------------------------------------------------------------------------
(* Steps that leave the executions live or dead.                           *)

LEMMA ContextStepKeepsStep ==
  ASSUME Inv, NEW t \in Tokens, ContextStep(t)
  PROVE  InStep'
<1>1. UNCHANGED <<rounds, executions>>
  BY DEF ContextStep, AppendUserMessage, UpdateRoomSharedConfig, WriteTopic, SetRoomRunState
<1>2. room'.activeRoundId = room.activeRoundId /\ room'.status = room.status
  BY DEF Inv, Typed, TypeOK, RowsType, RoomRows, ContextStep, AppendUserMessage,
         UpdateRoomSharedConfig, WriteTopic, SetRoomRunState, BumpRoomContext
<1>3. QED
  BY <1>1, <1>2, ContentKeepsStep

\* An execution changes and stays live, or stays dead.
LEMMA SameLivesKeepStep ==
  ASSUME Inv, NEW e \in ExecutionIds, Live(e) <=> Live(e)',
         executions'[e].roundId = executions[e].roundId,
         executions'[e].resultKind = executions[e].resultKind,
         \A d \in ExecutionIds \ {e} : executions'[d] = executions[d],
         UNCHANGED <<room, rounds>>
  PROVE  InStep'
<1>1. ASSUME NEW d \in ExecutionIds
      PROVE  /\ Live(d)' <=> Live(d)
             /\ executions'[d].roundId = executions[d].roundId
             /\ executions'[d].resultKind = executions[d].resultKind
  <2>1. CASE d = e
    BY <2>1
  <2>2. CASE d # e
    BY <2>2 DEF Live
  <2>3. QED
    BY <2>1, <2>2
<1>2. ASSUME NEW r \in RoundIds, rounds[r].activeExecutionId # None
      PROVE  rounds[r].activeExecutionId \in ExecutionIds
  BY <1>2 DEF Inv, Typed, TypeOK, RowsType, Rounds
<1>3. OneUnfinishedRound' /\ AtMostOneLiveExecution'
  BY <1>1 DEF Inv, InStep, OneUnfinishedRound, AtMostOneLiveExecution
<1>4. LiveExecutionIsAnchored'
  BY <1>1, <1>2 DEF Inv, InStep, LiveExecutionIsAnchored
<1>5. QED
  BY <1>3, <1>4 DEF InStep

LEMMA UncontrolledStepKeepsStep ==
  ASSUME Inv, UncontrolledStep
  PROVE  InStep'
<1>1. executions \in [ExecutionIds -> Executions] /\ room \in RoomRows
  BY DEF Inv, Typed, TypeOK, RowsType
<1>2. ASSUME NEW topic \in Topics, RenameColdRoom(topic)
      PROVE  InStep'
  <2>1. room'.activeRoundId = room.activeRoundId /\ room'.status = room.status
    BY <1>1, <1>2 DEF RenameColdRoom, WriteTopic, BumpRoomContext, RoomRows
  <2>2. QED
    BY <1>2, <2>1, ContentKeepsStep DEF RenameColdRoom, WriteTopic
<1>3. ASSUME NEW e \in ExecutionIds, NEW from \in LiveStates, NEW to \in LiveStates,
             SetState(e, from, to)
      PROVE  InStep'
  BY <1>1, <1>3, SameLivesKeepStep DEF SetState, Executions, Live
<1>4. ASSUME NEW e \in ExecutionIds, NEW ack, SetAckState(e, ack)
      PROVE  InStep'
  BY <1>1, <1>4, SameLivesKeepStep DEF SetAckState, Executions, Live
<1>5. ASSUME NEW e \in ExecutionIds, NEW kind \in {"failed", "interrupted"},
             FailUnboundExecution(e, kind)
      PROVE  InStep'
  BY <1>5, DropKeepsStep DEF FailUnboundExecution, RecordExecutionFailure, FailureStates
<1>6. QED
  BY <1>2, <1>3, <1>4, <1>5
  DEF UncontrolledStep, MarkExecutionDispatched, MarkExecutionSucceededUncommitted,
      MarkAcknowledged, MarkAckExpired, LiveStates

LEMMA BindingsStepKeepsStep ==
  ASSUME Inv, BindingsStep
  PROVE  InStep'
<1>1. UNCHANGED <<room, rounds, executions>>
  BY DEF BindingsStep, CreateRuntimeBinding, ActivateRuntimeBinding, TakeoverRuntimeBinding,
         Grant, MarkBindingClosed, ReleaseRuntime, BindingStep
<1>2. QED
  BY <1>1, ContentKeepsStep

-----------------------------------------------------------------------------
(* The inductive invariant.                                                *)

LEMMA InitInv == Init => Inv
<1>1. SUFFICES ASSUME Init PROVE InStep
  BY InitTyped DEF Inv
<1>2. /\ room.activeRoundId = None
      /\ \A r \in RoundIds : rounds[r].phase = "none" /\ rounds[r].activeExecutionId = None
      /\ \A e \in ExecutionIds : ~ Live(e)
  BY <1>1 DEF Init, NoRound, Live, LiveStates
<1>3. QED
  BY <1>2, RoundIdsAssumption
  DEF InStep, OneUnfinishedRound, LiveExecutionIsAnchored, AtMostOneLiveExecution

LEMMA NextInv ==
  ASSUME Inv, [Next]_vars
  PROVE  Inv'
<1>1. Typed'
  BY NextTyped DEF Inv
<1>2. InStep'
  <2>1. CASE UNCHANGED vars
    BY <2>1, ContentKeepsStep DEF vars
  <2>2. QED
    BY <2>1, ContextStepKeepsStep, RoundStepKeepsStep, BeginStepKeepsStep, EndStepKeepsStep,
       UncontrolledStepKeepsStep, BindingsStepKeepsStep DEF Next
<1>3. QED
  BY <1>1, <1>2 DEF Inv

\* However pages interleave, with whatever copies of the Room and whatever
\* tokens they hold, the Room never has two model calls in flight: a report
\* included, which holds no Round's slot.
THEOREM OneCallAtATime == Spec => []AtMostOneLiveExecution
BY InitInv, NextInv, PTL DEF Spec, Inv, InStep

\* Every model call in flight can still be committed where it was asked for, and
\* no slot is held by a call that is over.
THEOREM CallsAreAnchored == Spec => []LiveExecutionIsAnchored
BY InitInv, NextInv, PTL DEF Spec, Inv, InStep

\* room.activeRoundId is the one Round that is not finished, and None exactly
\* when there is no such Round.
THEOREM ActiveRoundIsTheUnfinishedOne == Spec => []OneUnfinishedRound
BY InitInv, NextInv, PTL DEF Spec, Inv, InStep

-----------------------------------------------------------------------------
(***************************************************************************)
(* The (revision, digest) pair on the Room row follows the shared          *)
(* projection: the check every commit makes of its frozen context is only  *)
(* as good as this.  And what a commit puts there, or in the report, is    *)
(* there once.                                                             *)
(***************************************************************************)

\* The digest on the row is recomputed by each write, not by each reader.
DigestIsCurrent == room.contextDigest = ComputeContextDigest(room.topic, projection)

ContextInv == Typed /\ DigestIsCurrent

LEMMA AppendExtends ==
  ASSUME NEW S, NEW s \in Seq(S), NEW x \in S
  PROVE  /\ Len(Append(s, x)) = Len(s) + 1
         /\ SubSeq(Append(s, x), 1, Len(s)) = s
<1>1. /\ Append(s, x) \in Seq(S) /\ Len(s) \in Nat
      /\ Len(Append(s, x)) = Len(s) + 1
      /\ \A i \in 1 .. Len(s) : Append(s, x)[i] = s[i]
  BY AppendProperties
<1>2. DEFINE prefix == SubSeq(Append(s, x), 1, Len(s))
<1>3. /\ prefix \in Seq(S)
      /\ Len(prefix) = Len(s)
      /\ \A i \in 1 .. Len(s) : prefix[i] = s[i]
  <2>1. \A i \in 1 .. Len(s) : Append(s, x)[i] \in S
    BY <1>1
  <2>2. /\ prefix \in Seq(S)
        /\ Len(prefix) = IF 1 <= Len(s) THEN Len(s) - 1 + 1 ELSE 0
        /\ \A i \in 1 .. Len(s) - 1 + 1 : prefix[i] = Append(s, x)[1 + i - 1]
    BY <1>1, <2>1, SubSeqProperties
  <2>3. QED
    BY <1>1, <2>2
<1>4. prefix = s
  <2>1. HIDE DEF prefix
  <2>2. QED
    BY <1>3, SeqEqual
<1>5. QED
  BY <1>1, <1>4

\* A step that writes neither the topic, nor the pair, nor the projection.
LEMMA StillContext ==
  ASSUME ContextInv, UNCHANGED projection, room'.topic = room.topic,
         room'.contextRevision = room.contextRevision, room'.contextDigest = room.contextDigest
  PROVE  ContextMoves /\ DigestIsCurrent'
<1>1. projection \in Seq(Items) /\ room.contextRevision \in Nat
  BY DEF ContextInv, Typed, TypeOK, RowsType, EntitiesType, RoomRows
<1>2. Len(projection) \in Nat /\ SubSeq(projection, 1, Len(projection)) = projection
  BY <1>1, SubSeqFull
<1>3. QED
  BY <1>1, <1>2 DEF ContextInv, DigestIsCurrent, ContextMoves

\* A step that appends one item and bumps the context.
LEMMA AppendMovesContext ==
  ASSUME ContextInv, NEW item \in Items, projection' = Append(projection, item),
         room'.topic = room.topic, room'.contextRevision = room.contextRevision + 1,
         room'.contextDigest = ComputeContextDigest(room.topic, projection')
  PROVE  ContextMoves /\ DigestIsCurrent'
<1>1. projection \in Seq(Items) /\ Len(projection) \in Nat
  BY DEF ContextInv, Typed, TypeOK, EntitiesType
<1>2. Len(projection') = Len(projection) + 1 /\ SubSeq(projection', 1, Len(projection)) = projection
  BY <1>1, AppendExtends
<1>3. projection' # projection
  <2>1. Len(projection) # Len(projection) + 1
    BY <1>1
  <2>2. QED
    BY <1>2, <2>1, Zenon
<1>4. Len(projection') >= Len(projection)
  BY <1>1, <1>2
<1>5. <<room'.topic, projection'>> # <<room.topic, projection>>
  BY <1>3
<1>6. QED
  BY <1>2, <1>4, <1>5 DEF DigestIsCurrent, ContextMoves

LEMMA WriteTopicMovesContext ==
  ASSUME ContextInv, NEW topic \in Topics, WriteTopic(topic)
  PROVE  ContextMoves /\ DigestIsCurrent'
<1>1. /\ projection \in Seq(Items) /\ Len(projection) \in Nat
      /\ room \in RoomRows
  BY DEF ContextInv, Typed, TypeOK, RowsType, EntitiesType
<1>2. SubSeq(projection, 1, Len(projection)) = projection /\ UNCHANGED projection
  BY <1>1, SubSeqFull DEF WriteTopic
<1>3. /\ room'.topic = topic /\ topic # room.topic
      /\ room'.contextRevision = room.contextRevision + 1
      /\ room'.contextDigest = ComputeContextDigest(topic, projection)
  BY <1>1 DEF WriteTopic, BumpRoomContext, RoomRows
<1>4. QED
  BY <1>1, <1>2, <1>3 DEF DigestIsCurrent, ContextMoves

LEMMA BumpOf ==
  ASSUME room \in RoomRows, NEW items
  PROVE  LET row == BumpRoomContext(room, room.topic, items)
         IN  /\ row.topic = room.topic
             /\ row.contextRevision = room.contextRevision + 1
             /\ row.contextDigest = ComputeContextDigest(room.topic, items)
BY DEF BumpRoomContext, RoomRows

LEMMA ContextStepMoves ==
  ASSUME ContextInv, NEW t \in Tokens, ContextStep(t)
  PROVE  ContextMoves /\ DigestIsCurrent'
<1>1. room \in RoomRows
  BY DEF ContextInv, Typed, TypeOK, RowsType
<1>2. ASSUME NEW r \in RoundIds, AppendUserMessage(t, r)
      PROVE  ContextMoves /\ DigestIsCurrent'
  <2>1. PICK item \in Items : AppendItem(item)
    BY <1>2 DEF AppendUserMessage, Items
  <2>2. QED
    BY <1>1, <1>2, <2>1, BumpOf, AppendMovesContext DEF AppendUserMessage, AppendItem
<1>3. ASSUME NEW runState \in {"running", "paused"}, SetRoomRunState(t, runState)
      PROVE  ContextMoves /\ DigestIsCurrent'
  BY <1>1, <1>3, StillContext DEF SetRoomRunState, RoomRows
<1>4. QED
  BY <1>2, <1>3, WriteTopicMovesContext DEF ContextStep, UpdateRoomSharedConfig

\* The Room row moves at most in its active Round and run state, the projection not at all.
PairStays ==
  /\ UNCHANGED projection
  /\ \/ UNCHANGED room
     \/ \E r \in RoundIds : room' = [room EXCEPT !.activeRoundId = r, !.runState = "running"]
     \/ room' = [room EXCEPT !.activeRoundId = None, !.runState = "idle"]

LEMMA RoundStepKeepsPair ==
  ASSUME NEW t \in Tokens, RoundStep(t) \/ BeginStep(t)
  PROVE  PairStays
<1>1. CASE RoundStep(t)
  <2>1. PICK r \in RoundIds :
          \/ \E order \in Orders : CreateRound(t, r, order)
          \/ \E to \in {"prewarming", "running"} : TransitionRound(t, r, to)
          \/ PrewarmFailed(t, r)
          \/ RetryFailedParticipant(t, r)
          \/ AbortRound(t, r)
          \/ SkipParticipant(t, r)
    BY <1>1 DEF RoundStep
  <2>2. CASE \E order \in Orders : CreateRound(t, r, order)
    BY <2>2 DEF PairStays, CreateRound
  <2>3. CASE \E to \in {"prewarming", "running"} : TransitionRound(t, r, to)
    BY <2>3 DEF PairStays, TransitionRound
  <2>4. CASE PrewarmFailed(t, r)
    BY <2>4 DEF PairStays, PrewarmFailed, PauseRound
  <2>5. CASE RetryFailedParticipant(t, r)
    BY <2>5 DEF PairStays, RetryFailedParticipant, ResumeRound
  <2>6. CASE AbortRound(t, r)
    BY <2>6 DEF PairStays, AbortRound
  <2>7. CASE SkipParticipant(t, r)
    BY <2>7 DEF PairStays, SkipParticipant
  <2>8. QED
    BY <2>1, <2>2, <2>3, <2>4, <2>5, <2>6, <2>7
<1>2. CASE BeginStep(t)
  <2>1. PICK e \in ExecutionIds, r \in RoundIds, p \in Participants, ctx \in published :
          \/ \E kind \in {"message", "summary"} : BeginExecution(t, e, kind, r, p, ctx)
          \/ BeginFocusExecution(t, e, r, p, ctx)
          \/ BeginReportExecution(t, e, r, p, ctx)
    BY <1>2 DEF BeginStep
  <2>2. CASE \E kind \in {"message", "summary"} : BeginExecution(t, e, kind, r, p, ctx)
    BY <2>2 DEF PairStays, BeginExecution
  <2>3. CASE BeginFocusExecution(t, e, r, p, ctx)
    BY <2>3 DEF PairStays, BeginFocusExecution
  <2>4. CASE BeginReportExecution(t, e, r, p, ctx)
    BY <2>4 DEF PairStays, BeginReportExecution
  <2>5. QED
    BY <2>1, <2>2, <2>3, <2>4
<1>3. QED
  BY <1>1, <1>2

\* A transaction that leaves the projection alone leaves the pair alone.
LEMMA RoundStepMoves ==
  ASSUME ContextInv, NEW t \in Tokens, RoundStep(t) \/ BeginStep(t)
  PROVE  ContextMoves /\ DigestIsCurrent'
<1>1. room \in RoomRows
  BY DEF ContextInv, Typed, TypeOK, RowsType
<1>2. PairStays
  BY RoundStepKeepsPair
<1>3. /\ room'.topic = room.topic /\ room'.contextRevision = room.contextRevision
      /\ room'.contextDigest = room.contextDigest
  BY <1>1, <1>2 DEF PairStays, RoomRows
<1>4. QED
  BY <1>2, <1>3, StillContext DEF PairStays

LEMMA EndStepMoves ==
  ASSUME ContextInv, NEW t \in Tokens, EndStep(t)
  PROVE  ContextMoves /\ DigestIsCurrent'
<1>1. room \in RoomRows
  BY DEF ContextInv, Typed, TypeOK, RowsType
<1>2. PICK e \in ExecutionIds :
        \/ CommitModelMessage(t, e)
        \/ CommitFocusMessage(t, e)
        \/ CommitSummary(t, e)
        \/ CommitReport(t, e)
        \/ DiscardExecution(t, e)
        \/ \E kind \in {"failed", "interrupted"}, pause \in BOOLEAN : FailExecution(t, e, kind, pause)
  BY DEF EndStep
<1>3. CASE UNCHANGED <<room, projection>>
  BY <1>3, StillContext
<1>4. ASSUME NEW role \in {"participant", "summary"}, AppendItem(ItemOf(e, role)),
             executions[e].state # "none",
             LET row == BumpRoomContext(room, room.topic, projection')
             IN  /\ room'.topic = row.topic
                 /\ room'.contextRevision = row.contextRevision
                 /\ room'.contextDigest = row.contextDigest
      PROVE  ContextMoves /\ DigestIsCurrent'
  <2>1. ItemOf(e, role) \in Items
    BY <1>4 DEF ItemOf, Items, ContextInv, Typed, TypeOK, RowsType, Executions, BegunHasRound
  <2>2. QED
    BY <1>1, <1>4, <2>1, BumpOf, AppendMovesContext DEF AppendItem
<1>5. CASE CommitReport(t, e)
  <2>1. /\ UNCHANGED projection
        /\ room'.topic = room.topic /\ room'.contextRevision = room.contextRevision
        /\ room'.contextDigest = room.contextDigest
    BY <1>1, <1>5 DEF CommitReport, RoomRows
  <2>2. QED
    BY <2>1, StillContext
<1>6. CASE CommitSummary(t, e) /\ ~ UNCHANGED <<room, projection>>
  <2>1. /\ AppendItem(ItemOf(e, "summary")) /\ executions[e].state # "none"
        /\ room' = [BumpRoomContext(room, room.topic, projection')
                      EXCEPT !.activeRoundId = None, !.runState = "idle"]
    BY <1>6 DEF CommitSummary, Committable, DiscardLockedExecution
  <2>2. PICK row : row = BumpRoomContext(room, room.topic, projection')
    OBVIOUS
  <2>3. /\ room'.topic = row.topic /\ room'.contextRevision = row.contextRevision
        /\ room'.contextDigest = row.contextDigest
    BY <1>1, <2>1, <2>2 DEF BumpRoomContext, RoomRows
  <2>4. QED
    BY <1>4, <2>1, <2>2, <2>3
<1>7. CASE (CommitModelMessage(t, e) \/ CommitFocusMessage(t, e)) /\ ~ UNCHANGED <<room, projection>>
  BY <1>4, <1>7 DEF CommitModelMessage, CommitFocusMessage, Committable, DiscardLockedExecution
<1>8. CASE DiscardExecution(t, e) \/ \E kind \in {"failed", "interrupted"}, pause \in BOOLEAN :
                                       FailExecution(t, e, kind, pause)
  BY <1>3, <1>8 DEF DiscardExecution, DiscardLockedExecution, FailExecution, RecordExecutionFailure
<1>9. QED
  BY <1>2, <1>3, <1>5, <1>6, <1>7, <1>8

LEMMA UncontrolledStepMoves ==
  ASSUME ContextInv, UncontrolledStep \/ BindingsStep
  PROVE  ContextMoves /\ DigestIsCurrent'
<1>1. CASE UNCHANGED <<room, projection>>
  BY <1>1, StillContext
<1>2. CASE BindingsStep
  BY <1>1, <1>2 DEF BindingsStep, CreateRuntimeBinding, ActivateRuntimeBinding,
                    TakeoverRuntimeBinding, Grant, MarkBindingClosed, ReleaseRuntime, BindingStep
<1>3. ASSUME NEW topic \in Topics, RenameColdRoom(topic)
      PROVE  ContextMoves /\ DigestIsCurrent'
  BY <1>3, WriteTopicMovesContext DEF RenameColdRoom
<1>4. QED
  BY <1>1, <1>2, <1>3
  DEF UncontrolledStep, MarkExecutionDispatched, MarkExecutionSucceededUncommitted, SetState,
      FailUnboundExecution, RecordExecutionFailure, MarkAcknowledged, MarkAckExpired, SetAckState

LEMMA InitContext == Init => ContextInv
BY InitTyped DEF Init, ContextInv, DigestIsCurrent, InitialDigest

LEMMA NextContext ==
  ASSUME ContextInv, [Next]_vars
  PROVE  ContextInv' /\ [ContextMoves]_vars
<1>1. Typed'
  BY NextTyped DEF ContextInv
<1>2. CASE UNCHANGED vars
  BY <1>1, <1>2 DEF vars, ContextInv, DigestIsCurrent
<1>3. CASE Next
  BY <1>1, <1>3, ContextStepMoves, RoundStepMoves, EndStepMoves, UncontrolledStepMoves
  DEF Next, ContextInv
<1>4. QED
  BY <1>2, <1>3

\* Whoever reads the pair on the row knows which projection it names: the pair
\* moves with every change of the projection, by one, and with nothing else.
THEOREM PairFollowsProjection == Spec => RevisionTracksProjection
BY InitContext, NextContext, PTL DEF Spec, RevisionTracksProjection

-----------------------------------------------------------------------------
(* What the projection and the reports hold: the entity of each committed  *)
(* execution, once.  CommittedExactlyOnce counts places; the induction     *)
(* needs to know that a place, once taken, is the only one.                *)

Places(e) == {i \in DOMAIN projection : projection[i].sourceExecutionId = e}

Landed ==
  /\ \A e \in ExecutionIds : \A i, j \in Places(e) : i = j
  /\ \A e \in ExecutionIds : Committed(e) <=> (e \in reports \/ Places(e) # {})
  /\ \A e \in reports : Places(e) = {}
  /\ \A i \in DOMAIN projection : IsModelItem(i) =>
       /\ Source(i).roundId = projection[i].roundId
       /\ (projection[i].role = "summary") <=> (Source(i).resultKind = "summary")
  /\ \A e \in reports : executions[e].resultKind = "report"

LandedInv == Typed /\ Landed

LEMMA LandedCounts ==
  ASSUME LandedInv
  PROVE  CommittedExactlyOnce
<1>1. ASSUME NEW e \in ExecutionIds
      PROVE  Cardinality(Places(e)) + (IF e \in reports THEN 1 ELSE 0) = (IF Committed(e) THEN 1 ELSE 0)
  <2>1. CASE Places(e) = {}
    BY <2>1, FS_EmptySet DEF LandedInv, Landed
  <2>2. CASE Places(e) # {}
    <3>1. PICK i : Places(e) = {i}
      BY <2>2 DEF LandedInv, Landed
    <3>2. Cardinality(Places(e)) = 1
      BY <3>1, FS_Singleton
    <3>3. e \notin reports /\ Committed(e)
      BY <2>2 DEF LandedInv, Landed
    <3>4. QED
      BY <3>2, <3>3
  <2>3. QED
    BY <2>1, <2>2
<1>2. QED
  BY <1>1 DEF CommittedExactlyOnce, LandedInv, Landed, Places

\* What became of an execution that is committed, and of one that is not.
KeepsCommitted(e) ==
  /\ Committed(e)' <=> Committed(e)
  /\ Committed(e) => /\ executions'[e].roundId = executions[e].roundId
                     /\ executions'[e].resultKind = executions[e].resultKind

\* A place of the projection that names an execution names a committed one.
LEMMA ItemsAreCommitted ==
  ASSUME LandedInv, NEW i \in DOMAIN projection, IsModelItem(i)
  PROVE  /\ projection[i].sourceExecutionId \in ExecutionIds
         /\ i \in Places(projection[i].sourceExecutionId)
         /\ Committed(projection[i].sourceExecutionId)
<1>1. projection[i] \in Items
  <2>1. projection \in Seq(Items) /\ i \in 1 .. Len(projection)
    BY DEF LandedInv, Typed, TypeOK, EntitiesType
  <2>2. QED
    BY <2>1
<1>2. projection[i].sourceExecutionId \in ExecutionIds
  BY <1>1 DEF Items, IsModelItem
<1>3. i \in Places(projection[i].sourceExecutionId)
  BY DEF Places
<1>4. QED
  BY <1>2, <1>3 DEF LandedInv, Landed

\* A step that writes no entity.
LEMMA StillLanded ==
  ASSUME LandedInv, UNCHANGED <<projection, reports>>, \A e \in ExecutionIds : KeepsCommitted(e)
  PROVE  Landed'
<1>1. \A e : Places(e)' = Places(e)
  BY DEF Places
<1>2. \A e \in reports : e \in ExecutionIds /\ Committed(e)
  BY DEF LandedInv, Landed, Typed, TypeOK, EntitiesType
<1>3. \A i \in DOMAIN projection' : IsModelItem(i)' =>
        /\ Source(i)'.roundId = projection'[i].roundId
        /\ (projection'[i].role = "summary") <=> (Source(i)'.resultKind = "summary")
  BY ItemsAreCommitted DEF LandedInv, Landed, IsModelItem, Source, KeepsCommitted
<1>4. QED
  BY <1>1, <1>2, <1>3 DEF LandedInv, Landed, KeepsCommitted

LEMMA OthersKeepCommitted ==
  ASSUME NEW e \in ExecutionIds, ~ Committed(e), ~ Committed(e)',
         \A d \in ExecutionIds \ {e} : executions'[d] = executions[d]
  PROVE  \A d \in ExecutionIds : KeepsCommitted(d)
BY DEF KeepsCommitted, Committed

\* A user's message, or the entity of an execution that is committed with it.
LEMMA AppendLands ==
  ASSUME LandedInv, NEW item \in Items, projection' = Append(projection, item), UNCHANGED reports,
         \A d \in ExecutionIds : item.sourceExecutionId # d => KeepsCommitted(d),
         item.sourceExecutionId # None =>
           LET e == item.sourceExecutionId
           IN  /\ ~ Committed(e) /\ Committed(e)'
               /\ executions'[e].roundId = item.roundId
               /\ (item.role = "summary") <=> (executions'[e].resultKind = "summary")
  PROVE  Landed'
<1>1. /\ projection \in Seq(Items) /\ Len(projection) \in Nat
      /\ DOMAIN projection = 1 .. Len(projection)
      /\ DOMAIN projection' = 1 .. Len(projection) + 1
      /\ projection'[Len(projection) + 1] = item
      /\ \A i \in 1 .. Len(projection) : projection'[i] = projection[i]
  BY DEF LandedInv, Typed, TypeOK, EntitiesType
<1>2. DEFINE last == Len(projection) + 1
<1>3. ASSUME NEW e \in ExecutionIds
      PROVE  Places(e)' = IF item.sourceExecutionId = e THEN Places(e) \cup {last} ELSE Places(e)
  BY <1>1 DEF Places
<1>4. ASSUME NEW e \in ExecutionIds, item.sourceExecutionId = e
      PROVE  Places(e) = {} /\ e \notin reports
  BY <1>4, ExecutionIdsAssumption DEF LandedInv, Landed
<1>5. ASSUME NEW i \in DOMAIN projection, IsModelItem(i)
      PROVE  /\ projection[i].sourceExecutionId \in ExecutionIds
             /\ Committed(projection[i].sourceExecutionId)
             /\ projection[i].sourceExecutionId # item.sourceExecutionId
  BY <1>4, <1>5, ItemsAreCommitted
<1>6. \A e \in ExecutionIds : \A i, j \in Places(e)' : i = j
  BY <1>3, <1>4 DEF LandedInv, Landed
<1>7. \A e \in ExecutionIds : Committed(e)' <=> (e \in reports' \/ Places(e)' # {})
  BY <1>3, ExecutionIdsAssumption DEF LandedInv, Landed, KeepsCommitted
<1>8. reports \subseteq ExecutionIds
  BY DEF LandedInv, Typed, TypeOK, EntitiesType
<1>9. \A e \in reports' : Places(e)' = {} /\ executions'[e].resultKind = "report"
  BY <1>3, <1>4, <1>8 DEF LandedInv, Landed, KeepsCommitted
<1>10. ASSUME NEW i \in DOMAIN projection', IsModelItem(i)'
       PROVE  /\ Source(i)'.roundId = projection'[i].roundId
              /\ (projection'[i].role = "summary") <=> (Source(i)'.resultKind = "summary")
  <2>1. CASE i = last
    BY <1>1, <1>10, <2>1 DEF IsModelItem, Source
  <2>2. CASE i # last
    <3>1. i \in DOMAIN projection /\ projection'[i] = projection[i]
      BY <1>1, <2>2
    <3>2. IsModelItem(i)
      BY <1>10, <3>1 DEF IsModelItem
    <3>3. KeepsCommitted(projection[i].sourceExecutionId)
      BY <1>5, <3>1, <3>2
    <3>4. QED
      BY <1>5, <3>1, <3>2, <3>3 DEF LandedInv, Landed, KeepsCommitted, Source
  <2>3. QED
    BY <2>1, <2>2
<1>11. QED
  BY <1>6, <1>7, <1>9, <1>10 DEF Landed

LEMMA CommitLands ==
  ASSUME LandedInv, NEW e \in ExecutionIds, executions[e].state \in {"running", "succeeded_uncommitted"},
         NEW role \in {"participant", "summary"},
         (role = "summary") <=> (executions[e].resultKind = "summary"),
         Persist(e, "committed"), AppendItem(ItemOf(e, role)), UNCHANGED reports
  PROVE  Landed'
<1>1. executions \in [ExecutionIds -> Executions]
  BY DEF LandedInv, Typed, TypeOK, RowsType
<1>2. DEFINE item == ItemOf(e, role)
<1>3. /\ item \in Items /\ item.sourceExecutionId = e /\ item.role = role
      /\ item.roundId = executions[e].roundId
  BY <1>1 DEF ItemOf, Items, LandedInv, Typed, BegunHasRound, Executions
<1>4. projection' = Append(projection, item)
  BY DEF AppendItem
<1>5. /\ ~ Committed(e) /\ Committed(e)'
      /\ executions'[e].roundId = executions[e].roundId
      /\ executions'[e].resultKind = executions[e].resultKind
      /\ \A d \in ExecutionIds \ {e} : executions'[d] = executions[d]
  BY <1>1 DEF Persist, Committed, Executions
<1>6. \A d \in ExecutionIds : item.sourceExecutionId # d => KeepsCommitted(d)
  BY <1>3, <1>5 DEF KeepsCommitted, Committed
<1>7. HIDE DEF item
<1>8. QED
  BY <1>3, <1>4, <1>5, <1>6, AppendLands

LEMMA CommitReportLands ==
  ASSUME LandedInv, NEW t, NEW e \in ExecutionIds, CommitReport(t, e)
  PROVE  Landed'
<1>1. executions \in [ExecutionIds -> Executions]
  BY DEF LandedInv, Typed, TypeOK, RowsType
<1>2. ~ Committed(e) /\ executions[e].resultKind = "report" /\ UNCHANGED projection
  BY DEF CommitReport, Committable, Committed
<1>3. CASE UNCHANGED reports /\ Persist(e, "discarded")
  <2>1. ~ Committed(e)' /\ \A d \in ExecutionIds \ {e} : executions'[d] = executions[d]
    BY <1>1, <1>3 DEF Persist, Committed, Executions
  <2>2. QED
    BY <1>2, <1>3, <2>1, OthersKeepCommitted, StillLanded
<1>4. CASE reports = {} /\ reports' = {e} /\ Persist(e, "committed")
  <2>1. /\ Committed(e)' /\ executions'[e].resultKind = "report"
        /\ \A d \in ExecutionIds \ {e} : executions'[d] = executions[d]
    BY <1>1, <1>2, <1>4 DEF Persist, Committed, Executions
  <2>2. \A d : Places(d)' = Places(d)
    BY <1>2 DEF Places
  <2>3. Places(e) = {}
    BY <1>2 DEF LandedInv, Landed
  <2>4. \A i \in DOMAIN projection' : IsModelItem(i)' => IsModelItem(i) /\ Source(i)' = Source(i)
    <3>1. ASSUME NEW i \in DOMAIN projection, IsModelItem(i)
          PROVE  projection[i].sourceExecutionId \in ExecutionIds \ {e}
      BY <1>2, <3>1, ItemsAreCommitted
    <3>2. QED
      BY <1>2, <2>1, <3>1 DEF IsModelItem, Source
  <2>5. \A i \in DOMAIN projection' : IsModelItem(i)' =>
          /\ Source(i)'.roundId = projection'[i].roundId
          /\ (projection'[i].role = "summary") <=> (Source(i)'.resultKind = "summary")
    BY <1>2, <2>4 DEF LandedInv, Landed
  <2>6. \A d \in ExecutionIds : Committed(d)' <=> (d \in reports' \/ Places(d)' # {})
    BY <1>4, <2>1, <2>2 DEF LandedInv, Landed, Committed
  <2>7. QED
    BY <1>4, <2>1, <2>2, <2>3, <2>5, <2>6 DEF LandedInv, Landed
<1>5. QED
  BY <1>3, <1>4 DEF CommitReport

LEMMA ContextStepLands ==
  ASSUME LandedInv, NEW t \in Tokens, ContextStep(t)
  PROVE  Landed'
<1>1. /\ UNCHANGED <<executions, reports>>
      /\ \A d \in ExecutionIds : KeepsCommitted(d)
  BY DEF ContextStep, AppendUserMessage, UpdateRoomSharedConfig, WriteTopic, SetRoomRunState,
         KeepsCommitted, Committed
<1>2. ASSUME NEW r \in RoundIds, AppendUserMessage(t, r)
      PROVE  Landed'
  <2>1. PICK item \in Items : item.sourceExecutionId = None /\ AppendItem(item)
    BY <1>2 DEF AppendUserMessage, Items
  <2>2. projection' = Append(projection, item)
    BY <2>1 DEF AppendItem
  <2>3. QED
    BY <1>1, <2>1, <2>2, AppendLands
<1>3. QED
  BY <1>1, <1>2, StillLanded DEF ContextStep, UpdateRoomSharedConfig, WriteTopic, SetRoomRunState

LEMMA RoundStepLands ==
  ASSUME LandedInv, NEW t \in Tokens, RoundStep(t)
  PROVE  Landed'
<1>1. PICK r \in RoundIds :
        \/ \E order \in Orders : CreateRound(t, r, order)
        \/ \E to \in {"prewarming", "running"} : TransitionRound(t, r, to)
        \/ PrewarmFailed(t, r)
        \/ RetryFailedParticipant(t, r)
        \/ AbortRound(t, r)
        \/ SkipParticipant(t, r)
  BY DEF RoundStep
<1>2. executions \in [ExecutionIds -> Executions]
  BY DEF LandedInv, Typed, TypeOK, RowsType
<1>3. UNCHANGED <<projection, reports>>
  BY <1>1 DEF CreateRound, TransitionRound, PrewarmFailed, PauseRound, RetryFailedParticipant,
              ResumeRound, AbortRound, SkipParticipant
<1>4. CASE UNCHANGED executions
  BY <1>3, <1>4, StillLanded DEF KeepsCommitted, Committed
<1>5. CASE AbortRound(t, r)
  <2>1. \A d \in ExecutionIds : KeepsCommitted(d)
    BY <1>2, <1>5 DEF AbortRound, InterruptIfLive, Live, LiveStates, KeepsCommitted, Committed
  <2>2. QED
    BY <1>3, <2>1, StillLanded
<1>6. QED
  BY <1>1, <1>4, <1>5
  DEF CreateRound, TransitionRound, PrewarmFailed, PauseRound, RetryFailedParticipant,
      ResumeRound, SkipParticipant

LEMMA BeginStepLands ==
  ASSUME LandedInv, NEW t \in Tokens, BeginStep(t)
  PROVE  Landed'
<1>1. PICK e \in ExecutionIds, r \in RoundIds, p \in Participants, ctx \in published :
        \/ \E kind \in {"message", "summary"} : BeginExecution(t, e, kind, r, p, ctx)
        \/ BeginFocusExecution(t, e, r, p, ctx)
        \/ BeginReportExecution(t, e, r, p, ctx)
  BY DEF BeginStep
<1>2. PICK kind \in ResultKinds : AddExecution(e, kind, r, p, ctx)
  BY <1>1 DEF BeginExecution, BeginFocusExecution, BeginReportExecution, ResultKinds
<1>3. /\ ~ Committed(e) /\ ~ Committed(e)'
      /\ \A d \in ExecutionIds \ {e} : executions'[d] = executions[d]
  BY <1>2 DEF AddExecution, NextExecution, Committed, LandedInv, Typed, TypeOK, RowsType
<1>4. UNCHANGED <<projection, reports>>
  BY <1>1 DEF BeginExecution, BeginFocusExecution, BeginReportExecution
<1>5. QED
  BY <1>3, <1>4, OthersKeepCommitted, StillLanded

\* A live execution that is dropped or fails leaves no entity.
LEMMA DropLands ==
  ASSUME LandedInv, NEW e \in ExecutionIds, Live(e), executions'[e].state # "committed",
         \A d \in ExecutionIds \ {e} : executions'[d] = executions[d],
         UNCHANGED <<projection, reports>>
  PROVE  Landed'
BY OthersKeepCommitted, StillLanded DEF Live, LiveStates, Committed

LEMMA DiscardLands ==
  ASSUME LandedInv, NEW e \in ExecutionIds, Live(e), DiscardLockedExecution(e)
  PROVE  Landed'
BY DropLands DEF DiscardLockedExecution, Persist, LandedInv, Typed, TypeOK, RowsType, Executions

LEMMA FailureLands ==
  ASSUME LandedInv, NEW e \in ExecutionIds, NEW kind \in {"failed", "interrupted"}, NEW pause,
         RecordExecutionFailure(e, kind, pause)
  PROVE  Landed'
BY DropLands DEF RecordExecutionFailure, LandedInv, Typed, TypeOK, RowsType, Executions

LEMMA EndStepLands ==
  ASSUME LandedInv, NEW t \in Tokens, EndStep(t)
  PROVE  Landed'
<1>1. PICK e \in ExecutionIds :
        \/ CommitModelMessage(t, e)
        \/ CommitFocusMessage(t, e)
        \/ CommitSummary(t, e)
        \/ CommitReport(t, e)
        \/ DiscardExecution(t, e)
        \/ \E kind \in {"failed", "interrupted"}, pause \in BOOLEAN : FailExecution(t, e, kind, pause)
  BY DEF EndStep
<1>2. CASE CommitModelMessage(t, e) \/ CommitFocusMessage(t, e) \/ CommitSummary(t, e)
  <2>1. executions[e].state \in {"running", "succeeded_uncommitted"}
    BY <1>2 DEF CommitModelMessage, CommitFocusMessage, CommitSummary, Committable
  <2>2. CASE DiscardLockedExecution(e)
    BY <2>1, <2>2, DiscardLands DEF Live, LiveStates
  <2>3. CASE ~ DiscardLockedExecution(e)
    <3>1. /\ Persist(e, "committed") /\ UNCHANGED reports
          /\ \E role \in {"participant", "summary"} :
               /\ AppendItem(ItemOf(e, role))
               /\ (role = "summary") <=> (executions[e].resultKind = "summary")
      BY <1>2, <2>3 DEF CommitModelMessage, CommitFocusMessage, CommitSummary, Committable
    <3>2. QED
      BY <2>1, <3>1, CommitLands
  <2>4. QED
    BY <2>2, <2>3
<1>3. CASE DiscardExecution(t, e)
  BY <1>3, DiscardLands DEF DiscardExecution, Live, LiveStates
<1>4. QED
  BY <1>1, <1>2, <1>3, CommitReportLands, FailureLands DEF FailExecution

LEMMA UncontrolledStepLands ==
  ASSUME LandedInv, UncontrolledStep \/ BindingsStep
  PROVE  Landed'
<1>1. executions \in [ExecutionIds -> Executions]
  BY DEF LandedInv, Typed, TypeOK, RowsType
<1>2. CASE UNCHANGED <<executions, projection, reports>>
  BY <1>2, StillLanded DEF KeepsCommitted, Committed
<1>3. ASSUME NEW e \in ExecutionIds, NEW from \in LiveStates, NEW to \in LiveStates,
             SetState(e, from, to)
      PROVE  Landed'
  BY <1>1, <1>3, OthersKeepCommitted, StillLanded DEF SetState, LiveStates, Committed, Executions
<1>4. ASSUME NEW e \in ExecutionIds, NEW ack, SetAckState(e, ack)
      PROVE  Landed'
  <2>1. \A d \in ExecutionIds : KeepsCommitted(d)
    BY <1>1, <1>4 DEF SetAckState, KeepsCommitted, Committed, Executions
  <2>2. QED
    BY <1>4, <2>1, StillLanded DEF SetAckState
<1>5. CASE BindingsStep \/ \E topic \in Topics : RenameColdRoom(topic)
  BY <1>2, <1>5
  DEF BindingsStep, CreateRuntimeBinding, ActivateRuntimeBinding, TakeoverRuntimeBinding, Grant,
      MarkBindingClosed, ReleaseRuntime, BindingStep, RenameColdRoom, WriteTopic
<1>6. QED
  BY <1>3, <1>4, <1>5, FailureLands
  DEF UncontrolledStep, MarkExecutionDispatched, MarkExecutionSucceededUncommitted,
      FailUnboundExecution, MarkAcknowledged, MarkAckExpired, LiveStates

LEMMA InitLanded == Init => LandedInv
<1>1. SUFFICES ASSUME Init PROVE Landed
  BY InitTyped DEF LandedInv
<1>2. projection = <<>> /\ reports = {} /\ \A e \in ExecutionIds : ~ Committed(e)
  BY <1>1 DEF Init, Committed
<1>3. DOMAIN projection = {} /\ \A e : Places(e) = {}
  BY <1>2 DEF Places
<1>4. QED
  BY <1>2, <1>3 DEF Landed

LEMMA NextLanded ==
  ASSUME LandedInv, [Next]_vars
  PROVE  LandedInv'
<1>1. Typed'
  BY NextTyped DEF LandedInv
<1>2. CASE UNCHANGED vars
  BY <1>1, <1>2, StillLanded DEF vars, LandedInv, KeepsCommitted, Committed
<1>3. CASE Next
  BY <1>1, <1>3, ContextStepLands, RoundStepLands, BeginStepLands, EndStepLands,
     UncontrolledStepLands DEF Next, LandedInv
<1>4. QED
  BY <1>2, <1>3

\* An execution is committed exactly when the transcript or the report carries its
\* entity, once, of the kind and in the Round it was asked for: no crash between
\* two steps and no replayed or late answer doubles an entity or loses one.
THEOREM CommitsLandOnce == Spec => []CommittedExactlyOnce
BY InitLanded, NextLanded, LandedCounts, PTL DEF Spec
=============================================================================
