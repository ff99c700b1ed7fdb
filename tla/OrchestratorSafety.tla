-------------------------- MODULE OrchestratorSafety --------------------------
(***************************************************************************)
(* What holds of the pages and the Host for any number of pages, intents,  *)
(* Rounds, executions and tokens.                                          *)
(*                                                                         *)
(* An intent carries locals over its awaits and the rows move meanwhile:   *)
(* PageInv says what of its locals is still true when it goes on.  With it *)
(* every step of a page is a step of DiscussionTransactions, so that what  *)
(* is proved of the transactions holds of the pages.  On it rest, section  *)
(* by section: what the Host was told of a result is what its row says; a  *)
(* turn that runs has an intent that will stop it; and a Scope that is     *)
(* open has a row or an intent that will close it.                         *)
(***************************************************************************)
EXTENDS OrchestratorProperties, DiscussionVerdicts, WellFoundedInduction

-----------------------------------------------------------------------------
(* What the transactions keep for the pages.                               *)

\* The rows that an intent reads before a transaction of its own.
ContextPublished == RoomContext \in published
ActiveHasToken   == \A b \in BindingIds : bindings[b].state = "active" => bindings[b].token \in Tokens
RoundsAreBounded == \E n \in Nat : \A r \in RoundIds : rounds[r].phase # "none" => r <= n

StoreInv == Inv /\ OneLiveBinding /\ ContextPublished /\ ActiveHasToken /\ RoundsAreBounded

\* The transactions of a page but for those that open a Round.
Calls ==
  \/ \E t \in Tokens : \/ ContextStep(t) \/ BeginStep(t) \/ EndStep(t)
                       \/ \E r \in RoundIds : \/ RetryFailedParticipant(t, r)
                                              \/ AbortRound(t, r)
                                              \/ SkipParticipant(t, r)
  \/ UncontrolledStep
  \/ BindingsStep

\* A Round that is being opened is left alone or aborted.
Untouched(r) ==
  /\ rounds[r].phase \in {"none", "aborted"} => rounds'[r].phase = rounds[r].phase
  /\ rounds[r].phase \in {"pending", "prewarming"} =>
       rounds'[r].phase \in {rounds[r].phase, "aborted"}

LEMMA SamePhaseUntouched ==
  ASSUME NEW r \in RoundIds, rounds'[r].phase = rounds[r].phase
  PROVE  Untouched(r)
BY DEF Untouched

LEMMA RunningUntouched ==
  ASSUME NEW r \in RoundIds, rounds[r].phase \in {"running", "summarizing", "paused", "completed"}
  PROVE  Untouched(r)
BY DEF Untouched

LEMMA DropUntouched ==
  ASSUME Typed, NEW e \in ExecutionIds, Begun(e), NEW pause \in BOOLEAN,
         rounds' = [rounds EXCEPT ![executions[e].roundId] = WithoutExecution(@, e, pause)]
  PROVE  \A r \in RoundIds : Untouched(r)
<1>1. rounds \in [RoundIds -> Rounds] /\ executions[e].roundId \in RoundIds
  BY DEF Typed, TypeOK, RowsType, BegunHasRound, Begun
<1>2. ASSUME NEW r \in RoundIds
      PROVE  \/ rounds'[r].phase = rounds[r].phase
             \/ rounds[r].phase \in {"running", "summarizing"}
  BY <1>1 DEF WithoutExecution, Paused, Rounds
<1>3. QED
  BY <1>2, SamePhaseUntouched, RunningUntouched

LEMMA BeginUntouched ==
  ASSUME Inv, NEW t \in Tokens, BeginStep(t)
  PROVE  \A r \in RoundIds : Untouched(r)
<1>1. PICK e \in ExecutionIds, r \in RoundIds, p \in Participants, ctx \in published :
        \/ \E kind \in {"message", "summary"} : BeginExecution(t, e, kind, r, p, ctx)
        \/ BeginFocusExecution(t, e, r, p, ctx)
        \/ BeginReportExecution(t, e, r, p, ctx)
  BY DEF BeginStep
<1>2. rounds \in [RoundIds -> Rounds] /\ room \in RoomRows
  BY DEF Inv, Typed, TypeOK, RowsType
<1>3. CASE Occupy(r, e)
  BY <1>2, <1>3, SamePhaseUntouched DEF Occupy, Rounds
<1>4. CASE BeginReportExecution(t, e, r, p, ctx)
  <2>1. CASE UNCHANGED rounds
    BY <2>1, SamePhaseUntouched
  <2>2. CASE room.activeRoundId # None /\ rounds' # rounds
    <3>1. room.activeRoundId \in RoundIds /\ rounds[room.activeRoundId].phase \notin {"none", "aborted"}
      BY <1>2, <2>2 DEF RoomRows, Inv, InStep, OneUnfinishedRound, FinalPhases
    <3>2. rounds' = [rounds EXCEPT ![room.activeRoundId] = Aborted(@)]
      BY <1>4, <2>2 DEF BeginReportExecution
    <3>3. /\ rounds'[room.activeRoundId].phase = "aborted"
          /\ \A q \in RoundIds \ {room.activeRoundId} : rounds'[q] = rounds[q]
      BY <1>2, <3>1, <3>2 DEF Aborted, Rounds
    <3>4. QED
      BY <3>1, <3>3 DEF Untouched
  <2>3. QED
    BY <1>4, <2>1, <2>2 DEF BeginReportExecution
<1>5. QED
  BY <1>1, <1>3, <1>4 DEF BeginExecution, BeginFocusExecution

LEMMA EndUntouched ==
  ASSUME Inv, NEW t \in Tokens, EndStep(t)
  PROVE  \A r \in RoundIds : Untouched(r)
<1>1. PICK e \in ExecutionIds :
        \/ CommitModelMessage(t, e)
        \/ CommitFocusMessage(t, e)
        \/ CommitSummary(t, e)
        \/ CommitReport(t, e)
        \/ DiscardExecution(t, e)
        \/ \E kind \in {"failed", "interrupted"}, pause \in BOOLEAN : FailExecution(t, e, kind, pause)
  BY DEF EndStep
<1>2. rounds \in [RoundIds -> Rounds] /\ Typed
  BY DEF Inv, Typed, TypeOK, RowsType
<1>3. ASSUME Begun(e), DiscardLockedExecution(e)
      PROVE  \A r \in RoundIds : Untouched(r)
  BY <1>2, <1>3, DropUntouched DEF DiscardLockedExecution
<1>4. ASSUME NEW kind \in {"failed", "interrupted"}, NEW pause \in BOOLEAN, FailExecution(t, e, kind, pause)
      PROVE  \A r \in RoundIds : Untouched(r)
  BY <1>2, <1>4, DropUntouched DEF FailExecution, RecordExecutionFailure, Live, LiveStates, Begun
<1>5. CASE CommitModelMessage(t, e) \/ CommitFocusMessage(t, e) \/ CommitSummary(t, e)
  <2>1. Begun(e)
    BY <1>5 DEF CommitModelMessage, CommitFocusMessage, CommitSummary, Committable, Begun
  <2>2. /\ rounds[executions[e].roundId].phase \in {"running", "summarizing"}
        /\ ~ DiscardLockedExecution(e) =>
             \A r \in RoundIds \ {executions[e].roundId} : rounds'[r] = rounds[r]
    BY <1>2, <1>5 DEF CommitModelMessage, CommitFocusMessage, CommitSummary, IsActiveExecution
  <2>3. QED
    BY <1>3, <2>1, <2>2, SamePhaseUntouched, RunningUntouched
<1>6. CASE CommitReport(t, e)
  BY <1>6, SamePhaseUntouched DEF CommitReport
<1>7. CASE DiscardExecution(t, e)
  BY <1>3, <1>7 DEF DiscardExecution, Begun
<1>8. QED
  BY <1>1, <1>4, <1>5, <1>6, <1>7

LEMMA CallsUntouched ==
  ASSUME Inv, Calls \/ UNCHANGED vars
  PROVE  \A r \in RoundIds : Untouched(r)
<1>1. rounds \in [RoundIds -> Rounds] /\ Typed
  BY DEF Inv, Typed, TypeOK, RowsType
<1>2. CASE UNCHANGED vars \/ BindingsStep \/ \E t \in Tokens : ContextStep(t)
  <2>1. UNCHANGED rounds
    BY <1>2
    DEF vars, BindingsStep, CreateRuntimeBinding, ActivateRuntimeBinding, TakeoverRuntimeBinding, Grant,
        MarkBindingClosed, ReleaseRuntime, BindingStep, ContextStep, AppendUserMessage,
        UpdateRoomSharedConfig, WriteTopic, SetRoomRunState
  <2>2. QED
    BY <2>1, SamePhaseUntouched
<1>3. ASSUME NEW t \in Tokens, NEW r \in RoundIds,
             RetryFailedParticipant(t, r) \/ AbortRound(t, r) \/ SkipParticipant(t, r)
      PROVE  \A q \in RoundIds : Untouched(q)
  <2>1. rounds[r].phase \in {"running", "summarizing", "paused"}
    BY <1>3 DEF RetryFailedParticipant, ResumeRound, AbortRound, SkipParticipant
  <2>2. \A q \in RoundIds \ {r} : rounds'[q] = rounds[q]
    BY <1>1, <1>3 DEF RetryFailedParticipant, ResumeRound, AbortRound, SkipParticipant
  <2>3. QED
    BY <2>1, <2>2, SamePhaseUntouched, RunningUntouched
<1>4. CASE UncontrolledStep
  <2>1. ASSUME NEW e \in ExecutionIds, NEW kind, FailUnboundExecution(e, kind)
        PROVE  \A r \in RoundIds : Untouched(r)
    BY <1>1, <2>1, DropUntouched
    DEF FailUnboundExecution, RecordExecutionFailure, Live, LiveStates, Begun
  <2>2. CASE UNCHANGED rounds
    BY <2>2, SamePhaseUntouched
  <2>3. QED
    BY <1>4, <2>1, <2>2
    DEF UncontrolledStep, RenameColdRoom, WriteTopic, MarkExecutionDispatched,
        MarkExecutionSucceededUncommitted, SetState, MarkAcknowledged, MarkAckExpired, SetAckState
<1>5. QED
  BY <1>2, <1>3, <1>4, BeginUntouched, EndUntouched DEF Calls

\* What a page may hold as a copy of the Room only grows, and the Room's own is in it.
ContextGrows == published \subseteq published' /\ ContextPublished'

LEMMA PairKeptGrows ==
  ASSUME ContextPublished, UNCHANGED published, room'.contextRevision = room.contextRevision,
         room'.contextDigest = room.contextDigest
  PROVE  ContextGrows
BY DEF ContextGrows, ContextPublished, RoomContext

LEMMA PublishGrows ==
  ASSUME NEW row, Publish(row), room'.contextRevision = row.contextRevision,
         room'.contextDigest = row.contextDigest
  PROVE  ContextGrows
BY DEF ContextGrows, ContextPublished, RoomContext, Publish

LEMMA AppendGrows ==
  ASSUME room \in RoomRows, NEW item, AppendItem(item),
         LET row == BumpRoomContext(room, room.topic, projection')
         IN  room' = row \/ room' = [row EXCEPT !.activeRoundId = None, !.runState = "idle"]
  PROVE  ContextGrows
<1>1. PICK row : row = BumpRoomContext(room, room.topic, Append(projection, item))
  OBVIOUS
<1>2. Publish(row) /\ (room' = row \/ room' = [row EXCEPT !.activeRoundId = None, !.runState = "idle"])
  BY <1>1 DEF AppendItem
<1>3. room'.contextRevision = row.contextRevision /\ room'.contextDigest = row.contextDigest
  BY <1>1, <1>2 DEF BumpRoomContext, RoomRows
<1>4. QED
  BY <1>2, <1>3, PublishGrows

LEMMA ContextStepGrows ==
  ASSUME room \in RoomRows, ContextPublished, NEW t \in Tokens,
         ContextStep(t) \/ \E topic \in Topics : WriteTopic(topic)
  PROVE  ContextGrows
<1>1. ASSUME NEW topic \in Topics, WriteTopic(topic)
      PROVE  ContextGrows
  BY <1>1, PublishGrows DEF WriteTopic
<1>2. ASSUME NEW r \in RoundIds, AppendUserMessage(t, r)
      PROVE  ContextGrows
  BY <1>2, AppendGrows DEF AppendUserMessage
<1>3. ASSUME NEW runState, SetRoomRunState(t, runState)
      PROVE  ContextGrows
  BY <1>3, PairKeptGrows DEF SetRoomRunState, RoomRows
<1>4. QED
  BY <1>1, <1>2, <1>3 DEF ContextStep, UpdateRoomSharedConfig

LEMMA EndStepGrows ==
  ASSUME room \in RoomRows, ContextPublished, NEW t \in Tokens, EndStep(t)
  PROVE  ContextGrows
<1>1. PICK e \in ExecutionIds :
        \/ CommitModelMessage(t, e)
        \/ CommitFocusMessage(t, e)
        \/ CommitSummary(t, e)
        \/ CommitReport(t, e)
        \/ DiscardExecution(t, e)
        \/ \E kind \in {"failed", "interrupted"}, pause \in BOOLEAN : FailExecution(t, e, kind, pause)
  BY DEF EndStep
<1>2. CASE DiscardLockedExecution(e) \/ \E kind, pause : FailExecution(t, e, kind, pause)
  BY <1>2, PairKeptGrows DEF DiscardLockedExecution, FailExecution, RecordExecutionFailure
<1>3. CASE CommitReport(t, e)
  BY <1>3, PairKeptGrows DEF CommitReport, RoomRows
<1>4. CASE CommitModelMessage(t, e) \/ CommitFocusMessage(t, e) \/ CommitSummary(t, e)
  <2>1. \/ DiscardLockedExecution(e)
        \/ /\ \E role \in {"participant", "summary"} : AppendItem(ItemOf(e, role))
           /\ LET row == BumpRoomContext(room, room.topic, projection')
              IN  room' = row \/ room' = [row EXCEPT !.activeRoundId = None, !.runState = "idle"]
    BY <1>4 DEF CommitModelMessage, CommitFocusMessage, CommitSummary
  <2>2. QED
    BY <1>2, <2>1, AppendGrows
<1>5. QED
  BY <1>1, <1>2, <1>3, <1>4 DEF DiscardExecution

LEMMA NextGrows ==
  ASSUME room \in RoomRows, ContextPublished, [Next]_vars
  PROVE  ContextGrows
<1>1. ASSUME NEW t \in Tokens, RoundStep(t) \/ BeginStep(t)
      PROVE  ContextGrows
  <2>1. UNCHANGED published
    BY <1>1, ZenonT(60)
    DEF RoundStep, CreateRound, TransitionRound, PrewarmFailed, PauseRound, RetryFailedParticipant,
        ResumeRound, AbortRound, SkipParticipant, BeginStep, BeginExecution, BeginFocusExecution,
        BeginReportExecution
  <2>2. PairStays
    BY <1>1, RoundStepKeepsPair
  <2>3. QED
    BY <2>1, <2>2, PairKeptGrows DEF PairStays, RoomRows
<1>2. CASE UncontrolledStep
  <2>1. CASE UNCHANGED <<room, published>>
    BY <2>1, PairKeptGrows
  <2>2. ASSUME NEW topic \in Topics, RenameColdRoom(topic)
        PROVE  ContextGrows
    BY <2>2, PublishGrows DEF RenameColdRoom, WriteTopic
  <2>3. QED
    BY <1>2, <2>1, <2>2
    DEF UncontrolledStep, MarkExecutionDispatched, MarkExecutionSucceededUncommitted, SetState,
        FailUnboundExecution, RecordExecutionFailure, MarkAcknowledged, MarkAckExpired, SetAckState
<1>3. CASE BindingsStep \/ UNCHANGED vars
  BY <1>3, PairKeptGrows
  DEF vars, BindingsStep, CreateRuntimeBinding, ActivateRuntimeBinding, TakeoverRuntimeBinding, Grant,
      MarkBindingClosed, ReleaseRuntime, BindingStep
<1>4. QED
  BY <1>1, <1>2, <1>3, ContextStepGrows, EndStepGrows DEF Next

\* A row that was written stays.
BegunStays == \A e \in ExecutionIds : Begun(e) => Begun(e)'

LEMMA RowWrittenStays ==
  ASSUME executions \in [ExecutionIds -> Executions], NEW e \in ExecutionIds, NEW row,
         row.state # "none", executions' = [executions EXCEPT ![e] = row]
  PROVE  BegunStays
BY DEF BegunStays, Begun

LEMMA NextKeepsBegun ==
  ASSUME Typed, [Next]_vars
  PROVE  BegunStays
<1>1. executions \in [ExecutionIds -> Executions]
  BY DEF Typed, TypeOK, RowsType
<1>2. ASSUME NEW e \in ExecutionIds, NEW state, state # "none",
             Persist(e, state) \/ SetState(e, executions[e].state, state)
      PROVE  BegunStays
  BY <1>1, <1>2 DEF Persist, SetState, BegunStays, Begun, Executions
<1>3. ASSUME NEW e \in ExecutionIds, NEW kind \in {"failed", "interrupted"}, NEW pause,
             RecordExecutionFailure(e, kind, pause)
      PROVE  BegunStays
  BY <1>1, <1>3 DEF RecordExecutionFailure, BegunStays, Begun, Executions
<1>4. CASE UNCHANGED executions
  BY <1>4 DEF BegunStays, Begun
<1>5. ASSUME NEW t \in Tokens, RoundStep(t)
      PROVE  BegunStays
  <2>1. ASSUME NEW e, executions' = InterruptIfLive(e)
        PROVE  BegunStays
    BY <1>1, <2>1 DEF InterruptIfLive, BegunStays, Begun, Executions
  <2>2. QED
    BY <1>4, <1>5, <2>1
    DEF RoundStep, CreateRound, TransitionRound, PrewarmFailed, PauseRound, RetryFailedParticipant,
        ResumeRound, AbortRound, SkipParticipant
<1>6. ASSUME NEW t \in Tokens, BeginStep(t)
      PROVE  BegunStays
  <2>1. PICK e, kind, r, p, ctx : e \in ExecutionIds /\ AddExecution(e, kind, r, p, ctx)
    BY <1>6 DEF BeginStep, BeginExecution, BeginFocusExecution, BeginReportExecution
  <2>2. QED
    BY <1>1, <2>1 DEF AddExecution, BegunStays, Begun
<1>7. ASSUME NEW t \in Tokens, EndStep(t)
      PROVE  BegunStays
  <2>1. PICK e \in ExecutionIds :
          \/ CommitModelMessage(t, e)
          \/ CommitFocusMessage(t, e)
          \/ CommitSummary(t, e)
          \/ CommitReport(t, e)
          \/ DiscardExecution(t, e)
          \/ \E kind \in {"failed", "interrupted"}, pause \in BOOLEAN : FailExecution(t, e, kind, pause)
    BY <1>7 DEF EndStep
  <2>2. \/ Persist(e, "committed") \/ Persist(e, "discarded")
        \/ \E kind \in {"failed", "interrupted"}, pause \in BOOLEAN : RecordExecutionFailure(e, kind, pause)
    BY <2>1, ZenonT(60) DEF CommitModelMessage, CommitFocusMessage, CommitSummary, CommitReport, DiscardExecution,
                DiscardLockedExecution, FailExecution
  <2>3. QED
    BY <1>2, <1>3, <2>2
<1>8. CASE UncontrolledStep
  <2>1. ASSUME NEW e \in ExecutionIds, MarkExecutionDispatched(e) \/ MarkExecutionSucceededUncommitted(e)
        PROVE  BegunStays
    BY <1>1, <2>1 DEF MarkExecutionDispatched, MarkExecutionSucceededUncommitted, SetState, BegunStays, Begun, Executions
  <2>2. ASSUME NEW e \in ExecutionIds, MarkAcknowledged(e) \/ MarkAckExpired(e)
        PROVE  BegunStays
    BY <1>1, <2>2 DEF MarkAcknowledged, MarkAckExpired, SetAckState, BegunStays, Begun, Executions
  <2>3. QED
    BY <1>3, <1>4, <1>8, <2>1, <2>2 DEF UncontrolledStep, RenameColdRoom, WriteTopic, FailUnboundExecution
<1>9. QED
  BY <1>4, <1>5, <1>6, <1>7, <1>8
  DEF Next, vars, BindingsStep, CreateRuntimeBinding, ActivateRuntimeBinding, TakeoverRuntimeBinding,
      Grant, MarkBindingClosed, ReleaseRuntime, BindingStep, ContextStep, AppendUserMessage,
      UpdateRoomSharedConfig, WriteTopic, SetRoomRunState

LEMMA NextActiveHasToken ==
  ASSUME BindingsType, ActiveHasToken, [Next]_vars
  PROVE  ActiveHasToken'
<1>1. CASE BindingsStep
  <2>1. PICK b \in BindingIds :
          \/ CreateRuntimeBinding(b)
          \/ \E t \in Tokens : ActivateRuntimeBinding(b, t) \/ TakeoverRuntimeBinding(b, t)
          \/ MarkBindingClosed(b)
          \/ ReleaseRuntime(b)
    BY <1>1 DEF BindingsStep
  <2>2. \E state \in {"creating", "closed"} : bindings' = [bindings EXCEPT ![b].state = state]
        \/ \E t \in Tokens : bindings' = [bindings EXCEPT ![b] = [state |-> "active", token |-> t]]
    BY <2>1 DEF CreateRuntimeBinding, ActivateRuntimeBinding, TakeoverRuntimeBinding, Grant,
                MarkBindingClosed, ReleaseRuntime
  <2>3. QED
    BY <2>2 DEF BindingsType, Bindings, ActiveHasToken
<1>2. QED
  BY <1>1, BindingsUntouched DEF ActiveHasToken

\* The last Round there is, which is the only one a transaction adds to.
LEMMA NextRoundsAreBounded ==
  ASSUME Inv, RoundsAreBounded, Calls \/ UNCHANGED vars \/ \E t \in Tokens : RoundStep(t)
  PROVE  RoundsAreBounded'
<1>1. PICK n \in Nat : \A r \in RoundIds : rounds[r].phase # "none" => r <= n
  BY DEF RoundsAreBounded
<1>2. rounds \in [RoundIds -> Rounds] /\ RoundIds \subseteq Nat
  BY RoundIdsAssumption DEF Inv, Typed, TypeOK, RowsType
<1>3. CASE Calls \/ UNCHANGED vars
  <2>1. \A r \in RoundIds : rounds'[r].phase # "none" => r <= n
    BY <1>1, <1>3, CallsUntouched DEF Untouched
  <2>2. QED
    BY <2>1 DEF RoundsAreBounded
<1>4. ASSUME NEW t \in Tokens, RoundStep(t)
      PROVE  RoundsAreBounded'
  <2>1. PICK r \in RoundIds : \A q \in RoundIds \ {r} : rounds'[q] = rounds[q]
    BY <1>2, <1>4
    DEF RoundStep, CreateRound, TransitionRound, PrewarmFailed, PauseRound, RetryFailedParticipant,
        ResumeRound, AbortRound, SkipParticipant
  <2>2. PICK m \in Nat : n <= m /\ r <= m
    <3>1. CASE n <= r
      BY <1>2, <3>1
    <3>2. CASE ~ n <= r
      BY <1>2, <3>2
    <3>3. QED
      BY <3>1, <3>2
  <2>3. \A q \in RoundIds : rounds'[q].phase # "none" => q <= m
    BY <1>1, <1>2, <2>1, <2>2
  <2>4. QED
    BY <2>3 DEF RoundsAreBounded
<1>5. QED
  BY <1>3, <1>4

LEMMA InitStore ==
  ASSUME Init
  PROVE  StoreInv
<1>1. OneLiveBinding /\ ActiveHasToken
  BY DEF Init, OneLiveBinding, ActiveHasToken
<1>2. ContextPublished
  BY DEF Init, ContextPublished, RoomContext
<1>3. RoundsAreBounded
  <2>1. \A r \in RoundIds : rounds[r].phase # "none" => r <= 0
    BY DEF Init, NoRound
  <2>2. QED
    BY <2>1 DEF RoundsAreBounded
<1>4. QED
  BY <1>1, <1>2, <1>3, InitInv DEF StoreInv

LEMMA NextStore ==
  ASSUME StoreInv, [Next]_vars
  PROVE  StoreInv' /\ ContextGrows /\ BegunStays
<1>1. Inv /\ Typed /\ room \in RoomRows /\ BindingsType
  BY DEF StoreInv, Inv, Typed, TypeOK, RowsType
<1>2. Calls \/ UNCHANGED vars \/ \E t \in Tokens : RoundStep(t)
  BY DEF Next, Calls
<1>3. OneLiveBinding'
  <2>1. CASE BindingsStep
    BY <1>1, <2>1, BindingsStepKeepsOneLive DEF StoreInv
  <2>2. CASE ~ BindingsStep
    BY <2>2, BindingsUntouched DEF StoreInv, OneLiveBinding
  <2>3. QED
    BY <2>1, <2>2
<1>4. QED
  BY <1>1, <1>2, <1>3, NextInv, NextGrows, NextKeepsBegun, NextActiveHasToken, NextRoundsAreBounded
  DEF StoreInv, ContextGrows

-----------------------------------------------------------------------------
(* The locals of an intent.                                                *)

Pcs == {"idle", "ensure", "bind", "host", "activate", "create", "seed", "prewarm", "probe",
        "pause", "run", "loop", "begin", "gate", "execute", "mark", "refused", "follow",
        "commit", "ack", "cancel", "abort", "rotate", "rotateClose", "start", "close", "conclude"}

ScopePcs == {"ensure", "bind", "host", "activate"}
SeedPcs  == {"seed", "prewarm"}
CallPcs  == {"gate", "execute", "mark", "refused", "follow", "commit", "ack"}

\* Whom a turn is asked of is the Round's business (AtCursor).
TasksOf(who) ==
  [pc : Pcs, page : Pages \cup {None}, t : Tokens \cup {None}, h : Tokens \cup {None},
   b : BindingIds \cup {None}, r : RoundIds \cup {None}, e : ExecutionIds \cup {None},
   p : {who}, kind : ResultKinds \cup {None}, ctx : Contexts \cup {None},
   retry : BOOLEAN, keep : BOOLEAN, ret : {None, "create", "probe", "conclude"}]

\* startRound has created its Round and not started it.
Opens(c) == c.pc \in SeedPcs \cup {"probe", "pause", "run"} \/ (c.pc \in ScopePcs /\ c.ret = "probe")

TaskOK(c) ==
  /\ c \in TasksOf(c.p)
  /\ c.pc # "idle" => c.page \in Pages
  /\ c.pc \in ScopePcs => c.ret \in {"create", "probe", "conclude"}
  /\ c.pc \in {"host", "activate", "probe", "close"} \cup CallPcs => c.b \in BindingIds
  /\ c.pc = "activate" => c.h \in Tokens
  /\ Opens(c) \/ c.pc \in {"begin", "abort", "rotate"} \cup CallPcs => c.r \in RoundIds
  /\ c.pc \in {"begin"} \cup CallPcs => c.kind \in ResultKinds
  /\ c.pc \in CallPcs => c.e \in ExecutionIds

\* The copy of the Room and the row it goes on with.
Refers(c) ==
  /\ c.pc \in {"begin"} \cup CallPcs => c.ctx \in published
  /\ c.pc \in CallPcs => Begun(c.e)

TasksOK == /\ task = [k \in Tasks |-> task[k]]
           /\ \A k \in Tasks : TaskOK(task[k]) /\ Refers(task[k])

\* An intent owns the Round it opens: nobody else moves it but to abort it.
OpeningRounds ==
  /\ \A k \in Tasks : Opens(task[k]) =>
       rounds[task[k].r].phase \in {IF task[k].pc \in SeedPcs THEN "pending" ELSE "prewarming", "aborted"}
  /\ \A j, k \in Tasks : Opens(task[j]) /\ Opens(task[k]) /\ task[j].r = task[k].r => j = k

\* The next locals of an intent fit what it goes on to do.
Continues(c, d) == Opens(d) => Opens(c) /\ d.r = c.r /\ (d.pc \in SeedPcs <=> c.pc \in SeedPcs)

Carries(c, d) ==
  /\ d.pc \in {"begin"} \cup CallPcs => d.ctx \in published
  /\ d.pc \in CallPcs => Begun(d.e) \/ executions'[d.e].state # "none"

Hands(k) ==
  /\ task' = [task EXCEPT ![k] = task'[k]]
  /\ TaskOK(task'[k]) /\ Continues(task[k], task'[k]) /\ Carries(task[k], task'[k])

LEMMA Written ==
  ASSUME TasksOK, NEW k \in Tasks, NEW c, task' = [task EXCEPT ![k] = c]
  PROVE  task'[k] = c /\ task' = [task EXCEPT ![k] = task'[k]]
<1>1. task'[k] = c
  BY DEF TasksOK
<1>2. QED
  BY <1>1

LEMMA WrittenHands ==
  ASSUME TasksOK, NEW k \in Tasks, NEW c, task' = [task EXCEPT ![k] = c], TaskOK(c),
         Continues(task[k], c), Carries(task[k], c)
  PROVE  Hands(k)
<1>1. task'[k] = c /\ task' = [task EXCEPT ![k] = task'[k]]
  BY Written
<1>2. QED
  BY <1>1 DEF Hands

LEMMA IdleOK == TaskOK(Idle) /\ ~ Opens(Idle) /\ Idle.pc = "idle"
<1>1. Idle.pc = "idle" /\ Idle.p = None
  BY DEF Idle
<1>2. Idle \in TasksOf(None)
  BY DEF Idle, TasksOf, Pcs
<1>3. QED
  BY <1>1, <1>2 DEF TaskOK, Opens, ScopePcs, SeedPcs, CallPcs

LEMMA EndHands ==
  ASSUME TasksOK, NEW k \in Tasks, End(k)
  PROVE  Hands(k)
<1>1. Continues(task[k], Idle) /\ Carries(task[k], Idle)
  BY IdleOK DEF Continues, Carries, CallPcs
<1>2. QED
  BY <1>1, IdleOK, WrittenHands DEF End

LEMMA GoHands ==
  ASSUME TasksOK, NEW k \in Tasks, NEW pc, Go(k, pc),
         \/ task[k].pc = "ensure" /\ pc = "bind"
         \/ task[k].pc \in ScopePcs /\ task[k].ret = "probe" /\ pc = "pause"
         \/ task[k].pc = "seed" /\ pc = "prewarm"
         \/ task[k].pc = "probe" /\ pc \in {"pause", "run"}
         \/ task[k].pc \in CallPcs /\ pc \in CallPcs
  PROVE  Hands(k)
<1>1. PICK c : c = [task[k] EXCEPT !.pc = pc]
  OBVIOUS
<1>2. task[k] \in TasksOf(task[k].p) /\ TaskOK(task[k]) /\ Refers(task[k])
  BY DEF TasksOK, TaskOK
<1>3. pc \in Pcs
  BY DEF Pcs, CallPcs
<1>4. /\ c \in TasksOf(task[k].p) /\ c.pc = pc
      /\ c.page = task[k].page /\ c.t = task[k].t /\ c.h = task[k].h /\ c.b = task[k].b
      /\ c.r = task[k].r /\ c.e = task[k].e /\ c.p = task[k].p /\ c.kind = task[k].kind
      /\ c.ctx = task[k].ctx /\ c.ret = task[k].ret
  BY <1>1, <1>2, <1>3 DEF TasksOf
<1>5. TaskOK(c)
  BY <1>2, <1>4 DEF TaskOK, Opens, ScopePcs, SeedPcs, CallPcs
<1>6. Continues(task[k], c) /\ Carries(task[k], c)
  BY <1>2, <1>4 DEF Continues, Carries, Refers, Opens, ScopePcs, SeedPcs, CallPcs
<1>7. QED
  BY <1>1, <1>5, <1>6, WrittenHands DEF Go

LEMMA LightHands ==
  ASSUME TasksOK, NEW k \in Tasks, NEW p \in Pages, NEW pc \in {"loop", "start", "rotateClose", "cancel"},
         task' = [task EXCEPT ![k] = [Idle EXCEPT !.pc = pc, !.page = p]]
  PROVE  Hands(k)
<1>1. PICK c : c = [Idle EXCEPT !.pc = pc, !.page = p]
  OBVIOUS
<1>2. c.pc = pc /\ c.page = p /\ c.p = None /\ c \in TasksOf(None)
  BY <1>1 DEF Idle, TasksOf, Pcs
<1>3. TaskOK(c)
  BY <1>2 DEF TaskOK, Opens, ScopePcs, SeedPcs, CallPcs
<1>4. Continues(task[k], c) /\ Carries(task[k], c)
  BY <1>2 DEF Continues, Carries, Opens, ScopePcs, SeedPcs, CallPcs
<1>5. QED
  BY <1>1, <1>3, <1>4, WrittenHands

LEMMA ContinueHands ==
  ASSUME TasksOK, NEW k \in Tasks, NEW pc \in {"loop", "start", "rotateClose"}, task[k].pc # "idle",
         Continue(k, pc)
  PROVE  Hands(k)
BY LightHands DEF Continue, TasksOK, TaskOK

LEMMA EnsureThrewHands ==
  ASSUME TasksOK, NEW k \in Tasks, task[k].pc \in ScopePcs, EnsureThrew(k)
  PROVE  Hands(k)
BY EndHands, GoHands DEF EnsureThrew

LEMMA EnsuredHands ==
  ASSUME TasksOK, NEW k \in Tasks, NEW b \in BindingIds, NEW t \in Tokens,
         task[k].pc \in ScopePcs, Ensured(k, b, t)
  PROVE  Hands(k)
<1>1. PICK c : c = [task[k] EXCEPT !.pc = task[k].ret, !.b = b, !.t = t, !.h = None]
  OBVIOUS
<1>2. task[k] \in TasksOf(task[k].p) /\ TaskOK(task[k])
  BY DEF TasksOK, TaskOK
<1>3. task[k].ret \in {"create", "probe", "conclude"}
  BY <1>2 DEF TaskOK, TasksOf
<1>4. /\ c \in TasksOf(task[k].p) /\ c.pc = task[k].ret /\ c.page = task[k].page /\ c.b = b
      /\ c.r = task[k].r /\ c.p = task[k].p /\ c.ret = task[k].ret /\ c.t = t /\ c.h = None
      /\ c.e = task[k].e /\ c.kind = task[k].kind /\ c.ctx = task[k].ctx
  <2>1. task[k].ret \in Pcs
    BY <1>3 DEF Pcs
  <2>2. QED
    BY <1>1, <1>2, <2>1 DEF TasksOf
<1>5. TaskOK(c)
  BY <1>2, <1>3, <1>4 DEF TaskOK, Opens, ScopePcs, SeedPcs, CallPcs
<1>6. Continues(task[k], c) /\ Carries(task[k], c)
  BY <1>2, <1>3, <1>4 DEF Continues, Carries, Opens, ScopePcs, SeedPcs, CallPcs
<1>7. task' = [task EXCEPT ![k] = c]
  BY <1>1 DEF Ensured
<1>8. QED
  BY <1>5, <1>6, <1>7, WrittenHands

LEMMA BeginHands ==
  ASSUME TasksOK, NEW k \in Tasks, NEW c, NEW p, c \in TasksOf(p), c.p = p, c.pc = "begin",
         c.page \in Pages, c.kind \in ResultKinds, c.r \in RoundIds, c.ctx \in published,
         task' = [task EXCEPT ![k] = c]
  PROVE  Hands(k)
<1>1. TaskOK(c)
  BY DEF TaskOK, Opens, ScopePcs, SeedPcs, CallPcs
<1>2. Continues(task[k], c) /\ Carries(task[k], c)
  BY DEF Continues, Carries, Opens, ScopePcs, SeedPcs, CallPcs
<1>3. QED
  BY <1>1, <1>2, WrittenHands

LEMMA TurnHands ==
  ASSUME StoreInv, TasksOK, NEW k \in Tasks, task[k].pc # "idle", NEW kind \in ResultKinds,
         NEW r \in RoundIds, NEW p, NEW retry \in BOOLEAN, Turn(k, "begin", kind, r, p, retry)
  PROVE  Hands(k)
<1>1. task[k].page \in Pages /\ RoomContext \in published /\ RoomContext \in Contexts
  BY DEF TasksOK, TaskOK, StoreInv, ContextPublished, Inv, Typed, TypeOK, ContextType
<1>2. PICK c : c = [Idle EXCEPT !.pc = "begin", !.page = task[k].page, !.kind = kind, !.r = r,
                                !.p = p, !.ctx = RoomContext, !.retry = retry]
  OBVIOUS
<1>3. /\ c.pc = "begin" /\ c.page = task[k].page /\ c.kind = kind /\ c.r = r /\ c.ctx = RoomContext
      /\ c.p = p /\ c \in TasksOf(p)
  BY <1>1, <1>2 DEF Idle, TasksOf, Pcs
<1>4. QED
  BY <1>1, <1>2, <1>3, BeginHands DEF Turn

LEMMA BindHands ==
  ASSUME TasksOK, NEW k \in Tasks, NEW b \in BindingIds, task[k].pc = "bind",
         task' = [task EXCEPT ![k].pc = "host", ![k].b = b]
  PROVE  Hands(k)
<1>1. PICK c : c = [task[k] EXCEPT !.pc = "host", !.b = b]
  OBVIOUS
<1>2. task[k] \in TasksOf(task[k].p) /\ TaskOK(task[k])
  BY DEF TasksOK, TaskOK
<1>3. "host" \in Pcs
  BY DEF Pcs
<1>4. /\ c \in TasksOf(task[k].p) /\ c.pc = "host" /\ c.b = b /\ c.page = task[k].page
      /\ c.r = task[k].r /\ c.p = task[k].p /\ c.ret = task[k].ret
  BY <1>1, <1>2, <1>3 DEF TasksOf
<1>5. TaskOK(c)
  BY <1>2, <1>4 DEF TaskOK, Opens, ScopePcs, SeedPcs, CallPcs
<1>6. Continues(task[k], c) /\ Carries(task[k], c)
  BY <1>2, <1>4 DEF Continues, Carries, Opens, ScopePcs, SeedPcs, CallPcs
<1>7. task' = [task EXCEPT ![k] = c]
  BY <1>1
<1>8. QED
  BY <1>5, <1>6, <1>7, WrittenHands

LEMMA OpenHands ==
  ASSUME TasksOK, NEW k \in Tasks, NEW t \in Tokens, task[k].pc = "host",
         task' = [task EXCEPT ![k].pc = "activate", ![k].h = t]
  PROVE  Hands(k)
<1>1. PICK c : c = [task[k] EXCEPT !.pc = "activate", !.h = t]
  OBVIOUS
<1>2. task[k] \in TasksOf(task[k].p) /\ TaskOK(task[k])
  BY DEF TasksOK, TaskOK
<1>3. "activate" \in Pcs
  BY DEF Pcs
<1>4. /\ c \in TasksOf(task[k].p) /\ c.pc = "activate" /\ c.h = t /\ c.page = task[k].page
      /\ c.r = task[k].r /\ c.p = task[k].p /\ c.ret = task[k].ret /\ c.b = task[k].b
  BY <1>1, <1>2, <1>3 DEF TasksOf
<1>5. TaskOK(c)
  BY <1>2, <1>4 DEF TaskOK, Opens, ScopePcs, SeedPcs, CallPcs
<1>6. Continues(task[k], c) /\ Carries(task[k], c)
  BY <1>2, <1>4 DEF Continues, Carries, Opens, ScopePcs, SeedPcs, CallPcs
<1>7. task' = [task EXCEPT ![k] = c]
  BY <1>1
<1>8. QED
  BY <1>5, <1>6, <1>7, WrittenHands
-----------------------------------------------------------------------------
(* Every step of an intent is a step of the store.                         *)

Drives(k) == Hands(k) /\ (Calls \/ UNCHANGED vars)

LEMMA ControllerToken ==
  ASSUME StoreInv, NEW t, RequireController(t)
  PROVE  t \in Tokens
BY DEF StoreInv, ActiveHasToken, RequireController

LEMMA RowTokenIsHeld ==
  ASSUME StoreInv, RowToken # None
  PROVE  /\ RowToken \in Tokens
         /\ (CHOOSE b \in ActiveBindings : TRUE) \in ActiveBindings
         /\ RowToken = bindings[CHOOSE b \in ActiveBindings : TRUE].token
BY DEF StoreInv, ActiveHasToken, RowToken, ActiveBindings

LEMMA EndCalls ==
  ASSUME StoreInv, NEW t, NEW e \in ExecutionIds,
         \/ CommitOf(t, e) \/ DiscardExecution(t, e)
         \/ \E kind \in {"failed", "interrupted"}, pause \in BOOLEAN : FailExecution(t, e, kind, pause)
  PROVE  Calls
<1>1. RequireController(t)
  BY DEF CommitOf, CommitModelMessage, CommitFocusMessage, CommitSummary, CommitReport, Committable,
         DiscardExecution, FailExecution
<1>2. t \in Tokens
  BY <1>1, ControllerToken
<1>3. EndStep(t)
  BY DEF EndStep, CommitOf
<1>4. QED
  BY <1>2, <1>3 DEF Calls

LEMMA BeginCalls ==
  ASSUME StoreInv, NEW t, NEW e \in ExecutionIds, NEW r \in RoundIds, NEW p, NEW kind,
         NEW ctx \in published, BeginOf(t, e, kind, r, p, ctx)
  PROVE  Calls /\ Begun(e)'
<1>1. RequireController(t) /\ (p = Facilitator \/ AtCursor(rounds[r], p))
  BY DEF BeginOf, BeginExecution, BeginFocusExecution, BeginReportExecution
<1>2. rounds[r] \in Rounds /\ executions \in [ExecutionIds -> Executions]
  BY DEF StoreInv, Inv, Typed, TypeOK, RowsType
<1>3. p \in Participants
  BY <1>1, <1>2, FacilitatorAssumption DEF AtCursor, Rounds
<1>4. BeginStep(t)
  BY <1>3 DEF BeginStep, BeginOf
<1>5. t \in Tokens
  BY <1>1, ControllerToken
<1>6. \E k : AddExecution(e, k, r, p, ctx)
  BY DEF BeginOf, BeginExecution, BeginFocusExecution, BeginReportExecution
<1>7. Begun(e)'
  BY <1>2, <1>6 DEF AddExecution, Begun
<1>8. QED
  BY <1>4, <1>5, <1>7 DEF Calls

LEMMA RowCalls ==
  ASSUME NEW e \in ExecutionIds,
         \/ MarkExecutionDispatched(e) \/ MarkExecutionSucceededUncommitted(e)
         \/ MarkAcknowledged(e) \/ MarkAckExpired(e)
         \/ \E kind \in {"failed", "interrupted"} : FailUnboundExecution(e, kind)
  PROVE  Calls
BY DEF Calls, UncontrolledStep

LEMMA BindingCalls ==
  ASSUME NEW b \in BindingIds,
         \/ CreateRuntimeBinding(b) \/ MarkBindingClosed(b) \/ ReleaseRuntime(b)
         \/ \E t \in Tokens : ActivateRuntimeBinding(b, t) \/ TakeoverRuntimeBinding(b, t)
  PROVE  Calls
BY DEF Calls, BindingsStep

LEMMA RoundCalls ==
  ASSUME StoreInv, NEW t, NEW r \in RoundIds,
         \/ AppendUserMessage(t, r) \/ RetryFailedParticipant(t, r) \/ AbortRound(t, r) \/ SkipParticipant(t, r)
         \/ \E runState \in {"running", "paused"} : SetRoomRunState(t, runState)
  PROVE  Calls
<1>1. t \in Tokens
  BY ControllerToken
  DEF AppendUserMessage, RetryFailedParticipant, ResumeRound, AbortRound, SkipParticipant, SetRoomRunState
<1>2. QED
  BY <1>1 DEF Calls, ContextStep

LEMMA ScopeStepDrives ==
  ASSUME StoreInv, TasksOK, NEW k \in Tasks, ScopeStep(k)
  PROVE  Drives(k)
<1>1. CASE EnsureScope(k)
  <2>1. task[k].pc \in ScopePcs /\ (EnsureThrew(k) => Hands(k)) /\ (Go(k, "bind") => Hands(k))
    BY <1>1, EnsureThrewHands, GoHands DEF EnsureScope, At, ScopePcs
  <2>2. ASSUME NEW b \in ActiveBindings, Ensured(k, b, bindings[b].token)
        PROVE  Hands(k)
    <3>1. b \in BindingIds /\ bindings[b].token \in Tokens
      BY DEF ActiveBindings, StoreInv, ActiveHasToken
    <3>2. QED
      BY <2>1, <2>2, <3>1, EnsuredHands
  <2>3. ASSUME NEW b \in ActiveBindings, MarkBindingClosed(b)
        PROVE  Calls
    BY <2>3, BindingCalls DEF ActiveBindings
  <2>4. QED
    BY <1>1, <2>1, <2>2, <2>3 DEF EnsureScope, Drives
<1>2. CASE BindScope(k)
  <2>1. task[k].pc \in ScopePcs /\ (EnsureThrew(k) => Hands(k))
    BY <1>2, EnsureThrewHands DEF BindScope, At, ScopePcs
  <2>2. ASSUME NEW b \in BindingIds, task' = [task EXCEPT ![k].pc = "host", ![k].b = b]
        PROVE  Hands(k)
    BY <1>2, <2>2, BindHands DEF BindScope, At
  <2>3. QED
    BY <1>2, <2>1, <2>2, BindingCalls DEF BindScope, Drives
<1>3. CASE OpenScope(k)
  <2>1. task[k].pc \in ScopePcs /\ (EnsureThrew(k) => Hands(k)) /\ UNCHANGED vars
    BY <1>3, EnsureThrewHands DEF OpenScope, At, ScopePcs
  <2>2. ASSUME NEW t \in Tokens, task' = [task EXCEPT ![k].pc = "activate", ![k].h = t]
        PROVE  Hands(k)
    BY <1>3, <2>2, OpenHands DEF OpenScope, At
  <2>3. QED
    BY <1>3, <2>1, <2>2 DEF OpenScope, Drives
<1>4. CASE ActivateScope(k)
  <2>1. task[k].pc \in ScopePcs /\ task[k].b \in BindingIds /\ task[k].h \in Tokens
    BY <1>4 DEF ActivateScope, At, ScopePcs, TasksOK, TaskOK
  <2>2. CASE EnsureThrew(k) /\ UNCHANGED vars
    BY <2>1, <2>2, EnsureThrewHands DEF Drives
  <2>3. CASE ActivateRuntimeBinding(task[k].b, task[k].h) /\ Ensured(k, task[k].b, task[k].h)
    BY <2>1, <2>3, EnsuredHands, BindingCalls DEF Drives
  <2>4. QED
    BY <1>4, <2>2, <2>3 DEF ActivateScope
<1>5. QED
  BY <1>1, <1>2, <1>3, <1>4 DEF ScopeStep

LEMMA BeginRoundHands ==
  ASSUME StoreInv, TasksOK, NEW k \in Tasks, NEW p \in Pages, BeginRound(k, p)
  PROVE  Hands(k)
<1>1. CASE RowToken = None
  <2>1. PICK c : c = [Idle EXCEPT !.pc = "ensure", !.page = p, !.ret = "create"]
    OBVIOUS
  <2>2. c.pc = "ensure" /\ c.page = p /\ c.ret = "create" /\ c.p = None /\ c \in TasksOf(None)
    BY <2>1 DEF Idle, TasksOf, Pcs
  <2>3. TaskOK(c)
    BY <2>2 DEF TaskOK, Opens, ScopePcs, SeedPcs, CallPcs
  <2>4. Continues(task[k], c) /\ Carries(task[k], c)
    BY <2>2 DEF Continues, Carries, Opens, ScopePcs, SeedPcs, CallPcs
  <2>5. QED
    BY <1>1, <2>1, <2>3, <2>4, WrittenHands DEF BeginRound
<1>2. CASE RowToken # None
  <2>1. PICK c : c = [Idle EXCEPT !.pc = "create", !.page = p, !.t = RowToken]
    OBVIOUS
  <2>2. RowToken \in Tokens
    BY <1>2, RowTokenIsHeld
  <2>3. c.pc = "create" /\ c.page = p /\ c.p = None /\ c \in TasksOf(None)
    BY <2>1, <2>2 DEF Idle, TasksOf, Pcs
  <2>4. TaskOK(c)
    BY <2>3 DEF TaskOK, Opens, ScopePcs, SeedPcs, CallPcs
  <2>5. Continues(task[k], c) /\ Carries(task[k], c)
    BY <2>3 DEF Continues, Carries, Opens, ScopePcs, SeedPcs, CallPcs
  <2>6. QED
    BY <1>2, <2>1, <2>4, <2>5, WrittenHands DEF BeginRound
<1>3. QED
  BY <1>1, <1>2

LEMMA StartStepDrives ==
  ASSUME StoreInv, TasksOK, NEW k \in Tasks, StartAgain(k) \/ SeedRound(k) \/ Probe(k)
  PROVE  Drives(k)
<1>1. TaskOK(task[k]) /\ (End(k) => Hands(k))
  BY EndHands DEF TasksOK
<1>2. CASE StartAgain(k)
  <2>1. task[k].page \in Pages /\ UNCHANGED vars
    BY <1>1, <1>2 DEF StartAgain, At, OnlyTask, TaskOK
  <2>2. QED
    BY <1>1, <1>2, <2>1, BeginRoundHands DEF StartAgain, Drives
<1>3. CASE SeedRound(k)
  <2>1. task[k].r \in RoundIds /\ task[k].pc = "seed"
    BY <1>1, <1>3 DEF SeedRound, At, TaskOK, Opens, SeedPcs
  <2>2. Go(k, "prewarm") => Hands(k)
    BY <2>1, GoHands
  <2>3. QED
    BY <1>1, <1>3, <2>1, <2>2, RoundCalls DEF SeedRound, Tx, Drives
<1>4. CASE Probe(k)
  BY <1>4, GoHands DEF Probe, At, Drives
<1>5. QED
  BY <1>2, <1>3, <1>4

LEMMA BegunTurnHands ==
  ASSUME TasksOK, NEW k \in Tasks, task[k].pc = "begin", NEW e \in ExecutionIds, Begun(e)',
         NEW t \in Tokens, NEW b \in BindingIds, NEW keep \in BOOLEAN,
         task' = [task EXCEPT ![k].pc = "gate", ![k].e = e, ![k].t = t, ![k].b = b, ![k].keep = keep]
  PROVE  Hands(k)
<1>1. PICK c : c = [task[k] EXCEPT !.pc = "gate", !.e = e, !.t = t, !.b = b, !.keep = keep]
  OBVIOUS
<1>2. task[k] \in TasksOf(task[k].p) /\ TaskOK(task[k]) /\ Refers(task[k])
  BY DEF TasksOK, TaskOK
<1>3. "gate" \in Pcs
  BY DEF Pcs
<1>4. /\ c \in TasksOf(task[k].p) /\ c.pc = "gate" /\ c.b = b /\ c.e = e /\ c.page = task[k].page
      /\ c.r = task[k].r /\ c.p = task[k].p /\ c.kind = task[k].kind /\ c.ctx = task[k].ctx
  BY <1>1, <1>2, <1>3 DEF TasksOf
<1>5. TaskOK(c)
  BY <1>2, <1>4 DEF TaskOK, Opens, ScopePcs, SeedPcs, CallPcs
<1>6. Continues(task[k], c) /\ Carries(task[k], c)
  BY <1>2, <1>4 DEF Continues, Carries, Refers, Begun, Opens, ScopePcs, SeedPcs, CallPcs
<1>7. task' = [task EXCEPT ![k] = c]
  BY <1>1
<1>8. QED
  BY <1>5, <1>6, <1>7, WrittenHands

LEMMA BeginTurnDrives ==
  ASSUME StoreInv, TasksOK, NEW k \in Tasks, BeginTurn(k)
  PROVE  Drives(k)
<1>1. TaskOK(task[k]) /\ Refers(task[k]) /\ (End(k) => Hands(k))
  BY EndHands DEF TasksOK
<1>2. CASE End(k) /\ UNCHANGED vars
  BY <1>1, <1>2 DEF Drives
<1>3. CASE ~ (End(k) /\ UNCHANGED vars)
  <2>1. PICK e : e = CHOOSE x \in ExecutionIds : NextExecution(x)
    OBVIOUS
  <2>2. PICK b : b = CHOOSE c \in ActiveBindings : TRUE
    OBVIOUS
  <2>3. PICK keep \in BOOLEAN :
          keep = (task[k].keep \/ (task[k].kind = "report" /\ room.activeRoundId # None))
    OBVIOUS
  <2>4. /\ task[k].pc = "begin"
        /\ RowToken # None
        /\ \E x \in ExecutionIds : NextExecution(x)
        /\ BeginOf(RowToken, e, task[k].kind, task[k].r, task[k].p, task[k].ctx)
        /\ task' = [task EXCEPT ![k].pc = "gate", ![k].e = e, ![k].t = RowToken, ![k].b = b,
                                ![k].keep = keep]
    BY <1>3, <2>1, <2>2, <2>3 DEF BeginTurn, At, Tx
  <2>5. e \in ExecutionIds /\ RowToken \in Tokens /\ b \in BindingIds
    BY <2>1, <2>2, <2>4, RowTokenIsHeld DEF ActiveBindings
  <2>6. task[k].r \in RoundIds /\ task[k].ctx \in published
    BY <1>1, <2>4 DEF TaskOK, Refers
  <2>7. Calls /\ Begun(e)'
    BY <2>4, <2>5, <2>6, BeginCalls
  <2>8. QED
    BY <2>4, <2>5, <2>7, BegunTurnHands DEF Drives
<1>4. QED
  BY <1>2, <1>3

LEMMA RunLoopDrives ==
  ASSUME StoreInv, TasksOK, NEW k \in Tasks, RunLoop(k)
  PROVE  Drives(k)
<1>1. TaskOK(task[k]) /\ (End(k) => Hands(k)) /\ task[k].pc = "loop" /\ UNCHANGED vars
  BY EndHands DEF TasksOK, RunLoop, At, OnlyTask
<1>2. room \in RoomRows
  BY DEF StoreInv, Inv, Typed, TypeOK, RowsType
<1>3. ASSUME NEW kind \in ResultKinds, NEW p, NEW retry \in BOOLEAN, room.activeRoundId # None,
             Turn(k, "begin", kind, room.activeRoundId, p, retry)
      PROVE  Hands(k)
  BY <1>1, <1>2, <1>3, TurnHands DEF RoomRows
<1>4. QED
  BY <1>1, <1>3 DEF RunLoop, ResultKinds, Drives

LEMMA TurnStepDrives ==
  ASSUME StoreInv, TasksOK, NEW k \in Tasks,
         Gate(k) \/ Execute(k) \/ MarkDispatched(k) \/ Refused(k) \/ LoseTurn(k)
  PROVE  Drives(k)
<1>1. TaskOK(task[k]) /\ (End(k) => Hands(k))
  BY EndHands DEF TasksOK
<1>2. task[k].pc \in CallPcs /\ task[k].e \in ExecutionIds
  BY <1>1 DEF Gate, Execute, MarkDispatched, Refused, LoseTurn, At, CallPcs, TaskOK
<1>3. ASSUME NEW pc \in CallPcs, Go(k, pc)
      PROVE  Hands(k)
  BY <1>2, <1>3, GoHands
<1>4. ASSUME NEW kind \in {"failed", "interrupted"}, GiveUp(k, kind)
      PROVE  Drives(k)
  BY <1>1, <1>2, <1>4, EndCalls DEF GiveUp, Tx, Drives
<1>5. CASE Gate(k)
  BY <1>1, <1>2, <1>3, <1>5, EndCalls DEF Gate, Tx, OnlyTask, CallPcs, Drives
<1>6. CASE Execute(k)
  BY <1>3, <1>6 DEF Execute, CallPcs, Drives
<1>7. CASE MarkDispatched(k)
  BY <1>2, <1>3, <1>7, RowCalls DEF MarkDispatched, CallPcs, Drives
<1>8. QED
  BY <1>4, <1>5, <1>6, <1>7 DEF Refused, LoseTurn

LEMMA AfterAckHands ==
  ASSUME StoreInv, TasksOK, NEW k \in Tasks, task[k].pc = "ack", AfterAck(k)
  PROVE  Hands(k)
<1>1. TaskOK(task[k]) /\ (End(k) => Hands(k)) /\ (Continue(k, "loop") => Hands(k))
  BY EndHands, ContinueHands DEF TasksOK
<1>2. task[k].r \in RoundIds /\ "report" \in ResultKinds
  BY <1>1 DEF TaskOK, CallPcs, ResultKinds
<1>3. QED
  BY <1>1, <1>2, TurnHands DEF AfterAck

LEMMA RetryHands ==
  ASSUME TasksOK, NEW k \in Tasks, task[k].pc = "follow",
         task' = [task EXCEPT ![k].pc = "begin", ![k].retry = TRUE, ![k].e = None, ![k].keep = FALSE]
  PROVE  Hands(k)
<1>1. PICK c : c = [task[k] EXCEPT !.pc = "begin", !.retry = TRUE, !.e = None, !.keep = FALSE]
  OBVIOUS
<1>2. task[k] \in TasksOf(task[k].p) /\ TaskOK(task[k]) /\ Refers(task[k]) /\ "begin" \in Pcs
  BY DEF TasksOK, TaskOK, Pcs
<1>3. /\ c \in TasksOf(task[k].p) /\ c.pc = "begin" /\ c.page = task[k].page /\ c.kind = task[k].kind
      /\ c.r = task[k].r /\ c.ctx = task[k].ctx /\ c.p = task[k].p
  BY <1>1, <1>2 DEF TasksOf
<1>4. c.page \in Pages /\ c.kind \in ResultKinds /\ c.r \in RoundIds /\ c.ctx \in published
  BY <1>2, <1>3 DEF TaskOK, Refers, CallPcs
<1>5. task' = [task EXCEPT ![k] = c]
  BY <1>1
<1>6. QED
  BY <1>3, <1>4, <1>5, BeginHands

LEMMA TerminalStepDrives ==
  ASSUME StoreInv, TasksOK, NEW k \in Tasks, TerminalStep(k)
  PROVE  Drives(k)
<1>1. TaskOK(task[k]) /\ (End(k) => Hands(k))
  BY EndHands DEF TasksOK
<1>2. task[k].pc \in {"follow", "commit", "ack"} /\ task[k].e \in ExecutionIds
  BY <1>1 DEF TerminalStep, Succeeded, PersistResult, Ack, UserCancelled, RetryOnce, FailTurn, Ended, At,
              CallPcs, TaskOK
<1>3. ASSUME NEW pc \in {"commit", "ack"}, Go(k, pc)
      PROVE  Hands(k)
  BY <1>2, <1>3, GoHands DEF CallPcs
<1>4. CASE Succeeded(k)
  BY <1>2, <1>3, <1>4, RowCalls DEF Succeeded, Drives
<1>5. CASE PersistResult(k)
  BY <1>1, <1>2, <1>3, <1>5, EndCalls DEF PersistResult, Tx, Drives
<1>6. CASE Ack(k)
  BY <1>2, <1>6, AfterAckHands, RowCalls DEF Ack, At, MarkIfPending, Drives
<1>7. CASE UserCancelled(k) \/ FailTurn(k)
  BY <1>1, <1>2, <1>7, EndCalls DEF UserCancelled, FailTurn, Tx, Drives
<1>8. CASE RetryOnce(k)
  BY <1>1, <1>2, <1>8, RetryHands, EndCalls DEF RetryOnce, Ended, At, Tx, Drives
<1>9. QED
  BY <1>4, <1>5, <1>6, <1>7, <1>8 DEF TerminalStep

\* The latest of the Rounds that Conclude looks at.
LEMMA LatestRound ==
  ASSUME NEW S \in SUBSET Nat, S # {}, NEW n \in Nat, \A s \in S : s <= n
  PROVE  \E r \in S : \A q \in S : q <= r
<1> DEFINE Above == {m \in Nat : \A s \in S : s <= m}
           Less  == {ss \in Nat \X Nat : ss[1] < ss[2]}
<1>1. IsWellFoundedOn(Less, Nat)
  BY NatLessThanWellFounded, Zenon DEF OpToRel
<1>2. Above \subseteq Nat /\ Above # {}
  OBVIOUS
<1>3. PICK m \in Above : \A y \in Above : ~ (<<y, m>> \in Less)
  <2> HIDE DEF Above, Less
  <2>1. QED
    BY <1>1, <1>2, WFMin, Zenon
<1>4. m \in S
  <2>1. SUFFICES ASSUME m \notin S PROVE FALSE
    OBVIOUS
  <2>2. \A s \in S : s < m
    BY <2>1
  <2>3. m - 1 \in Nat /\ m - 1 < m
    <3>1. PICK s \in S : s < m
      BY <2>2
    <3>2. m \in Nat /\ s \in Nat
      OBVIOUS
    <3>3. QED
      BY <3>1, <3>2
  <2>4. m - 1 \in Above
    BY <2>2, <2>3
  <2>5. QED
    BY <1>3, <2>3, <2>4
<1>5. QED
  BY <1>4

LEMMA ConcludeDrives ==
  ASSUME StoreInv, TasksOK, NEW k \in Tasks, Conclude(k)
  PROVE  Drives(k)
<1> DEFINE done == {r \in RoundIds : rounds[r].phase = "completed"}
<1>1. TaskOK(task[k]) /\ (End(k) => Hands(k)) /\ UNCHANGED vars /\ task[k].pc = "conclude"
  BY EndHands DEF TasksOK, Conclude, OnlyTask, At
<1>2. CASE ~ End(k)
  <2>1. PICK n \in Nat : \A r \in done : r <= n
    BY DEF StoreInv, RoundsAreBounded
  <2>2. PICK r : r = CHOOSE x \in done : \A q \in done : q <= x
    OBVIOUS
  <2>3. /\ done # {}
        /\ task' = [task EXCEPT ![k] =
             [Idle EXCEPT !.pc = "begin", !.page = task[k].page, !.kind = "report", !.r = r,
                          !.p = Facilitator, !.ctx = RoomContext, !.keep = TRUE]]
    BY <1>2, <2>2 DEF Conclude
  <2>4. done \in SUBSET Nat
    BY RoundIdsAssumption
  <2>5. r \in RoundIds
    <3>1. \E x \in done : \A q \in done : q <= x
      BY <2>1, <2>3, <2>4, LatestRound
    <3>2. QED
      BY <2>2, <3>1
  <2>6. task[k].page \in Pages /\ RoomContext \in published /\ RoomContext \in Contexts
    BY <1>1 DEF TaskOK, StoreInv, ContextPublished, Inv, Typed, TypeOK, ContextType
  <2>7. PICK c : c = [Idle EXCEPT !.pc = "begin", !.page = task[k].page, !.kind = "report", !.r = r,
                                  !.p = Facilitator, !.ctx = RoomContext, !.keep = TRUE]
    OBVIOUS
  <2>8. /\ c.pc = "begin" /\ c.page = task[k].page /\ c.kind = "report" /\ c.r = r
        /\ c.ctx = RoomContext /\ c.p = Facilitator /\ c \in TasksOf(Facilitator)
    BY <2>5, <2>6, <2>7 DEF Idle, TasksOf, Pcs, ResultKinds
  <2>9. Hands(k)
    BY <2>3, <2>5, <2>6, <2>7, <2>8, BeginHands DEF ResultKinds
  <2>10. QED
    BY <1>1, <2>9 DEF Drives
<1>3. QED
  BY <1>1, <1>2 DEF Drives

LEMMA IntentStepDrives ==
  ASSUME StoreInv, TasksOK, NEW k \in Tasks, IntentStep(k)
  PROVE  Drives(k)
<1>1. TaskOK(task[k]) /\ (End(k) => Hands(k))
  BY EndHands DEF TasksOK
<1>2. CASE CancelTurn(k) \/ CloseReleased(k)
  BY <1>1, <1>2 DEF CancelTurn, CloseReleased, Drives
<1>3. CASE AbortStep(k)
  <2>1. task[k].r \in RoundIds /\ (Continue(k, "rotateClose") => Hands(k))
    BY <1>1, <1>3, ContinueHands DEF AbortStep, At, TaskOK
  <2>2. QED
    BY <1>1, <1>3, <2>1, RoundCalls DEF AbortStep, Tx, Drives
<1>4. CASE RotateClose(k)
  <2>1. Hands(k)
    BY <1>4, ContinueHands DEF RotateClose, At
  <2>2. QED
    BY <1>4, <2>1, BindingCalls DEF RotateClose, ActiveBindings, Drives
<1>5. QED
  BY <1>2, <1>3, <1>4, ConcludeDrives DEF IntentStep

LEMMA EndPausedHands ==
  ASSUME StoreInv, TasksOK, NEW k \in Tasks, NEW p \in Pages, NEW pc \in {"abort", "rotate"},
         EndPausedRound(k, p, pc)
  PROVE  Hands(k)
<1>1. PICK c : c = [Idle EXCEPT !.pc = pc, !.page = p, !.t = RowToken, !.r = room.activeRoundId]
  OBVIOUS
<1>2. RowToken \in Tokens /\ room.activeRoundId \in RoundIds
  <2>1. room \in RoomRows /\ "none" # "paused"
    BY DEF StoreInv, Inv, Typed, TypeOK, RowsType
  <2>2. QED
    BY <2>1, RowTokenIsHeld DEF EndPausedRound, ActiveRound, NoRound, RoomRows
<1>3. /\ c.pc = pc /\ c.page = p /\ c.p = None /\ c.r = room.activeRoundId /\ c \in TasksOf(None)
  BY <1>1, <1>2 DEF Idle, TasksOf, Pcs
<1>4. TaskOK(c)
  BY <1>2, <1>3 DEF TaskOK, Opens, ScopePcs, SeedPcs, CallPcs
<1>5. Continues(task[k], c) /\ Carries(task[k], c)
  BY <1>3 DEF Continues, Carries, Opens, ScopePcs, SeedPcs, CallPcs
<1>6. QED
  BY <1>1, <1>4, <1>5, WrittenHands DEF EndPausedRound

LEMMA RetryParticipantDrives ==
  ASSUME StoreInv, TasksOK, NEW k \in Tasks, NEW p \in Pages, RetryParticipant(k, p)
  PROVE  Drives(k)
<1> DEFINE failed == executions[ActiveRound.pauseReason.executionId]
<1>1. room \in RoomRows /\ rounds \in [RoundIds -> Rounds] /\ executions \in [ExecutionIds -> Executions]
      /\ RoomContext \in published /\ RoomContext \in Contexts
  BY DEF StoreInv, ContextPublished, Inv, Typed, TypeOK, RowsType, ContextType
<1>2. room.activeRoundId \in RoundIds /\ RetryFailedParticipant(RowToken, room.activeRoundId)
  BY <1>1 DEF RetryParticipant, RoomRows
<1>3. /\ rounds[room.activeRoundId].pauseReason # None
      /\ rounds[room.activeRoundId].pauseReason.executionId # None
  BY <1>2 DEF RetryFailedParticipant
<1>4. ActiveRound.pauseReason.executionId \in ExecutionIds
  <2>1. rounds[room.activeRoundId].pauseReason \in PauseReasons
    BY <1>1, <1>2, <1>3 DEF Rounds
  <2>2. ActiveRound = rounds[room.activeRoundId]
    BY <1>2, RoundIdsAssumption DEF ActiveRound
  <2>3. QED
    BY <1>3, <2>1, <2>2 DEF PauseReasons
<1>5. failed.resultKind \in ResultKinds
  BY <1>1, <1>4 DEF Executions
<1>6. PICK c : c = [Idle EXCEPT !.pc = "begin", !.page = p, !.kind = failed.resultKind,
                           !.r = room.activeRoundId, !.p = failed.participantId,
                           !.ctx = RoomContext, !.retry = TRUE]
  OBVIOUS
<1>7. PICK kind, who : kind \in ResultKinds /\ kind = failed.resultKind /\ who = failed.participantId
  BY <1>5
<1>8. /\ c.pc = "begin" /\ c.page = p /\ c.kind = kind /\ c.r = room.activeRoundId
      /\ c.ctx = RoomContext /\ c.p = who /\ c \in TasksOf(who)
  <2> HIDE DEF failed
  <2>1. QED
    BY <1>1, <1>2, <1>6, <1>7 DEF Idle, TasksOf, Pcs
<1>9. task' = [task EXCEPT ![k] = c]
  BY <1>6 DEF RetryParticipant
<1>10. Hands(k)
  BY <1>1, <1>2, <1>7, <1>8, <1>9, BeginHands
<1>11. QED
  BY <1>2, <1>10, RoundCalls DEF Drives

LEMMA ReleaseRoomDrives ==
  ASSUME StoreInv, TasksOK, NEW k \in Tasks, NEW p \in Pages, ReleaseRoom(k, p)
  PROVE  Drives(k)
<1>1. PICK b \in ActiveBindings :
        /\ ReleaseRuntime(b)
        /\ task' = [task EXCEPT ![k] = [Idle EXCEPT !.pc = "close", !.page = p, !.b = b,
                                                   !.t = bindings[b].token]]
  BY DEF ReleaseRoom
<1>2. b \in BindingIds /\ bindings[b].token \in Tokens
  BY DEF ActiveBindings, StoreInv, ActiveHasToken
<1>3. PICK c : c = [Idle EXCEPT !.pc = "close", !.page = p, !.b = b, !.t = bindings[b].token]
  OBVIOUS
<1>4. c.pc = "close" /\ c.page = p /\ c.p = None /\ c.b = b /\ c \in TasksOf(None)
  BY <1>2, <1>3 DEF Idle, TasksOf, Pcs
<1>5. TaskOK(c)
  BY <1>2, <1>4 DEF TaskOK, Opens, ScopePcs, SeedPcs, CallPcs
<1>6. Continues(task[k], c) /\ Carries(task[k], c)
  BY <1>4 DEF Continues, Carries, Opens, ScopePcs, SeedPcs, CallPcs
<1>7. Hands(k)
  BY <1>1, <1>3, <1>5, <1>6, WrittenHands
<1>8. QED
  BY <1>1, <1>2, <1>7, BindingCalls DEF Drives

LEMMA ConcludeRoomDrives ==
  ASSUME StoreInv, TasksOK, NEW k \in Tasks, NEW p \in Pages, ConcludeRoom(k, p)
  PROVE  Drives(k)
<1>1. PICK pc \in {"ensure", "conclude"} :
        task' = [task EXCEPT ![k] = [Idle EXCEPT !.page = p, !.ret = "conclude", !.pc = pc]]
  BY DEF ConcludeRoom
<1>2. PICK c : c = [Idle EXCEPT !.page = p, !.ret = "conclude", !.pc = pc]
  OBVIOUS
<1>3. c.pc = pc /\ c.page = p /\ c.p = None /\ c.ret = "conclude" /\ c \in TasksOf(None)
  BY <1>2 DEF Idle, TasksOf, Pcs
<1>4. TaskOK(c)
  BY <1>3 DEF TaskOK, Opens, ScopePcs, SeedPcs, CallPcs
<1>5. Continues(task[k], c) /\ Carries(task[k], c)
  BY <1>3 DEF Continues, Carries, Opens, ScopePcs, SeedPcs, CallPcs
<1>6. Hands(k) /\ UNCHANGED vars
  BY <1>1, <1>2, <1>4, <1>5, WrittenHands DEF ConcludeRoom
<1>7. QED
  BY <1>6 DEF Drives

LEMMA UserStepDrives ==
  ASSUME StoreInv, TasksOK, NEW k \in Tasks, NEW p \in Pages, UserStep(k, p)
  PROVE  Drives(k) \/ (UNCHANGED task /\ Calls)
<1>1. room \in RoomRows
  BY DEF StoreInv, Inv, Typed, TypeOK, RowsType
<1>2. Started(k, p, "cancel") \/ Started(k, p, "loop") => Hands(k)
  BY LightHands DEF Started
<1>3. room.activeRoundId # None => room.activeRoundId \in RoundIds
  BY <1>1 DEF RoomRows
<1>4. CASE StartRound(k, p)
  BY <1>4, BeginRoundHands DEF StartRound, Drives
<1>5. CASE PauseRoom(k, p) \/ ResumeRoom(k, p)
  <2>1. PICK runState \in {"running", "paused"} : SetRoomRunState(RowToken, runState)
    BY <1>5 DEF PauseRoom, ResumeRoom
  <2>2. RowToken \in Tokens
    BY <2>1, ControllerToken DEF SetRoomRunState
  <2>3. Calls
    BY <2>1, <2>2 DEF Calls, ContextStep
  <2>4. QED
    BY <1>2, <1>5, <2>3 DEF PauseRoom, ResumeRoom, Drives
<1>6. CASE CancelActiveExecution(k, p)
  BY <1>2, <1>6 DEF CancelActiveExecution, Drives
<1>7. CASE AbortPausedRound(k, p) \/ RotateScope(k, p)
  <2>1. UNCHANGED vars
    BY <1>7 DEF AbortPausedRound, RotateScope, EndPausedRound
  <2>2. QED
    BY <1>7, <2>1, EndPausedHands DEF AbortPausedRound, RotateScope, Drives
<1>8. CASE SkipFailedParticipant(k, p)
  BY <1>2, <1>3, <1>8, RoundCalls DEF SkipFailedParticipant, Drives
<1>9. CASE SendUserMessage(k, p)
  BY <1>3, <1>9, RoundCalls DEF SendUserMessage
<1>10. QED
  BY <1>4, <1>5, <1>6, <1>7, <1>8, <1>9, RetryParticipantDrives, ReleaseRoomDrives, ConcludeRoomDrives
  DEF UserStep

-----------------------------------------------------------------------------
(* What an intent finds when it goes on.                                   *)

\* published and the rows grow, so what the other intents carry stays good.
LEMMA TasksKept ==
  ASSUME TasksOK, NEW k \in Tasks, task' = [task EXCEPT ![k] = task'[k]], TaskOK(task'[k]),
         Carries(task[k], task'[k]), ContextGrows, BegunStays
  PROVE  TasksOK'
<1>1. \A j \in Tasks : j # k => task'[j] = task[j]
  BY DEF TasksOK
<1>2. task' = [j \in Tasks |-> task'[j]]
  BY DEF TasksOK
<1>3. \A j \in Tasks : TaskOK(task'[j])
  BY <1>1 DEF TasksOK
<1>4. \A j \in Tasks \ {k} : Refers(task[j])'
  <2>1. TAKE j \in Tasks \ {k}
  <2>2. TaskOK(task[j]) /\ Refers(task[j]) /\ task'[j] = task[j]
    BY <1>1 DEF TasksOK
  <2>3. task[j].pc \in CallPcs => task[j].e \in ExecutionIds
    BY <2>2 DEF TaskOK
  <2>4. QED
    BY <2>2, <2>3 DEF Refers, ContextGrows, BegunStays, Begun
<1>5. Refers(task[k])'
  <2>1. task'[k].pc \in CallPcs => task'[k].e \in ExecutionIds
    BY DEF TaskOK
  <2>2. QED
    BY <2>1 DEF Carries, Refers, ContextGrows, BegunStays, Begun
<1>6. QED
  BY <1>2, <1>3, <1>4, <1>5 DEF TasksOK, TaskOK, TasksOf, Opens

\* An intent that goes on with the Round it opens, or with none.
LEMMA OpeningKept ==
  ASSUME StoreInv, TasksOK, OpeningRounds, NEW k \in Tasks, Hands(k), Calls \/ UNCHANGED vars
  PROVE  OpeningRounds'
<1>1. \A j \in Tasks : j # k => task'[j] = task[j]
  BY DEF Hands, TasksOK
<1>2. \A j \in Tasks : Opens(task'[j]) =>
        /\ Opens(task[j]) /\ task'[j].r = task[j].r /\ task[j].r \in RoundIds
        /\ task'[j].pc \in SeedPcs <=> task[j].pc \in SeedPcs
  BY <1>1 DEF Hands, Continues, TasksOK, TaskOK
<1>3. \A r \in RoundIds : Untouched(r)
  BY CallsUntouched DEF StoreInv
<1>4. ASSUME NEW j \in Tasks, Opens(task'[j])
      PROVE  rounds'[task'[j].r].phase \in
               {IF task'[j].pc \in SeedPcs THEN "pending" ELSE "prewarming", "aborted"}
  BY <1>2, <1>3, <1>4 DEF OpeningRounds, Untouched
<1>5. QED
  BY <1>2, <1>4 DEF OpeningRounds, Opens

LEMMA DrivesKeep ==
  ASSUME StoreInv, TasksOK, OpeningRounds, NEW k \in Tasks, Drives(k), [Next]_vars
  PROVE  TasksOK' /\ OpeningRounds'
BY NextStore, TasksKept, OpeningKept DEF Drives, Hands

\* What the pages and the Host do leaves the intents alone.
LEMMA OthersKeep ==
  ASSUME StoreInv, TasksOK, OpeningRounds, UNCHANGED task, Calls \/ UNCHANGED vars, [Next]_vars
  PROVE  TasksOK' /\ OpeningRounds'
<1>1. ContextGrows /\ BegunStays
  BY NextStore
<1>2. \A r \in RoundIds : Untouched(r)
  BY CallsUntouched DEF StoreInv
<1>3. \A j \in Tasks : (task[j].pc \in CallPcs => task[j].e \in ExecutionIds)
                       /\ (Opens(task[j]) => task[j].r \in RoundIds)
  BY DEF TasksOK, TaskOK
<1>4. \A j \in Tasks : Refers(task[j])'
  BY <1>1, <1>3 DEF TasksOK, Refers, ContextGrows, BegunStays, Begun
<1>5. TasksOK'
  BY <1>4 DEF TasksOK, TaskOK, TasksOf, Opens
<1>6. OpeningRounds'
  BY <1>2, <1>3 DEF OpeningRounds, Untouched, Opens
<1>7. QED
  BY <1>5, <1>6

\* An intent makes its Round, starts it, and hands it to the scheduler or to the user.
LEMMA CreateRoundKeeps ==
  ASSUME StoreInv, TasksOK, OpeningRounds, NEW k \in Tasks, CreateRoundStep(k)
  PROVE  [Next]_vars /\ TasksOK' /\ OpeningRounds'
<1>1. TaskOK(task[k]) /\ (End(k) => Hands(k)) /\ task[k].pc = "create"
  BY EndHands DEF TasksOK, CreateRoundStep, At
<1>2. CASE UNCHANGED vars /\ End(k)
  BY <1>1, <1>2, DrivesKeep DEF Drives
<1>3. CASE ~ (UNCHANGED vars /\ End(k))
  <2>1. PICK r \in RoundIds, order \in Orders, pc \in {"seed", "prewarm"} :
          /\ rounds[r].phase = "none"
          /\ CreateRound(task[k].t, r, order)
          /\ task' = [task EXCEPT ![k].pc = pc, ![k].r = r, ![k].b = None]
    BY <1>3 DEF CreateRoundStep, Tx
  <2>2. [Next]_vars
    <3>1. task[k].t \in Tokens
      BY <2>1, ControllerToken DEF CreateRound
    <3>2. QED
      BY <2>1, <3>1 DEF Next, RoundStep
  <2>3. PICK c : c = [task[k] EXCEPT !.pc = pc, !.r = r, !.b = None]
    OBVIOUS
  <2>4. pc \in Pcs /\ task[k] \in TasksOf(task[k].p)
    BY <1>1 DEF Pcs, TaskOK
  <2>5. c \in TasksOf(task[k].p) /\ c.p = task[k].p /\ c.pc = pc /\ c.r = r /\ c.page = task[k].page
    BY <2>3, <2>4 DEF TasksOf
  <2>6. TaskOK(c) /\ Carries(task[k], c) /\ Opens(c) /\ c.pc \in SeedPcs
    BY <1>1, <2>5 DEF TaskOK, Carries, Opens, ScopePcs, SeedPcs, CallPcs
  <2>7. task'[k] = c /\ task' = [task EXCEPT ![k] = task'[k]]
    <3>1. task' = [task EXCEPT ![k] = c]
      BY <2>1, <2>3
    <3>2. QED
      BY <3>1, Written
  <2>8. TasksOK'
    BY <2>2, <2>6, <2>7, TasksKept, NextStore
  <2>9. \A j \in Tasks : Opens(task[j]) => task[j].r \in RoundIds /\ task[j].r # r
    BY <2>1 DEF TasksOK, TaskOK, OpeningRounds
  <2>10. /\ rounds'[r].phase = "pending"
         /\ \A q \in RoundIds \ {r} : rounds'[q] = rounds[q]
    <3>1. rounds \in [RoundIds -> Rounds]
      BY DEF StoreInv, Inv, Typed, TypeOK, RowsType
    <3>2. QED
      BY <2>1, <3>1 DEF CreateRound, NoRound
  <2>11. \A j \in Tasks : j # k => task'[j] = task[j]
    BY <2>7 DEF TasksOK
  <2>12. OpeningRounds'
    BY <2>5, <2>6, <2>7, <2>9, <2>10, <2>11 DEF OpeningRounds, Opens
  <2>13. QED
    BY <2>2, <2>8, <2>12
<1>4. QED
  BY <1>2, <1>3

\* No other intent opens the Round that this one moves.
LEMMA OwnRoundMoves ==
  ASSUME StoreInv, TasksOK, OpeningRounds, NEW k \in Tasks, Opens(task[k]),
         NEW phase, rounds'[task[k].r].phase = phase,
         \A q \in RoundIds : q # task[k].r => rounds'[q] = rounds[q],
         task' = [task EXCEPT ![k] = task'[k]], TaskOK(task'[k]), Carries(task[k], task'[k]),
         Opens(task'[k]) => /\ task'[k].r = task[k].r
                            /\ phase = IF task'[k].pc \in SeedPcs THEN "pending" ELSE "prewarming",
         [Next]_vars
  PROVE  TasksOK' /\ OpeningRounds'
<1>1. TasksOK'
  BY TasksKept, NextStore
<1>2. \A j \in Tasks : j # k => task'[j] = task[j]
  BY DEF TasksOK
<1>3. \A j \in Tasks : Opens(task[j]) => task[j].r \in RoundIds
  BY DEF TasksOK, TaskOK
<1>4. \A j \in Tasks : j # k /\ Opens(task[j]) => task[j].r # task[k].r
  BY DEF OpeningRounds
<1>5. OpeningRounds'
  BY <1>2, <1>3, <1>4 DEF OpeningRounds, Opens
<1>6. QED
  BY <1>1, <1>5

LEMMA PrewarmKeeps ==
  ASSUME StoreInv, TasksOK, OpeningRounds, NEW k \in Tasks, Prewarm(k)
  PROVE  [Next]_vars /\ TasksOK' /\ OpeningRounds'
<1>1. TaskOK(task[k]) /\ (End(k) => Hands(k)) /\ task[k].pc = "prewarm"
  BY EndHands DEF TasksOK, Prewarm, At
<1>2. Opens(task[k]) /\ task[k].r \in RoundIds
  BY <1>1 DEF Opens, SeedPcs, TaskOK
<1>3. CASE UNCHANGED vars /\ End(k)
  BY <1>1, <1>3, DrivesKeep DEF Drives
<1>4. CASE ~ (UNCHANGED vars /\ End(k))
  <2>1. /\ TransitionRound(task[k].t, task[k].r, "prewarming")
        /\ task' = [task EXCEPT ![k].pc = "ensure", ![k].ret = "probe"]
    BY <1>4 DEF Prewarm, Tx
  <2>2. [Next]_vars
    <3>1. task[k].t \in Tokens
      BY <2>1, ControllerToken DEF TransitionRound
    <3>2. QED
      BY <1>2, <2>1, <3>1 DEF Next, RoundStep
  <2>3. PICK c : c = [task[k] EXCEPT !.pc = "ensure", !.ret = "probe"]
    OBVIOUS
  <2>4. "ensure" \in Pcs /\ task[k] \in TasksOf(task[k].p)
    BY <1>1 DEF Pcs, TaskOK
  <2>5. /\ c \in TasksOf(task[k].p) /\ c.p = task[k].p /\ c.pc = "ensure" /\ c.r = task[k].r
        /\ c.page = task[k].page /\ c.ret = "probe"
    BY <2>3, <2>4 DEF TasksOf
  <2>6. TaskOK(c) /\ Carries(task[k], c) /\ c.pc \notin SeedPcs
    BY <1>1, <1>2, <2>5 DEF TaskOK, Carries, Opens, ScopePcs, SeedPcs, CallPcs
  <2>7. task'[k] = c /\ task' = [task EXCEPT ![k] = task'[k]]
    <3>1. task' = [task EXCEPT ![k] = c]
      BY <2>1, <2>3
    <3>2. QED
      BY <3>1, Written
  <2>8. /\ rounds'[task[k].r].phase = "prewarming"
        /\ \A q \in RoundIds : q # task[k].r => rounds'[q] = rounds[q]
    <3>1. rounds \in [RoundIds -> Rounds]
      BY DEF StoreInv, Inv, Typed, TypeOK, RowsType
    <3>2. QED
      BY <1>2, <2>1, <3>1 DEF TransitionRound, Rounds
  <2>9. QED
    BY <1>2, <2>2, <2>5, <2>6, <2>7, <2>8, OwnRoundMoves
<1>5. QED
  BY <1>3, <1>4

\* The Round is its opener's until here, so a pause finds it prewarming: pauseRound's
\* only caller pauses no Round that runs.
LEMMA OpenedKeeps ==
  ASSUME StoreInv, TasksOK, OpeningRounds, NEW k \in Tasks, PausePrewarm(k) \/ RunRound(k)
  PROVE  [Next]_vars /\ TasksOK' /\ OpeningRounds'
<1>1. TaskOK(task[k]) /\ (End(k) => Hands(k)) /\ task[k].pc \in {"pause", "run"}
  BY EndHands DEF TasksOK, PausePrewarm, RunRound, At
<1>2. Opens(task[k]) /\ task[k].r \in RoundIds
  BY <1>1 DEF Opens, TaskOK
<1>3. rounds[task[k].r].phase \in {"prewarming", "aborted"} /\ rounds \in [RoundIds -> Rounds]
  BY <1>1, <1>2 DEF OpeningRounds, SeedPcs, StoreInv, Inv, Typed, TypeOK, RowsType
<1>4. CASE UNCHANGED vars /\ End(k)
  BY <1>1, <1>4, DrivesKeep DEF Drives
<1>5. CASE PausePrewarm(k) /\ ~ (UNCHANGED vars /\ End(k))
  <2>1. PauseRound(task[k].t, task[k].r, [participantId |-> None, executionId |-> None]) /\ End(k)
    BY <1>5 DEF PausePrewarm, Tx
  <2>2. [Next]_vars
    <3>1. task[k].t \in Tokens
      BY <2>1, ControllerToken DEF PauseRound
    <3>2. PrewarmFailed(task[k].t, task[k].r)
      BY <1>3, <2>1 DEF PrewarmFailed, PauseRound
    <3>3. QED
      BY <1>2, <3>1, <3>2 DEF Next, RoundStep
  <2>3. /\ rounds'[task[k].r].phase = "paused"
        /\ \A q \in RoundIds : q # task[k].r => rounds'[q] = rounds[q]
    BY <1>2, <1>3, <2>1 DEF PauseRound, Paused, Rounds
  <2>4. task'[k] = Idle /\ Hands(k)
    BY <1>1, <2>1, Written DEF End
  <2>5. QED
    BY <1>2, <2>2, <2>3, <2>4, IdleOK, OwnRoundMoves DEF Hands
<1>6. CASE RunRound(k) /\ ~ (UNCHANGED vars /\ End(k))
  <2>1. TransitionRound(task[k].t, task[k].r, "running") /\ Continue(k, "loop")
    BY <1>6 DEF RunRound, Tx
  <2>2. [Next]_vars
    <3>1. task[k].t \in Tokens
      BY <2>1, ControllerToken DEF TransitionRound
    <3>2. QED
      BY <1>2, <2>1, <3>1 DEF Next, RoundStep
  <2>3. /\ rounds'[task[k].r].phase = "running"
        /\ \A q \in RoundIds : q # task[k].r => rounds'[q] = rounds[q]
    BY <1>2, <1>3, <2>1 DEF TransitionRound, Rounds
  <2>4. Hands(k) /\ ~ Opens(task'[k])
    <3>1. Hands(k)
      BY <1>1, <2>1, ContinueHands
    <3>2. task'[k] = [Idle EXCEPT !.pc = "loop", !.page = task[k].page]
      BY <2>1, Written DEF Continue
    <3>3. task'[k].pc = "loop"
      BY <3>2 DEF Idle
    <3>4. QED
      BY <3>1, <3>3 DEF Opens, ScopePcs, SeedPcs
  <2>5. QED
    BY <1>2, <2>2, <2>3, <2>4, OwnRoundMoves DEF Hands
<1>7. QED
  BY <1>4, <1>5, <1>6

LEMMA TaskStepKeeps ==
  ASSUME StoreInv, TasksOK, OpeningRounds, NEW k \in Tasks, TaskStep(k)
  PROVE  [Next]_vars /\ TasksOK' /\ OpeningRounds'
<1>1. Calls => Next
  BY DEF Calls, Next, RoundStep
<1>2. Drives(k) => [Next]_vars /\ TasksOK' /\ OpeningRounds'
  BY <1>1, DrivesKeep DEF Drives
<1>3. QED
  BY <1>2, ScopeStepDrives, StartStepDrives, RunLoopDrives, BeginTurnDrives, TurnStepDrives,
     TerminalStepDrives, IntentStepDrives, CreateRoundKeeps, PrewarmKeeps, OpenedKeeps
  DEF TaskStep, StartStep, TurnStep

LEMMA UserStepKeeps ==
  ASSUME StoreInv, TasksOK, OpeningRounds, NEW k \in Tasks, NEW p \in Pages, UserStep(k, p)
  PROVE  [Next]_vars /\ TasksOK' /\ OpeningRounds'
<1>1. Calls => Next
  BY DEF Calls, Next, RoundStep
<1>2. QED
  BY <1>1, UserStepDrives, DrivesKeep, OthersKeep DEF Drives

-----------------------------------------------------------------------------
(* The pages and the Host.                                                 *)

Views ==
  [ctl : {"off", "observing", "locked", "adopt", "lost", "failed", "controlling"},
   holds : BOOLEAN, b : BindingIds \cup {None}, t : Tokens \cup {None},
   todo : SUBSET ExecutionIds, audit : {"start", "rows", "acks", "done", "aborted"},
   list : SUBSET ExecutionIds, probe : ExecutionIds \cup {None}, auditLock : BOOLEAN,
   inst : Nat]

ViewOK(v) ==
  /\ v \in Views
  /\ v.ctl = "adopt" => v.b \in BindingIds /\ v.t \in Tokens
  /\ v.ctl = "lost" => v.b \in BindingIds

ViewsOK == view = [p \in Pages |-> view[p]] /\ \A p \in Pages : ViewOK(view[p])

ScopeRows == [state : {"none", "active", "closed", "gone"}, token : Tokens \cup {None}]
TurnRows  == [state : TurnStates, b : BindingIds \cup {None}, ack : ExecutionStates \cup {None}, missed : BOOLEAN]
Origins   == [b : BindingIds, inst : Nat]

HostOK ==
  /\ scopes \in [BindingIds -> ScopeRows]
  /\ turns \in [ExecutionIds -> TurnRows]
  /\ instance \in Nat
  /\ origin \in [ExecutionIds -> Origins \cup {None}]
  /\ lock \in Pages \cup {None}

PageInv == StoreInv /\ TasksOK /\ OpeningRounds /\ ViewsOK /\ HostOK

\* A page's view after a step, field by field.
LEMMA ChangedFields ==
  ASSUME NEW v \in Views, NEW ch
  PROVE  Changed(v, ch) =
           [ctl   |-> IF "ctl" \in DOMAIN ch THEN ch.ctl ELSE v.ctl,
            holds |-> IF "holds" \in DOMAIN ch THEN ch.holds ELSE v.holds,
            b     |-> IF "b" \in DOMAIN ch THEN ch.b ELSE v.b,
            t     |-> IF "t" \in DOMAIN ch THEN ch.t ELSE v.t,
            todo  |-> IF "todo" \in DOMAIN ch THEN ch.todo ELSE v.todo,
            audit |-> IF "audit" \in DOMAIN ch THEN ch.audit ELSE v.audit,
            list  |-> IF "list" \in DOMAIN ch THEN ch.list ELSE v.list,
            probe |-> IF "probe" \in DOMAIN ch THEN ch.probe ELSE v.probe,
            auditLock |-> IF "auditLock" \in DOMAIN ch THEN ch.auditLock ELSE v.auditLock,
            inst  |-> IF "inst" \in DOMAIN ch THEN ch.inst ELSE v.inst]
BY DEF Changed, Views

Sees(p) == view' = [view EXCEPT ![p] = view'[p]]

\* The fields a step of a page writes, and what they must be for the view to be one.
LEMMA SeeFields ==
  ASSUME ViewsOK, NEW p \in Pages, NEW ch, See(p, ch)
  PROVE  Sees(p) /\ view'[p] = Changed(view[p], ch) /\ view[p] \in Views
BY DEF See, Sees, ViewsOK, ViewOK

LEMMA SeesKeep ==
  ASSUME ViewsOK, NEW p \in Pages, Sees(p), ViewOK(view'[p])
  PROVE  ViewsOK'
BY DEF ViewsOK, Sees, ViewOK, Views

LEMMA ViewsSame ==
  ASSUME ViewsOK, UNCHANGED view
  PROVE  ViewsOK'
BY DEF ViewsOK, ViewOK, Views

LEMMA SeenFields ==
  ASSUME ViewsOK, NEW p \in Pages, NEW ch, See(p, ch)
  PROVE  /\ view'[p].ctl = IF "ctl" \in DOMAIN ch THEN ch.ctl ELSE view[p].ctl
         /\ view'[p].holds = IF "holds" \in DOMAIN ch THEN ch.holds ELSE view[p].holds
         /\ view'[p].b = IF "b" \in DOMAIN ch THEN ch.b ELSE view[p].b
         /\ view'[p].t = IF "t" \in DOMAIN ch THEN ch.t ELSE view[p].t
         /\ view'[p].todo = IF "todo" \in DOMAIN ch THEN ch.todo ELSE view[p].todo
         /\ view'[p].audit = IF "audit" \in DOMAIN ch THEN ch.audit ELSE view[p].audit
         /\ view'[p].list = IF "list" \in DOMAIN ch THEN ch.list ELSE view[p].list
         /\ view'[p].probe = IF "probe" \in DOMAIN ch THEN ch.probe ELSE view[p].probe
         /\ view'[p].auditLock = IF "auditLock" \in DOMAIN ch THEN ch.auditLock ELSE view[p].auditLock
         /\ view'[p].inst = IF "inst" \in DOMAIN ch THEN ch.inst ELSE view[p].inst
<1>1. view'[p] = Changed(view[p], ch) /\ view[p] \in Views
  BY SeeFields
<1>2. QED
  BY <1>1, ChangedFields

LEMMA ChangedIsView ==
  ASSUME NEW v \in Views, NEW ch, NEW w, w = Changed(v, ch),
         w.ctl \in {"off", "observing", "locked", "adopt", "lost", "failed", "controlling"},
         w.holds \in BOOLEAN, w.b \in BindingIds \cup {None}, w.t \in Tokens \cup {None},
         w.todo \in SUBSET ExecutionIds, w.audit \in {"start", "rows", "acks", "done", "aborted"},
         w.list \in SUBSET ExecutionIds, w.probe \in ExecutionIds \cup {None}, w.auditLock \in BOOLEAN,
         w.inst \in Nat
  PROVE  w \in Views
<1>1. w = [ctl |-> w.ctl, holds |-> w.holds, b |-> w.b, t |-> w.t, todo |-> w.todo, audit |-> w.audit,
           list |-> w.list, probe |-> w.probe, auditLock |-> w.auditLock, inst |-> w.inst]
  <2> HIDE DEF Views
  <2>1. QED
    BY ChangedFields
<1>2. QED
  BY <1>1 DEF Views

\* A step that only changes the fields of the control.
LEMMA ControlKept ==
  ASSUME ViewsOK, NEW p \in Pages, NEW ch, See(p, ch),
         DOMAIN ch \subseteq {"ctl", "holds", "b", "t", "todo"},
         view'[p].ctl \in {"off", "observing", "locked", "adopt", "lost", "failed", "controlling"},
         view'[p].holds \in BOOLEAN, view'[p].b \in BindingIds \cup {None},
         view'[p].t \in Tokens \cup {None}, view'[p].todo \in SUBSET ExecutionIds,
         view'[p].ctl = "adopt" => view'[p].b \in BindingIds /\ view'[p].t \in Tokens,
         view'[p].ctl = "lost" => view'[p].b \in BindingIds
  PROVE  ViewsOK'
<1>1. Sees(p) /\ view'[p] = Changed(view[p], ch) /\ view[p] \in Views
  BY SeeFields
<1>2. /\ view'[p].audit = view[p].audit /\ view'[p].list = view[p].list /\ view'[p].probe = view[p].probe
      /\ view'[p].auditLock = view[p].auditLock /\ view'[p].inst = view[p].inst
  <2>1. \A f \in {"audit", "list", "probe", "auditLock", "inst"} : f \notin DOMAIN ch
    OBVIOUS
  <2>2. QED
    BY <1>1, <2>1 DEF Changed, Views
<1>3. /\ view[p].audit \in {"start", "rows", "acks", "done", "aborted"}
      /\ view[p].list \in SUBSET ExecutionIds /\ view[p].probe \in ExecutionIds \cup {None}
      /\ view[p].auditLock \in BOOLEAN /\ view[p].inst \in Nat
  BY <1>1 DEF Views
<1>4. view'[p] \in Views
  BY <1>1, <1>2, <1>3, ChangedIsView
<1>5. QED
  BY <1>1, <1>4, SeesKeep DEF ViewOK

\* A step that only changes the fields of the audit.
LEMMA AuditKept ==
  ASSUME ViewsOK, NEW p \in Pages, NEW ch, See(p, ch),
         DOMAIN ch \subseteq {"audit", "list", "probe", "auditLock"},
         view'[p].audit \in {"start", "rows", "acks", "done", "aborted"},
         view'[p].list \in SUBSET ExecutionIds, view'[p].probe \in ExecutionIds \cup {None},
         view'[p].auditLock \in BOOLEAN
  PROVE  ViewsOK'
<1>1. Sees(p) /\ view'[p] = Changed(view[p], ch) /\ view[p] \in Views /\ ViewOK(view[p])
  BY SeeFields DEF ViewsOK
<1>2. /\ view'[p].ctl = view[p].ctl /\ view'[p].holds = view[p].holds /\ view'[p].b = view[p].b
      /\ view'[p].t = view[p].t /\ view'[p].todo = view[p].todo /\ view'[p].inst = view[p].inst
  <2>1. \A f \in {"ctl", "holds", "b", "t", "todo", "inst"} : f \notin DOMAIN ch
    OBVIOUS
  <2>2. QED
    BY <1>1, <2>1 DEF Changed, Views
<1>3. /\ view[p].ctl \in {"off", "observing", "locked", "adopt", "lost", "failed", "controlling"}
      /\ view[p].holds \in BOOLEAN /\ view[p].b \in BindingIds \cup {None}
      /\ view[p].t \in Tokens \cup {None} /\ view[p].todo \in SUBSET ExecutionIds /\ view[p].inst \in Nat
  BY <1>1 DEF Views
<1>4. view'[p] \in Views
  BY <1>1, <1>2, <1>3, ChangedIsView
<1>5. QED
  BY <1>1, <1>2, <1>4, SeesKeep DEF ViewOK

\* A step of the audit under its lock.
LEMMA AuditFields ==
  ASSUME ViewsOK, NEW p \in Pages, NEW ch, Audit(p, ch), DOMAIN ch \subseteq {"list", "probe"}
  PROVE  /\ Sees(p)
         /\ \A f \in {"ctl", "holds", "b", "t", "todo", "inst", "audit"} : view'[p][f] = view[p][f]
         /\ \A f \in {"list", "probe"} : view'[p][f] = IF f \in DOMAIN ch THEN ch[f] ELSE view[p][f]
         /\ \/ view'[p].auditLock = view[p].auditLock /\ lock' = lock /\ (view[p].holds \/ view[p].auditLock)
            \/ view'[p].auditLock = TRUE /\ lock' = p /\ ~ view[p].holds
         /\ DOMAIN view'[p] = DOMAIN view[p] /\ view[p] \in Views
         /\ view'[p] = [f \in DOMAIN view[p] |-> view'[p][f]]
<1>1. view[p] \in Views
  BY DEF ViewsOK, ViewOK
<1>2. \A f \in {"ctl", "holds", "b", "t", "todo", "inst", "audit", "auditLock"} : f \notin DOMAIN ch
  OBVIOUS
<1>3. CASE view[p].holds \/ view[p].auditLock
  <2>1. Sees(p) /\ view'[p] = Changed(view[p], ch) /\ lock' = lock
    BY <1>3, SeeFields DEF Audit
  <2>2. QED
    BY <1>1, <1>2, <1>3, <2>1 DEF Changed, Views
<1>4. CASE ~ (view[p].holds \/ view[p].auditLock)
  <2>1. PICK v : v = Changed(view[p], ch)
    OBVIOUS
  <2>2. /\ \A f \in {"ctl", "holds", "b", "t", "todo", "inst", "audit"} : v[f] = view[p][f]
        /\ \A f \in {"list", "probe"} : v[f] = IF f \in DOMAIN ch THEN ch[f] ELSE view[p][f]
        /\ DOMAIN v = DOMAIN view[p] /\ v = [f \in DOMAIN view[p] |-> v[f]]
    BY <1>1, <1>2, <2>1 DEF Changed, Views
  <2>3. /\ Sees(p) /\ view'[p] = [v EXCEPT !.auditLock = TRUE] /\ lock' = p
    BY <1>4, <2>1 DEF Audit, Sees, ViewsOK
  <2>4. "auditLock" \in DOMAIN view[p]
    BY <1>1 DEF Views
  <2>5. /\ view'[p].auditLock = TRUE /\ DOMAIN view'[p] = DOMAIN view[p]
        /\ \A f \in DOMAIN view[p] : f # "auditLock" => view'[p][f] = v[f]
        /\ view'[p] = [f \in DOMAIN view[p] |-> view'[p][f]]
    BY <2>2, <2>3, <2>4
  <2>6. \A f \in {"ctl", "holds", "b", "t", "todo", "inst", "audit", "list", "probe"} :
          f \in DOMAIN view[p] /\ f # "auditLock"
    BY <1>1 DEF Views
  <2>7. /\ \A f \in {"ctl", "holds", "b", "t", "todo", "inst", "audit"} : view'[p][f] = view[p][f]
        /\ \A f \in {"list", "probe"} : view'[p][f] = IF f \in DOMAIN ch THEN ch[f] ELSE view[p][f]
    BY <2>2, <2>5, <2>6
  <2>8. QED
    BY <1>1, <1>4, <2>3, <2>5, <2>7
<1>5. QED
  BY <1>3, <1>4

LEMMA AuditStepKept ==
  ASSUME ViewsOK, NEW p \in Pages, NEW ch, Audit(p, ch), DOMAIN ch \subseteq {"list", "probe"},
         "list" \in DOMAIN ch => ch.list \in SUBSET ExecutionIds,
         "probe" \in DOMAIN ch => ch.probe \in ExecutionIds \cup {None}
  PROVE  ViewsOK' /\ (lock \in Pages \cup {None} => lock' \in Pages \cup {None})
<1>1. PICK w : w = view'[p]
  OBVIOUS
<1>2. /\ Sees(p)
      /\ w.ctl = view[p].ctl /\ w.holds = view[p].holds /\ w.b = view[p].b /\ w.t = view[p].t
      /\ w.todo = view[p].todo /\ w.inst = view[p].inst /\ w.audit = view[p].audit
      /\ w.list = (IF "list" \in DOMAIN ch THEN ch.list ELSE view[p].list)
      /\ w.probe = (IF "probe" \in DOMAIN ch THEN ch.probe ELSE view[p].probe)
      /\ w.auditLock = view[p].auditLock \/ w.auditLock = TRUE
      /\ lock' \in {lock, p}
      /\ DOMAIN w = DOMAIN view[p] /\ view[p] \in Views /\ w = [f \in DOMAIN view[p] |-> w[f]]
  BY <1>1, AuditFields
<1>3. w \in Views
  BY <1>2 DEF Views
<1>4. ViewOK(view[p])
  BY DEF ViewsOK
<1>5. QED
  BY <1>1, <1>2, <1>3, <1>4, SeesKeep DEF ViewOK

LEMMA EndAuditKept ==
  ASSUME ViewsOK, NEW p \in Pages, NEW outcome \in {"done", "aborted"}, EndAudit(p, outcome)
  PROVE  ViewsOK' /\ (lock \in Pages \cup {None} => lock' \in Pages \cup {None})
<1>1. PICK ch : ch = [audit |-> outcome, list |-> {}, probe |-> None, auditLock |-> FALSE]
  OBVIOUS
<1>2. See(p, ch) /\ lock' \in {lock, None}
  BY <1>1 DEF EndAudit
<1>3. view'[p] = Changed(view[p], ch) /\ view[p] \in Views
  BY <1>2, SeeFields
<1>4. view'[p].audit = outcome /\ view'[p].list = {} /\ view'[p].probe = None /\ view'[p].auditLock = FALSE
  BY <1>1, <1>3, ChangedFields
<1>5. DOMAIN ch \subseteq {"audit", "list", "probe", "auditLock"}
  BY <1>1
<1>6. QED
  BY <1>2, <1>4, <1>5, AuditKept

\* What every step of a page or of the Host is.
Behaves == ViewsOK' /\ HostOK' /\ UNCHANGED task /\ (Calls \/ UNCHANGED vars)

LEMMA CallsAreNext ==
  ASSUME Calls
  PROVE  Next
BY DEF Calls, Next, RoundStep

LEMMA HostSame ==
  ASSUME HostOK, UNCHANGED <<host, origin>>, lock' \in Pages \cup {None}
  PROVE  HostOK'
BY DEF HostOK, host

\* failLostExecution has the token of the row, or the Room has none.
LEMMA FailLostCalls ==
  ASSUME StoreInv, NEW e \in ExecutionIds, FailLost(e)
  PROVE  Calls \/ UNCHANGED vars
<1>1. CASE UNCHANGED vars
  BY <1>1
<1>2. CASE Live(e)
  <2>1. PICK kind \in {"failed", "interrupted"} : RecordExecutionFailure(e, kind, TRUE)
    BY <1>2 DEF FailLost
  <2>2. CASE ActiveBinding
    <3>1. PICK t : RequireController(t)
      BY <2>2 DEF ActiveBinding, RequireController
    <3>2. FailExecution(t, e, kind, TRUE)
      BY <2>1, <3>1 DEF FailExecution
    <3>3. QED
      BY <3>2, EndCalls
  <2>3. CASE ~ ActiveBinding
    <3>1. FailUnboundExecution(e, kind)
      BY <2>1, <2>3 DEF FailUnboundExecution
    <3>2. QED
      BY <3>1, RowCalls
  <2>4. QED
    BY <2>2, <2>3
<1>3. QED
  BY <1>1, <1>2 DEF FailLost

LEMMA OpenBehaves ==
  ASSUME PageInv, NEW p \in Pages, OpenRoom(p) \/ GetLock(p)
  PROVE  Behaves
<1>1. /\ ViewsOK /\ HostOK
      /\ view[p].holds \in BOOLEAN /\ view[p].b \in BindingIds \cup {None}
      /\ view[p].t \in Tokens \cup {None} /\ view[p].todo \in SUBSET ExecutionIds
  BY DEF PageInv, ViewsOK, ViewOK, Views
<1>2. PICK ch : /\ See(p, ch) /\ lock' \in {lock, p}
                /\ \/ ch = [ctl |-> "controlling"] \/ ch = [ctl |-> "observing"]
                   \/ ch = [ctl |-> "locked", holds |-> TRUE]
  BY DEF OpenRoom, GetLock
<1>3. /\ DOMAIN ch \subseteq {"ctl", "holds"} /\ "ctl" \in DOMAIN ch
      /\ ch.ctl \in {"controlling", "observing", "locked"}
      /\ "holds" \in DOMAIN ch => ch.holds \in BOOLEAN
  <2>1. CASE ch = [ctl |-> "controlling"] \/ ch = [ctl |-> "observing"]
    BY <2>1
  <2>2. CASE ch = [ctl |-> "locked", holds |-> TRUE]
    <3>1. DOMAIN ch = {"ctl", "holds"} /\ ch.ctl = "locked"
      BY <2>2
    <3>2. ch.holds = TRUE
      BY <2>2
    <3>3. QED
      BY <3>1, <3>2
  <2>3. QED
    BY <1>2, <2>1, <2>2
<1>4. /\ view'[p].ctl \in {"controlling", "observing", "locked"}
      /\ view'[p].holds \in BOOLEAN /\ view'[p].b = view[p].b
      /\ view'[p].t = view[p].t /\ view'[p].todo = view[p].todo
  <2>1. CASE "holds" \in DOMAIN ch
    <3>1. view'[p].holds = ch.holds
      BY <1>1, <1>2, <2>1, SeenFields
    <3>2. QED
      BY <1>1, <1>2, <1>3, <2>1, <3>1, SeenFields
  <2>2. CASE "holds" \notin DOMAIN ch
    <3>1. view'[p].holds = view[p].holds
      BY <1>1, <1>2, <2>2, SeenFields
    <3>2. QED
      BY <1>1, <1>2, <1>3, <3>1, SeenFields
  <2>3. QED
    BY <2>1, <2>2
<1>5. DOMAIN ch \subseteq {"ctl", "holds", "b", "t", "todo"}
  BY <1>3
<1>6. ViewsOK'
  BY <1>1, <1>2, <1>4, <1>5, ControlKept
<1>7. HostOK'
  <2>1. UNCHANGED <<host, origin>>
    BY DEF OpenRoom, GetLock, OnlyView
  <2>2. QED
    BY <1>1, <1>2, <2>1, HostSame DEF HostOK
<1>8. QED
  BY <1>6, <1>7 DEF Behaves, OpenRoom, GetLock, OnlyView

LEMMA TakeOverBehaves ==
  ASSUME PageInv, NEW p \in Pages, TakeOver(p)
  PROVE  Behaves
<1>1. /\ view[p] \in Views /\ ViewsOK /\ HostOK /\ LiveRows \in SUBSET ExecutionIds
  BY DEF PageInv, ViewsOK, ViewOK, LiveRows
<1>2. PICK b : b = CHOOSE c \in ActiveBindings : TRUE
  OBVIOUS
<1>3. ActiveBindings # {} => b \in BindingIds
  BY <1>2 DEF ActiveBindings
<1>4. PICK ch :
        /\ See(p, ch)
        /\ \/ ch = [ctl |-> "controlling"] \/ ch = [ctl |-> "failed"]
           \/ \E t \in Tokens : b \in BindingIds /\ ch = [ctl |-> "adopt", b |-> b, t |-> t]
           \/ b \in BindingIds /\ ch = [ctl |-> "lost", b |-> b, todo |-> LiveRows]
  BY <1>2, <1>3 DEF TakeOver
<1>5. view'[p] = Changed(view[p], ch)
  BY <1>1, <1>4, SeeFields
<1>6. DOMAIN ch \subseteq {"ctl", "holds", "b", "t", "todo"}
  BY <1>4
<1>7. /\ view[p].holds \in BOOLEAN /\ view[p].b \in BindingIds \cup {None}
      /\ view[p].t \in Tokens \cup {None} /\ view[p].todo \in SUBSET ExecutionIds
  BY <1>1 DEF Views
<1>8. /\ view'[p].ctl \in {"controlling", "failed", "adopt", "lost"}
      /\ view'[p].holds = view[p].holds /\ view'[p].b \in BindingIds \cup {None}
      /\ view'[p].t \in Tokens \cup {None} /\ view'[p].todo \in {view[p].todo, LiveRows}
      /\ view'[p].ctl = "adopt" => view'[p].b \in BindingIds /\ view'[p].t \in Tokens
      /\ view'[p].ctl = "lost" => view'[p].b \in BindingIds
  BY <1>1, <1>4, <1>7, SeenFields
<1>9. ViewsOK'
  BY <1>1, <1>4, <1>6, <1>7, <1>8, ControlKept
<1>10. HostOK'
  <2>1. \/ UNCHANGED scopes
        \/ b \in BindingIds /\ \E t \in Tokens : scopes' = [scopes EXCEPT ![b].token = t]
    BY <1>2, <1>3 DEF TakeOver, host
  <2>2. UNCHANGED <<turns, instance, origin, lock>>
    BY DEF TakeOver, host
  <2>3. QED
    BY <1>1, <2>1, <2>2 DEF HostOK, ScopeRows
<1>11. QED
  BY <1>9, <1>10 DEF Behaves, TakeOver

LEMMA AdoptBehaves ==
  ASSUME PageInv, NEW p \in Pages, Adopt(p)
  PROVE  Behaves
<1>1. /\ view[p] \in Views /\ ViewsOK /\ HostOK
      /\ view[p].b \in BindingIds /\ view[p].t \in Tokens
  BY DEF PageInv, ViewsOK, ViewOK, Adopt
<1>2. PICK ch : /\ See(p, ch)
                /\ \/ ch = [ctl |-> "controlling", b |-> None, t |-> None]
                   \/ ch = [ctl |-> "failed", b |-> None, t |-> None]
  BY DEF Adopt
<1>3. view'[p] = Changed(view[p], ch) /\ DOMAIN ch \subseteq {"ctl", "holds", "b", "t", "todo"}
  BY <1>1, <1>2, SeeFields
<1>4. /\ view'[p].ctl \in {"controlling", "failed"} /\ view'[p].holds = view[p].holds
      /\ view'[p].b = None /\ view'[p].t = None /\ view'[p].todo = view[p].todo
  BY <1>1, <1>2, SeenFields
<1>5. view[p].holds \in BOOLEAN /\ view[p].todo \in SUBSET ExecutionIds
  BY <1>1 DEF Views
<1>6. ViewsOK'
  BY <1>1, <1>2, <1>3, <1>4, <1>5, ControlKept
<1>7. HostOK'
  <2>1. UNCHANGED <<host, origin, lock>>
    BY DEF Adopt
  <2>2. QED
    BY <1>1, <2>1, HostSame DEF HostOK
<1>8. QED
  BY <1>1, <1>6, <1>7, BindingCalls DEF Behaves, Adopt

LEMMA SettleLostBehaves ==
  ASSUME PageInv, NEW p \in Pages, SettleLost(p)
  PROVE  Behaves
<1>1. /\ view[p] \in Views /\ ViewsOK /\ HostOK /\ StoreInv /\ view[p].ctl = "lost"
      /\ view[p].b \in BindingIds /\ view[p].todo \in SUBSET ExecutionIds
      /\ view[p].holds \in BOOLEAN /\ view[p].t \in Tokens \cup {None}
  BY DEF PageInv, ViewsOK, ViewOK, Views, SettleLost
<1>2. PICK ch, e : /\ See(p, ch)
                   /\ \/ ch = [ctl |-> "failed", b |-> None, todo |-> {}]
                      \/ ch = [todo |-> view[p].todo \ {e}]
                      \/ ch = [ctl |-> "controlling", b |-> None]
  BY DEF SettleLost
<1>3. view'[p] = Changed(view[p], ch) /\ DOMAIN ch \subseteq {"ctl", "holds", "b", "t", "todo"}
  BY <1>1, <1>2, SeeFields
<1>4. /\ view'[p].ctl \in {"controlling", "failed", "lost"} /\ view'[p].holds = view[p].holds
      /\ view'[p].b \in BindingIds \cup {None} /\ view'[p].t = view[p].t
      /\ view'[p].todo \in {view[p].todo, {}, view[p].todo \ {e}}
      /\ view'[p].ctl = "lost" => view'[p].b \in BindingIds
  BY <1>1, <1>2, SeenFields
<1>5. ViewsOK'
  BY <1>1, <1>2, <1>3, <1>4, ControlKept
<1>6. HostOK'
  <2>1. UNCHANGED <<host, origin, lock>>
    BY DEF SettleLost
  <2>2. QED
    BY <1>1, <2>1, HostSame DEF HostOK
<1>7. Calls \/ UNCHANGED vars
  <2>1. MarkIfOpen(view[p].b) => Calls \/ UNCHANGED vars
    BY <1>1, BindingCalls DEF MarkIfOpen
  <2>2. QED
    BY <1>1, <2>1, FailLostCalls DEF SettleLost
<1>8. QED
  BY <1>5, <1>6, <1>7 DEF Behaves, SettleLost

LEMMA ScanKept ==
  ASSUME ViewsOK, NEW p \in Pages, NEW rows \in SUBSET ExecutionIds, See(p, NextScan(rows))
  PROVE  ViewsOK'
<1>1. PICK ch : ch = NextScan(rows)
  OBVIOUS
<1>2. /\ DOMAIN ch = {"audit", "list"} /\ ch.audit \in {"rows", "acks", "done"}
      /\ ch.list \in SUBSET ExecutionIds
  BY <1>1 DEF NextScan, PendingAcks
<1>3. /\ view[p].probe \in ExecutionIds \cup {None} /\ view[p].auditLock \in BOOLEAN
  BY DEF ViewsOK, ViewOK, Views
<1>4. /\ view'[p].audit = ch.audit /\ view'[p].list = ch.list /\ view'[p].probe = view[p].probe
      /\ view'[p].auditLock = view[p].auditLock
  BY <1>1, <1>2, SeenFields
<1>5. QED
  BY <1>1, <1>2, <1>3, <1>4, AuditKept

LEMMA ListKept ==
  ASSUME ViewsOK, NEW p \in Pages, NEW ch, See(p, ch), DOMAIN ch \subseteq {"list", "probe"},
         "list" \in DOMAIN ch => ch.list \in SUBSET ExecutionIds,
         "probe" \in DOMAIN ch => ch.probe \in ExecutionIds \cup {None}
  PROVE  ViewsOK'
<1>1. /\ view[p].probe \in ExecutionIds \cup {None} /\ view[p].auditLock \in BOOLEAN
      /\ view[p].list \in SUBSET ExecutionIds /\ view[p].audit \in {"start", "rows", "acks", "done", "aborted"}
  BY DEF ViewsOK, ViewOK, Views
<1>2. "audit" \notin DOMAIN ch /\ "auditLock" \notin DOMAIN ch
  OBVIOUS
<1>3. /\ view'[p].audit = view[p].audit /\ view'[p].auditLock = view[p].auditLock
      /\ view'[p].list \in SUBSET ExecutionIds /\ view'[p].probe \in ExecutionIds \cup {None}
  BY <1>1, <1>2, SeenFields
<1>4. QED
  BY <1>1, <1>3, AuditKept

LEMMA AuditStartBehaves ==
  ASSUME PageInv, NEW p \in Pages, AuditStart(p)
  PROVE  Behaves
<1>1. ViewsOK /\ HostOK /\ lock \in Pages \cup {None}
  BY DEF PageInv, HostOK
<1>2. ViewsOK' /\ lock' \in Pages \cup {None}
  <2>1. CASE EndAudit(p, "aborted")
    BY <1>1, <2>1, EndAuditKept
  <2>2. CASE See(p, NextScan(LiveRows)) /\ UNCHANGED lock
    BY <1>1, <2>2, ScanKept DEF LiveRows
  <2>3. QED
    BY <2>1, <2>2 DEF AuditStart
<1>3. HostOK'
  BY <1>1, <1>2, HostSame DEF AuditStart
<1>4. QED
  BY <1>2, <1>3, BindingCalls DEF Behaves, AuditStart

\* A cancel request changes no more than the turn's state, or the note that it was lost.
LEMMA CancelType ==
  ASSUME turns \in [ExecutionIds -> TurnRows], NEW p, NEW b, NEW e, NEW t, Cancel(p, b, e, t)
  PROVE  turns' \in [ExecutionIds -> TurnRows]
<1>1. \/ UNCHANGED turns
      \/ turns' = [turns EXCEPT ![e].state = "cancelled"]
      \/ turns' = [turns EXCEPT ![e].missed = TRUE]
  BY DEF Cancel
<1>2. CASE turns' = [turns EXCEPT ![e].state = "cancelled"]
  BY <1>2 DEF TurnRows, TurnStates
<1>3. CASE turns' = [turns EXCEPT ![e].missed = TRUE]
  BY <1>3 DEF TurnRows
<1>4. QED
  BY <1>1, <1>2, <1>3

LEMMA AuditQueryBehaves ==
  ASSUME PageInv, NEW p \in Pages, AuditQuery(p)
  PROVE  Behaves
<1>1. /\ ViewsOK /\ HostOK /\ lock \in Pages \cup {None} /\ view[p].list \in SUBSET ExecutionIds
      /\ turns \in [ExecutionIds -> TurnRows]
  BY DEF PageInv, HostOK, ViewsOK, ViewOK, Views
<1>2. PICK e \in view[p].list :
        \/ See(p, [list |-> view[p].list \ {e}]) /\ UNCHANGED lock
        \/ Audit(p, [list |-> view[p].list \ {e}])
        \/ Audit(p, [probe |-> e])
        \/ EndAudit(p, "aborted")
  BY DEF AuditQuery
<1>3. ViewsOK' /\ lock' \in Pages \cup {None}
  <2>1. CASE See(p, [list |-> view[p].list \ {e}]) /\ UNCHANGED lock
    BY <1>1, <2>1, ListKept
  <2>2. CASE Audit(p, [list |-> view[p].list \ {e}])
    BY <1>1, <2>2, AuditStepKept
  <2>3. CASE Audit(p, [probe |-> e])
    BY <1>1, <2>3, AuditStepKept
  <2>4. QED
    BY <1>1, <1>2, <2>1, <2>2, <2>3, EndAuditKept
<1>4. turns' \in [ExecutionIds -> TurnRows]
  BY <1>1, CancelType DEF AuditQuery
<1>5. HostOK'
  BY <1>1, <1>3, <1>4 DEF HostOK, AuditQuery
<1>6. QED
  BY <1>3, <1>5 DEF Behaves, AuditQuery

LEMMA AuditSettleBehaves ==
  ASSUME PageInv, NEW p \in Pages, AuditSettle(p)
  PROVE  Behaves
<1>1. /\ ViewsOK /\ HostOK /\ lock \in Pages \cup {None} /\ view[p].list \in SUBSET ExecutionIds
      /\ view[p].probe \in ExecutionIds /\ StoreInv
  BY DEF PageInv, HostOK, ViewsOK, ViewOK, Views, AuditSettle
<1>2. ViewsOK' /\ lock' \in Pages \cup {None}
  <2>1. CASE See(p, [list |-> view[p].list \ {view[p].probe}, probe |-> None]) /\ UNCHANGED lock
    <3>1. PICK ch : ch = [list |-> view[p].list \ {view[p].probe}, probe |-> None]
      OBVIOUS
    <3>2. /\ DOMAIN ch = {"list", "probe"} /\ ch.list \in SUBSET ExecutionIds /\ ch.probe = None
      BY <1>1, <3>1
    <3>3. QED
      BY <1>1, <2>1, <3>1, <3>2, ListKept
  <2>2. QED
    BY <1>1, <2>1, EndAuditKept DEF AuditSettle
<1>3. HostOK'
  BY <1>1, <1>2, HostSame DEF AuditSettle
<1>4. Calls \/ UNCHANGED vars
  BY <1>1, FailLostCalls DEF AuditSettle
<1>5. QED
  BY <1>2, <1>3, <1>4 DEF Behaves, AuditSettle

LEMMA AuditEndsBehave ==
  ASSUME PageInv, NEW p \in Pages, AuditRowsDone(p) \/ AuditDone(p)
  PROVE  Behaves
<1>1. ViewsOK /\ HostOK /\ lock \in Pages \cup {None}
  BY DEF PageInv, HostOK
<1>2. ViewsOK' /\ lock' \in Pages \cup {None}
  <2>1. CASE See(p, NextScan({})) /\ UNCHANGED lock
    BY <1>1, <2>1, ScanKept
  <2>2. QED
    BY <1>1, <2>1, EndAuditKept DEF AuditRowsDone, AuditDone
<1>3. HostOK'
  BY <1>1, <1>2, HostSame DEF AuditRowsDone, AuditDone
<1>4. QED
  BY <1>2, <1>3 DEF Behaves, AuditRowsDone, AuditDone

LEMMA ResendAckBehaves ==
  ASSUME PageInv, NEW p \in Pages, ResendAck(p)
  PROVE  Behaves
<1>1. /\ ViewsOK /\ HostOK /\ lock \in Pages \cup {None} /\ view[p].list \in SUBSET ExecutionIds
      /\ turns \in [ExecutionIds -> TurnRows] /\ executions \in [ExecutionIds -> Executions]
  BY DEF PageInv, StoreInv, Inv, Typed, TypeOK, RowsType, HostOK, ViewsOK, ViewOK, Views
<1>2. PICK e \in view[p].list :
        /\ \/ See(p, [list |-> view[p].list \ {e}]) /\ UNCHANGED lock
           \/ Audit(p, [list |-> view[p].list \ {e}])
        /\ \/ UNCHANGED turns \/ turns' = [turns EXCEPT ![e].ack = executions[e].state]
        /\ \/ UNCHANGED vars \/ MarkAckExpired(e) \/ MarkAcknowledged(e)
  BY DEF ResendAck, MarkIfPending
<1>3. ViewsOK' /\ lock' \in Pages \cup {None}
  <2>1. CASE See(p, [list |-> view[p].list \ {e}]) /\ UNCHANGED lock
    BY <1>1, <2>1, ListKept
  <2>2. CASE Audit(p, [list |-> view[p].list \ {e}])
    BY <1>1, <2>2, AuditStepKept
  <2>3. QED
    BY <1>2, <2>1, <2>2
<1>4. turns' \in [ExecutionIds -> TurnRows]
  <2>1. e \in ExecutionIds
    BY <1>1
  <2>2. executions[e].state \in ExecutionStates \cup {None}
    BY <1>1, <2>1 DEF Executions
  <2>3. [turns[e] EXCEPT !.ack = executions[e].state] \in TurnRows
    BY <1>1, <2>1, <2>2 DEF TurnRows
  <2>4. QED
    BY <1>1, <1>2, <2>1, <2>3
<1>5. HostOK'
  BY <1>1, <1>3, <1>4 DEF HostOK, ResendAck
<1>6. QED
  BY <1>1, <1>2, <1>3, <1>5, RowCalls DEF Behaves, ResendAck

LEMMA PageStepBehaves ==
  ASSUME PageInv, NEW p \in Pages, PageStep(p)
  PROVE  Behaves
BY OpenBehaves, TakeOverBehaves, AdoptBehaves, SettleLostBehaves, AuditStartBehaves, AuditQueryBehaves,
   AuditSettleBehaves, AuditEndsBehave, ResendAckBehaves
DEF PageStep

\* The steps of an intent by which the Host, or what a row knows of it, changes.
AtHost(k) ==
  \/ OpenScope(k) \/ ActivateScope(k) \/ Execute(k) \/ MarkDispatched(k) \/ Refused(k) \/ LoseTurn(k)
  \/ Ack(k) \/ CancelTurn(k) \/ RotateClose(k) \/ CloseReleased(k)

LEMMA TaskStepHost ==
  ASSUME NEW k \in Tasks, TaskStep(k)
  PROVE  (AtHost(k) \/ UNCHANGED <<host, origin>>) /\ UNCHANGED pages
<1>1. CASE ScopeStep(k)
  BY <1>1, ZenonT(60)
  DEF ScopeStep, EnsureScope, BindScope, OpenScope, ActivateScope, OnlyStore, AtHost
<1>2. CASE StartStep(k)
  BY <1>2, ZenonT(60)
  DEF StartStep, StartAgain, CreateRoundStep, SeedRound, Prewarm, Probe, PausePrewarm, RunRound, OnlyStore,
      OnlyTask
<1>3. CASE TurnStep(k)
  <2>1. CASE Gate(k)
    BY <2>1 DEF Gate, OnlyStore, OnlyTask
  <2>2. CASE RunLoop(k) \/ BeginTurn(k)
    BY <2>2 DEF RunLoop, BeginTurn, OnlyStore, OnlyTask
  <2>3. CASE Execute(k) \/ MarkDispatched(k) \/ Refused(k)
    BY <2>3 DEF Execute, MarkDispatched, Refused, GiveUp, AtHost, pages
  <2>4. QED
    BY <1>3, <2>1, <2>2, <2>3 DEF TurnStep
<1>4. CASE LoseTurn(k)
  BY <1>4 DEF LoseTurn, GiveUp, AtHost, pages
<1>5. CASE TerminalStep(k)
  BY <1>5, ZenonT(60)
  DEF TerminalStep, Succeeded, PersistResult, Ack, UserCancelled, RetryOnce, FailTurn, OnlyStore, AtHost
<1>6. CASE IntentStep(k)
  BY <1>6, ZenonT(60)
  DEF IntentStep, CancelTurn, AbortStep, RotateClose, CloseReleased, Conclude, OnlyStore, OnlyTask, AtHost
<1>7. QED
  BY <1>1, <1>2, <1>3, <1>4, <1>5, <1>6 DEF TaskStep

LEMMA UserStepHost ==
  ASSUME NEW k \in Tasks, NEW p \in Pages, UserStep(k, p)
  PROVE  UNCHANGED <<host, origin, pages>>
BY ZenonT(60)
DEF UserStep, StartRound, PauseRoom, ResumeRoom, CancelActiveExecution, AbortPausedRound, RotateScope,
    EndPausedRound, RetryParticipant, SkipFailedParticipant, SendUserMessage, ReleaseRoom, ConcludeRoom

LEMMA ClosedTurnsType ==
  ASSUME turns \in [ExecutionIds -> TurnRows], NEW open
  PROVE  ClosedTurns(open) \in [ExecutionIds -> TurnRows]
BY DEF ClosedTurns, TurnRows, TurnStates

LEMMA CloseScopeType ==
  ASSUME HostOK, NEW p, NEW b, NEW t, CloseScope(p, b, t)
  PROVE  /\ scopes' \in [BindingIds -> ScopeRows] /\ turns' \in [ExecutionIds -> TurnRows]
         /\ UNCHANGED <<instance, issued>>
<1>1. scopes \in [BindingIds -> ScopeRows] /\ turns \in [ExecutionIds -> TurnRows]
  BY DEF HostOK
<1>2. CASE UNCHANGED host
  BY <1>1, <1>2 DEF host
<1>3. CASE /\ scopes' = [scopes EXCEPT ![b].state = "closed"] /\ turns' = ClosedTurns(BindingIds \ {b})
           /\ UNCHANGED <<instance, issued>>
  BY <1>1, <1>3, ClosedTurnsType DEF ScopeRows
<1>4. QED
  BY <1>2, <1>3 DEF CloseScope

LEMMA AtHostKeeps ==
  ASSUME PageInv, NEW k \in Tasks, AtHost(k), UNCHANGED pages
  PROVE  HostOK'
<1>1. HostOK /\ StoreInv /\ ViewsOK /\ task[k] \in TasksOf(task[k].p) /\ TaskOK(task[k])
  BY DEF PageInv, TasksOK, TaskOK
<1>2. /\ scopes \in [BindingIds -> ScopeRows] /\ turns \in [ExecutionIds -> TurnRows] /\ instance \in Nat
      /\ origin \in [ExecutionIds -> Origins \cup {None}] /\ lock \in Pages \cup {None}
      /\ executions \in [ExecutionIds -> Executions]
  BY <1>1 DEF HostOK, StoreInv, Inv, Typed, TypeOK, RowsType
<1>3. UNCHANGED lock
  BY DEF pages
<1>4. CASE OpenScope(k)
  <2>1. task[k].b \in BindingIds
    BY <1>1, <1>4 DEF OpenScope, At, TaskOK
  <2>2. UNCHANGED host \/ \E t \in Tokens : CreateScope(task[k].b, t)
    BY <1>4 DEF OpenScope
  <2>3. \/ UNCHANGED scopes
        \/ \E t \in Tokens : scopes' = [scopes EXCEPT ![task[k].b] = [state |-> "active", token |-> t]]
    BY <2>2, Zenon DEF CreateScope, host
  <2>4. scopes' \in [BindingIds -> ScopeRows]
    <3>1. \A t \in Tokens : [state |-> "active", token |-> t] \in ScopeRows
      BY DEF ScopeRows
    <3>2. QED
      BY <1>2, <2>1, <2>3, <3>1
  <2>5. UNCHANGED <<turns, instance>>
    BY <2>2, Zenon DEF CreateScope, host
  <2>6. QED
    BY <1>2, <1>3, <1>4, <2>4, <2>5 DEF HostOK, OpenScope
<1>5. CASE ActivateScope(k) \/ CloseReleased(k)
  <2>1. UNCHANGED host \/ \E b, t : CloseScope(task[k].page, b, t)
    BY <1>5 DEF ActivateScope, CloseReleased
  <2>2. scopes' \in [BindingIds -> ScopeRows] /\ turns' \in [ExecutionIds -> TurnRows] /\ UNCHANGED instance
    BY <1>1, <1>2, <2>1, CloseScopeType DEF host
  <2>3. QED
    BY <1>2, <1>3, <1>5, <2>2 DEF HostOK, ActivateScope, CloseReleased
<1>6. CASE RotateClose(k)
  <2>1. UNCHANGED host \/ \E b, t : CloseScope(task[k].page, b, t)
    BY <1>6 DEF RotateClose
  <2>2. scopes' \in [BindingIds -> ScopeRows] /\ turns' \in [ExecutionIds -> TurnRows] /\ UNCHANGED instance
    BY <1>1, <1>2, <2>1, CloseScopeType DEF host
  <2>3. QED
    BY <1>2, <1>3, <1>6, <2>2 DEF HostOK, RotateClose
<1>7. CASE Execute(k)
  <2>1. task[k].e \in ExecutionIds /\ task[k].b \in BindingIds
    BY <1>1, <1>7 DEF Execute, At, TaskOK, CallPcs
  <2>2. UNCHANGED turns \/ turns' = [turns EXCEPT ![task[k].e].state = "running", ![task[k].e].b = task[k].b]
    BY <1>7 DEF Execute
  <2>3. turns' \in [ExecutionIds -> TurnRows]
    BY <1>2, <2>1, <2>2 DEF TurnRows, TurnStates
  <2>4. QED
    BY <1>2, <1>3, <1>7, <2>3 DEF HostOK, Execute
<1>8. CASE MarkDispatched(k)
  <2>1. task[k].e \in ExecutionIds /\ task[k].b \in BindingIds /\ task[k].page \in Pages
    BY <1>1, <1>8 DEF MarkDispatched, At, TaskOK, CallPcs
  <2>2. view[task[k].page].inst \in Nat
    BY <1>1, <2>1 DEF ViewsOK, ViewOK, Views
  <2>3. [b |-> task[k].b, inst |-> view[task[k].page].inst] \in Origins
    BY <2>1, <2>2 DEF Origins
  <2>4. origin' \in [ExecutionIds -> Origins \cup {None}]
    BY <1>2, <1>8, <2>1, <2>3 DEF MarkDispatched
  <2>5. QED
    BY <1>2, <1>3, <1>8, <2>4 DEF HostOK, MarkDispatched, host
<1>9. CASE Refused(k) \/ LoseTurn(k) \/ CancelTurn(k)
  <2>1. UNCHANGED <<scopes, instance, origin>>
    BY <1>9 DEF Refused, LoseTurn, CancelTurn, GiveUp
  <2>2. turns' = turns \/ \E p, b, e, t : Cancel(p, b, e, t)
    BY <1>9 DEF Refused, LoseTurn, CancelTurn, GiveUp
  <2>3. turns' \in [ExecutionIds -> TurnRows]
    BY <1>2, <2>2, CancelType
  <2>4. QED
    BY <1>2, <1>3, <2>1, <2>3 DEF HostOK
<1>10. CASE Ack(k)
  <2>1. task[k].e \in ExecutionIds
    BY <1>1, <1>10 DEF Ack, At, TaskOK, CallPcs
  <2>2. executions[task[k].e].state \in ExecutionStates \cup {None}
    BY <1>2, <2>1 DEF Executions
  <2>3. [turns[task[k].e] EXCEPT !.ack = executions[task[k].e].state] \in TurnRows
    BY <1>2, <2>1, <2>2 DEF TurnRows
  <2>4. turns' = turns \/ turns' = [turns EXCEPT ![task[k].e].ack = executions[task[k].e].state]
    BY <1>10 DEF Ack
  <2>5. turns' \in [ExecutionIds -> TurnRows]
    BY <1>2, <2>1, <2>3, <2>4
  <2>6. QED
    BY <1>2, <1>3, <1>10, <2>5 DEF HostOK, Ack
<1>11. QED
  BY <1>4, <1>5, <1>6, <1>7, <1>8, <1>9, <1>10 DEF AtHost

\* Turns end, Scopes are reaped, the Host restarts.
LEMMA HostStepKeeps ==
  ASSUME PageInv, HostStep
  PROVE  PageInv' /\ UNCHANGED vars
<1>1. /\ HostOK /\ scopes \in [BindingIds -> ScopeRows] /\ turns \in [ExecutionIds -> TurnRows]
      /\ instance \in Nat /\ StoreInv /\ ViewsOK /\ TasksOK /\ OpeningRounds
  BY DEF PageInv, HostOK
<1>2. UNCHANGED <<vars, origin, pages, task>>
  BY ZenonT(60) DEF HostStep, TurnEnds, ReapScope, RestartHost
<1>3. /\ scopes' \in [BindingIds -> ScopeRows] /\ turns' \in [ExecutionIds -> TurnRows] /\ instance' \in Nat
  <2>1. CASE \E e \in ExecutionIds : TurnEnds(e)
    BY <1>1, <2>1 DEF TurnEnds, TurnRows, TurnStates, EndStates
  <2>2. CASE \E b \in BindingIds : ReapScope(b)
    BY <1>1, <2>2 DEF ReapScope, ScopeRows
  <2>3. CASE RestartHost
    BY <1>1, <2>3, ClosedTurnsType DEF RestartHost, ScopeRows
  <2>4. QED
    BY <2>1, <2>2, <2>3 DEF HostStep
<1>4. HostOK'
  BY <1>1, <1>2, <1>3 DEF HostOK, pages
<1>5. ViewsOK'
  BY <1>1, <1>2, ViewsSame DEF pages
<1>6. StoreInv' /\ TasksOK' /\ OpeningRounds'
  BY <1>1, <1>2, NextStore, OthersKeep
<1>7. QED
  BY <1>2, <1>4, <1>5, <1>6 DEF PageInv

\* A page is reloaded, leaves the Room, or takes the lock.
LEMMA ReloadKeeps ==
  ASSUME PageInv, NEW p \in Pages, Reload(p)
  PROVE  PageInv' /\ UNCHANGED vars
<1>1. HostOK /\ StoreInv /\ ViewsOK /\ TasksOK /\ OpeningRounds
  BY DEF PageInv
<1>2. UNCHANGED <<vars, host, origin>> /\ lock' \in {lock, None}
  BY DEF Reload
<1>3. HostOK'
  BY <1>1, <1>2, HostSame DEF HostOK
<1>4. ViewsOK'
  <2>1. Loaded \in Views /\ Loaded.ctl = "off"
    BY <1>1 DEF Loaded, Views, HostOK
  <2>2. ViewOK(Loaded)
    BY <2>1 DEF ViewOK
  <2>3. QED
    BY <1>1, <2>2 DEF Reload, ViewsOK, ViewOK, Views
<1>5. \A k \in Tasks : task'[k] = Idle \/ task'[k] = task[k]
  BY DEF Reload
<1>6. TasksOK'
  <2>1. \A k \in Tasks : TaskOK(task'[k])
    BY <1>1, <1>5, IdleOK DEF TasksOK
  <2>2. published' = published /\ executions' = executions
    BY <1>2 DEF vars
  <2>3. \A k \in Tasks : Refers(task[k]) => (task'[k] = task[k] => Refers(task[k])')
    BY <2>2 DEF Refers, Begun
  <2>4. ASSUME NEW k \in Tasks, task'[k] = Idle
        PROVE  Refers(task[k])'
    BY <2>4, IdleOK DEF Refers, CallPcs
  <2>5. task' = [k \in Tasks |-> task'[k]]
    BY DEF Reload
  <2>6. QED
    BY <1>1, <1>5, <2>1, <2>3, <2>4, <2>5 DEF TasksOK, TaskOK, Refers
<1>7. OpeningRounds'
  <2>1. \A k \in Tasks : Opens(task'[k]) => Opens(task[k]) /\ task'[k] = task[k]
    BY <1>5, IdleOK
  <2>2. rounds' = rounds
    BY <1>2 DEF vars
  <2>3. QED
    BY <1>1, <2>1, <2>2 DEF OpeningRounds, Opens
<1>8. StoreInv'
  BY <1>1, <1>2, NextStore
<1>9. QED
  BY <1>2, <1>3, <1>4, <1>6, <1>7, <1>8 DEF PageInv

LEMMA LeaveBehaves ==
  ASSUME PageInv, NEW p \in Pages, LeaveRoom(p) \/ StealLock(p)
  PROVE  Behaves
<1>1. /\ ViewsOK /\ HostOK
      /\ view[p].holds \in BOOLEAN /\ view[p].b \in BindingIds \cup {None}
      /\ view[p].t \in Tokens \cup {None} /\ view[p].todo \in SUBSET ExecutionIds
  BY DEF PageInv, ViewsOK, ViewOK, Views
<1>2. PICK ch : /\ See(p, ch) /\ lock' \in {lock, None}
                /\ \/ ch = [ctl |-> "off"] \/ ch = [ctl |-> "observing"]
                   \/ ch = [ctl |-> "off", holds |-> FALSE]
  BY DEF LeaveRoom, StealLock
<1>3. /\ DOMAIN ch \subseteq {"ctl", "holds", "b", "t", "todo"} /\ "ctl" \in DOMAIN ch
      /\ ch.ctl \in {"off", "observing"}
      /\ "b" \notin DOMAIN ch /\ "t" \notin DOMAIN ch /\ "todo" \notin DOMAIN ch
  BY <1>2
<1>4. view'[p].holds \in BOOLEAN
  <2>1. CASE "holds" \in DOMAIN ch
    <3>1. ch = [ctl |-> "off", holds |-> FALSE]
      BY <1>2, <2>1
    <3>2. view'[p].holds = FALSE
      BY <1>1, <1>2, <2>1, <3>1, SeenFields
    <3>3. QED
      BY <3>2
  <2>2. CASE "holds" \notin DOMAIN ch
    <3>1. view'[p].holds = view[p].holds
      BY <1>1, <1>2, <2>2, SeenFields
    <3>2. QED
      BY <1>1, <3>1
  <2>3. QED
    BY <2>1, <2>2
<1>5. /\ view'[p].ctl \in {"off", "observing"} /\ view'[p].b = view[p].b
      /\ view'[p].t = view[p].t /\ view'[p].todo = view[p].todo
  BY <1>1, <1>2, <1>3, SeenFields
<1>6. ViewsOK'
  BY <1>1, <1>2, <1>3, <1>4, <1>5, ControlKept
<1>7. HostOK'
  <2>1. UNCHANGED <<host, origin>>
    BY DEF LeaveRoom, StealLock, OnlyView
  <2>2. QED
    BY <1>1, <1>2, <2>1, HostSame DEF HostOK
<1>8. QED
  BY <1>6, <1>7 DEF Behaves, LeaveRoom, StealLock, OnlyView

LEMMA BehavesKeeps ==
  ASSUME PageInv, Behaves
  PROVE  PageInv' /\ [Next]_vars
<1>1. [Next]_vars
  BY CallsAreNext DEF Behaves
<1>2. StoreInv' /\ TasksOK' /\ OpeningRounds'
  BY <1>1, NextStore, OthersKeep DEF Behaves, PageInv
<1>3. QED
  BY <1>1, <1>2 DEF PageInv, Behaves

LEMMA PagesInit ==
  ASSUME OrchestratorInit
  PROVE  PageInv
<1>1. StoreInv
  BY InitStore DEF OrchestratorInit
<1>2. TasksOK
  BY IdleOK DEF OrchestratorInit, TasksOK, TaskOK, Refers, CallPcs
<1>3. OpeningRounds
  BY IdleOK DEF OrchestratorInit, OpeningRounds
<1>4. ViewsOK
  <2>1. Loaded \in Views /\ Loaded.ctl = "off"
    BY DEF OrchestratorInit, Loaded, Views
  <2>2. QED
    BY <2>1 DEF OrchestratorInit, ViewsOK, ViewOK
<1>5. HostOK
  BY DEF OrchestratorInit, HostOK, ScopeRows, TurnRows, TurnStates
<1>6. QED
  BY <1>1, <1>2, <1>3, <1>4, <1>5 DEF PageInv

LEMMA PagesNext ==
  ASSUME PageInv, [OrchestratorNext]_orchestratorVars
  PROVE  PageInv' /\ [Next]_vars
<1>1. HostOK /\ StoreInv /\ ViewsOK /\ TasksOK /\ OpeningRounds
  BY DEF PageInv
<1>2. ASSUME UNCHANGED pages, HostOK', [Next]_vars, TasksOK', OpeningRounds'
      PROVE  PageInv'
  <2>1. ViewsOK'
    BY <1>1, <1>2, ViewsSame DEF pages
  <2>2. QED
    BY <1>1, <1>2, <2>1, NextStore DEF PageInv
<1>3. CASE \E k \in Tasks : TaskStep(k)
  <2>1. PICK k \in Tasks : TaskStep(k)
    BY <1>3
  <2>2. UNCHANGED pages /\ HostOK'
    BY <1>1, <2>1, TaskStepHost, AtHostKeeps, HostSame DEF pages, HostOK
  <2>3. QED
    BY <1>1, <1>2, <2>1, <2>2, TaskStepKeeps
<1>4. CASE \E k \in Tasks, p \in Pages : UserStep(k, p)
  <2>1. PICK k \in Tasks, p \in Pages : UserStep(k, p)
    BY <1>4
  <2>2. UNCHANGED pages /\ HostOK'
    BY <1>1, <2>1, UserStepHost, HostSame DEF pages, HostOK
  <2>3. QED
    BY <1>1, <1>2, <2>1, <2>2, UserStepKeeps
<1>5. CASE \E p \in Pages : PageStep(p) \/ Reload(p) \/ LeaveRoom(p) \/ StealLock(p)
  BY <1>5, PageStepBehaves, ReloadKeeps, LeaveBehaves, BehavesKeeps
<1>6. CASE HostStep
  BY <1>6, HostStepKeeps
<1>7. CASE UNCHANGED orchestratorVars
  <2>1. UNCHANGED <<vars, host, origin, pages, task>>
    BY <1>7 DEF orchestratorVars
  <2>2. HostOK' /\ UNCHANGED pages
    BY <1>1, <2>1, HostSame DEF pages, HostOK
  <2>3. QED
    BY <1>1, <1>2, <2>1, <2>2, OthersKeep
<1>8. QED
  BY <1>3, <1>4, <1>5, <1>6, <1>7 DEF OrchestratorNext

LEMMA PagesStay == OrchestratorSpec => []PageInv
BY PagesInit, PagesNext, PTL DEF OrchestratorSpec

\* What the pages do to the rows, whatever the Host answers and whatever is lost or
\* reloaded, is a behaviour of the transactions: no page writes a row but by one of
\* them, in a state that it accepts and with arguments it was read from.
THEOREM PagesRunTransactions ==
  OrchestratorSpec => Spec
<1>1. OrchestratorInit => Init
  BY DEF OrchestratorInit
<1>2. QED
  BY <1>1, PagesNext, PagesStay, PTL DEF OrchestratorSpec, Spec

-----------------------------------------------------------------------------
(* What the Host was told of a result.  The row is final before anybody    *)
(* asks for its ACK: an intent at its ACK, the audit's list and the rows   *)
(* that are still pending are all rows that a commit or a discard ended.   *)

Persisted(e) == executions[e].state \in {"committed", "discarded"}

AckInv ==
  /\ \A e \in ExecutionIds : executions[e].ackState = "pending" => Persisted(e)
  /\ \A k \in Tasks : task[k].pc = "ack" => Persisted(task[k].e)
  /\ \A p \in Pages : view[p].audit = "acks" => \A e \in view[p].list : Persisted(e)
  /\ \A e \in ExecutionIds : turns[e].ack # None => Persisted(e) /\ turns[e].ack = executions[e].state

\* How the rows of the executions change in one transaction.
RowsMove ==
  \/ UNCHANGED executions
  \/ \E e \in ExecutionIds :
       \/ \E state \in {"committed", "discarded"} : Persist(e, state)
       \/ \E state \in FailureStates :
            executions' = [executions EXCEPT ![e].state = state, ![e].ackState = None]
       \/ \E state \in LiveStates : Live(e) /\ executions' = [executions EXCEPT ![e].state = state]
       \/ \E ack \in {"acknowledged", "expired"} : executions' = [executions EXCEPT ![e].ackState = ack]
       \/ \E kind, r, p, ctx : AddExecution(e, kind, r, p, ctx)

LEMMA NextMovesRows ==
  ASSUME Inv, [Next]_vars
  PROVE  RowsMove
<1>1. CASE UNCHANGED vars \/ BindingsStep \/ \E t \in Tokens : ContextStep(t)
  <2>1. UNCHANGED executions
    BY <1>1, ZenonT(60)
    DEF vars, BindingsStep, CreateRuntimeBinding, ActivateRuntimeBinding, TakeoverRuntimeBinding, Grant,
        MarkBindingClosed, ReleaseRuntime, BindingStep, ContextStep, AppendUserMessage,
        UpdateRoomSharedConfig, WriteTopic, SetRoomRunState
  <2>2. QED
    BY <2>1 DEF RowsMove
<1>2. ASSUME NEW t \in Tokens, RoundStep(t)
      PROVE  RowsMove
  <2>1. UNCHANGED executions \/ \E r \in RoundIds : AbortRound(t, r)
    BY <1>2 DEF RoundStep, CreateRound, TransitionRound, PrewarmFailed, PauseRound,
                RetryFailedParticipant, ResumeRound, SkipParticipant
  <2>2. ASSUME NEW r \in RoundIds, AbortRound(t, r)
        PROVE  RowsMove
    <3>1. PICK e : e = rounds[r].activeExecutionId /\ executions' = InterruptIfLive(e)
      BY <2>2 DEF AbortRound
    <3>2. e \in ExecutionIds \cup {None}
      BY <3>1 DEF Inv, Typed, TypeOK, RowsType, Rounds
    <3>3. QED
      BY <3>1, <3>2 DEF InterruptIfLive, RowsMove, FailureStates
  <2>3. QED
    BY <2>1, <2>2 DEF RowsMove
<1>3. ASSUME NEW t \in Tokens, BeginStep(t)
      PROVE  RowsMove
  <2>1. \E e \in ExecutionIds : \E kind, r, p, ctx : AddExecution(e, kind, r, p, ctx)
    BY <1>3 DEF BeginStep, BeginExecution, BeginFocusExecution, BeginReportExecution
  <2>2. QED
    BY <2>1 DEF RowsMove
<1>4. ASSUME NEW t \in Tokens, EndStep(t)
      PROVE  RowsMove
  <2>1. PICK e \in ExecutionIds :
          \/ \E state \in {"committed", "discarded"} : Persist(e, state)
          \/ \E kind \in {"failed", "interrupted"}, pause \in BOOLEAN : RecordExecutionFailure(e, kind, pause)
    BY <1>4 DEF EndStep, CommitModelMessage, CommitFocusMessage, CommitSummary, CommitReport,
                DiscardExecution, DiscardLockedExecution, FailExecution
  <2>2. QED
    BY <2>1 DEF RecordExecutionFailure, RowsMove, FailureStates
<1>5. CASE UncontrolledStep
  <2>1. CASE \E topic \in Topics : RenameColdRoom(topic)
    BY <2>1 DEF RenameColdRoom, WriteTopic, RowsMove
  <2>2. ASSUME NEW e \in ExecutionIds, MarkExecutionDispatched(e) \/ MarkExecutionSucceededUncommitted(e)
        PROVE  RowsMove
    BY <2>2 DEF MarkExecutionDispatched, MarkExecutionSucceededUncommitted, SetState, RowsMove, Live, LiveStates
  <2>3. ASSUME NEW e \in ExecutionIds, MarkAcknowledged(e) \/ MarkAckExpired(e)
        PROVE  RowsMove
    BY <2>3 DEF MarkAcknowledged, MarkAckExpired, SetAckState, RowsMove
  <2>4. ASSUME NEW e \in ExecutionIds, NEW kind \in {"failed", "interrupted"}, FailUnboundExecution(e, kind)
        PROVE  RowsMove
    BY <2>4 DEF FailUnboundExecution, RecordExecutionFailure, RowsMove, FailureStates
  <2>5. QED
    BY <1>5, <2>1, <2>2, <2>3, <2>4 DEF UncontrolledStep
<1>6. QED
  BY <1>1, <1>2, <1>3, <1>4, <1>5 DEF Next

LEMMA PendingIsPersisted ==
  ASSUME Inv, RowsMove, \A e \in ExecutionIds : executions[e].ackState = "pending" => Persisted(e)
  PROVE  \A e \in ExecutionIds :
           executions'[e].ackState = "pending" => executions'[e].state \in {"committed", "discarded"}
<1>1. executions \in [ExecutionIds -> Executions]
  BY DEF Inv, Typed, TypeOK, RowsType
<1>2. None # "pending"
  BY PhaseAssumption DEF RoundPhases
<1>3. ASSUME NEW d \in ExecutionIds, executions'[d].ackState = "pending",
             NEW e \in ExecutionIds, \A x \in ExecutionIds \ {e} : executions'[x] = executions[x],
             executions'[e].ackState = "pending" => executions'[e].state \in {"committed", "discarded"}
      PROVE  executions'[d].state \in {"committed", "discarded"}
  BY <1>3 DEF Persisted
<1>4. ASSUME NEW e \in ExecutionIds, NEW state \in {"committed", "discarded"}, Persist(e, state)
      PROVE  executions'[e].state \in {"committed", "discarded"}
  BY <1>1, <1>4 DEF Persist, Persisted, Executions
<1>5. ASSUME NEW e \in ExecutionIds, NEW state \in FailureStates,
             executions' = [executions EXCEPT ![e].state = state, ![e].ackState = None]
      PROVE  executions'[e].ackState # "pending"
  BY <1>1, <1>2, <1>5 DEF Executions
<1>6. ASSUME NEW e \in ExecutionIds, NEW state \in LiveStates, Live(e),
             executions' = [executions EXCEPT ![e].state = state]
      PROVE  executions'[e].ackState # "pending"
  BY <1>1, <1>6 DEF Executions, Live, LiveStates, Persisted
<1>7. ASSUME NEW e \in ExecutionIds, NEW ack \in {"acknowledged", "expired"},
             executions' = [executions EXCEPT ![e].ackState = ack]
      PROVE  executions'[e].ackState # "pending"
  BY <1>1, <1>7 DEF Executions
<1>8. ASSUME NEW e \in ExecutionIds, NEW kind, NEW r, NEW p, NEW ctx, AddExecution(e, kind, r, p, ctx)
      PROVE  executions'[e].ackState # "pending"
  <2>1. executions'[e] = [state |-> "prepared", resultKind |-> kind, roundId |-> r, participantId |-> p,
                          context |-> ctx, ackState |-> None]
    BY <1>1, <1>8 DEF AddExecution
  <2>2. QED
    BY <1>2, <2>1
<1>9. \/ UNCHANGED executions
      \/ \E e \in ExecutionIds :
           /\ \A x \in ExecutionIds \ {e} : executions'[x] = executions[x]
           /\ executions'[e].ackState = "pending" => executions'[e].state \in {"committed", "discarded"}
  <2>1. ASSUME NEW e \in ExecutionIds, NEW row, executions' = [executions EXCEPT ![e] = row]
        PROVE  \A x \in ExecutionIds \ {e} : executions'[x] = executions[x]
    BY <1>1, <2>1
  <2>2. CASE UNCHANGED executions
    BY <2>2
  <2>3. CASE \E e \in ExecutionIds, state \in {"committed", "discarded"} : Persist(e, state)
    <3>1. PICK e \in ExecutionIds, state \in {"committed", "discarded"} : Persist(e, state)
      BY <2>3
    <3>2. executions'[e].state \in {"committed", "discarded"}
      BY <1>4, <3>1
    <3>3. \E row : executions' = [executions EXCEPT ![e] = row]
      BY <3>1 DEF Persist
    <3>4. QED
      BY <2>1, <3>2, <3>3
  <2>4. CASE \E e \in ExecutionIds, state \in FailureStates :
               executions' = [executions EXCEPT ![e].state = state, ![e].ackState = None]
    BY <1>5, <2>1, <2>4
  <2>5. CASE \E e \in ExecutionIds, state \in LiveStates :
               Live(e) /\ executions' = [executions EXCEPT ![e].state = state]
    BY <1>6, <2>1, <2>5
  <2>6. CASE \E e \in ExecutionIds, ack \in {"acknowledged", "expired"} :
               executions' = [executions EXCEPT ![e].ackState = ack]
    BY <1>7, <2>1, <2>6
  <2>7. CASE \E e \in ExecutionIds : \E kind, r, p, ctx : AddExecution(e, kind, r, p, ctx)
    <3>1. PICK e \in ExecutionIds : \E kind, r, p, ctx : AddExecution(e, kind, r, p, ctx)
      BY <2>7
    <3>2. executions'[e].ackState # "pending"
      BY <1>8, <3>1
    <3>3. \E row : executions' = [executions EXCEPT ![e] = row]
      BY <3>1 DEF AddExecution
    <3>4. QED
      BY <2>1, <3>2, <3>3
  <2>8. QED
    BY <2>2, <2>3, <2>4, <2>5, <2>6, <2>7 DEF RowsMove
<1>10. CASE UNCHANGED executions
  BY <1>10 DEF Persisted
<1>11. CASE \E e \in ExecutionIds :
              /\ \A x \in ExecutionIds \ {e} : executions'[x] = executions[x]
              /\ executions'[e].ackState = "pending" => executions'[e].state \in {"committed", "discarded"}
  BY <1>3, <1>11
<1>12. QED
  BY <1>9, <1>10, <1>11 DEF Persisted

\* A persisted row keeps its verdict, whatever happens to its ACK.
LEMMA PersistedStays ==
  ASSUME Inv, [Next]_vars, NEW e \in ExecutionIds, Persisted(e)
  PROVE  Persisted(e)' /\ executions'[e].state = executions[e].state
<1>1. VerdictsStand \/ UNCHANGED vars
  BY NextStands
<1>2. CASE VerdictsStand
  <2>1. executions[e] \in Executions /\ executions'[e] \in Executions
    BY NextInv DEF Inv, Typed, TypeOK, RowsType
  <2>2. [executions'[e] EXCEPT !.ackState = None] = [executions[e] EXCEPT !.ackState = None]
    BY <1>2 DEF VerdictsStand, ExecutionStands, Persisted, FailureStates
  <2>3. /\ [executions'[e] EXCEPT !.ackState = None].state = executions'[e].state
        /\ [executions[e] EXCEPT !.ackState = None].state = executions[e].state
    BY <2>1 DEF Executions
  <2>4. QED
    BY <2>2, <2>3 DEF Persisted
<1>3. QED
  BY <1>1, <1>2 DEF vars, Persisted

\* After its transaction the result is in the row: committed, or discarded.
LEMMA ResultIsPersisted ==
  ASSUME Inv, NEW t, NEW e \in ExecutionIds, CommitOf(t, e) \/ DiscardExecution(t, e)
  PROVE  Persisted(e)'
<1>1. \E state \in {"committed", "discarded"} : Persist(e, state)
  BY DEF CommitOf, CommitModelMessage, CommitFocusMessage, CommitSummary, CommitReport,
         DiscardExecution, DiscardLockedExecution
<1>2. executions \in [ExecutionIds -> Executions]
  BY DEF Inv, Typed, TypeOK, RowsType
<1>3. QED
  BY <1>1, <1>2 DEF Persist, Persisted, Executions

\* The four parts of AckInv after a step that keeps what is told.
LEMMA AckKept ==
  ASSUME PageInv, AckInv, [Next]_vars,
         \A k \in Tasks : task'[k].pc = "ack" =>
           \/ task[k].pc = "ack" /\ task'[k].e = task[k].e
           \/ executions'[task'[k].e].state \in {"committed", "discarded"},
         \A p \in Pages : view'[p].audit = "acks" =>
           \/ view[p].audit = "acks" /\ view'[p].list \subseteq view[p].list
           \/ view'[p].list \subseteq PendingAcks,
         \A e \in ExecutionIds : \/ turns'[e].ack = turns[e].ack
                                 \/ Persisted(e) /\ turns'[e].ack = executions[e].state
  PROVE  AckInv'
<1>1. Inv /\ TasksOK /\ ViewsOK
  BY DEF PageInv, StoreInv
<1>2. \A e \in ExecutionIds :
        executions'[e].ackState = "pending" => executions'[e].state \in {"committed", "discarded"}
  BY <1>1, NextMovesRows, PendingIsPersisted DEF AckInv
<1>3. \A e \in ExecutionIds : Persisted(e) => Persisted(e)' /\ executions'[e].state = executions[e].state
  BY <1>1, PersistedStays
<1>4. \A k \in Tasks : task'[k].pc = "ack" => executions'[task'[k].e].state \in {"committed", "discarded"}
  <2>1. \A k \in Tasks : task[k].pc = "ack" => task[k].e \in ExecutionIds
    BY <1>1 DEF TasksOK, TaskOK, CallPcs
  <2>2. ASSUME NEW k \in Tasks, task'[k].pc = "ack"
        PROVE  executions'[task'[k].e].state \in {"committed", "discarded"}
    <3>1. CASE task[k].pc = "ack" /\ task'[k].e = task[k].e
      <4>1. task[k].e \in ExecutionIds /\ Persisted(task[k].e)
        BY <2>1, <3>1 DEF AckInv
      <4>2. executions'[task[k].e].state = executions[task[k].e].state
        BY <1>3, <4>1
      <4>3. QED
        BY <3>1, <4>1, <4>2 DEF Persisted
    <3>2. QED
      BY <2>2, <3>1
  <2>3. QED
    BY <2>2
<1>5. \A p \in Pages : view'[p].audit = "acks" =>
        \A e \in view'[p].list : executions'[e].state \in {"committed", "discarded"}
  <2>1. \A p \in Pages : view[p].list \subseteq ExecutionIds
    BY <1>1 DEF ViewsOK, ViewOK, Views
  <2>2. \A e \in PendingAcks : e \in ExecutionIds /\ Persisted(e)
    BY DEF PendingAcks, AckInv
  <2>3. QED
    BY <1>3, <2>1, <2>2 DEF AckInv, Persisted
<1>6. \A e \in ExecutionIds : turns'[e].ack # None =>
        executions'[e].state \in {"committed", "discarded"} /\ turns'[e].ack = executions'[e].state
  BY <1>3 DEF AckInv, Persisted
<1>7. QED
  BY <1>2, <1>4, <1>5, <1>6 DEF AckInv, Persisted

LEMMA AckFields ==
  ASSUME HostOK, NEW p, NEW b, NEW e, NEW t, Cancel(p, b, e, t)
  PROVE  \A d \in ExecutionIds : turns'[d].ack = turns[d].ack /\ turns'[d].b = turns[d].b
BY DEF Cancel, HostOK, TurnRows

LEMMA ClosedFields ==
  ASSUME HostOK, NEW open, turns' = ClosedTurns(open)
  PROVE  \A d \in ExecutionIds : turns'[d].ack = turns[d].ack /\ turns'[d].b = turns[d].b
BY DEF ClosedTurns, HostOK, TurnRows

\* Only Ack and the audit's resend tell the Host anything of a result.
LEMMA AcksOfTasks ==
  ASSUME PageInv, NEW k \in Tasks, TaskStep(k), ~ Ack(k)
  PROVE  \A e \in ExecutionIds : turns'[e].ack = turns[e].ack
<1>1. HostOK /\ turns \in [ExecutionIds -> TurnRows]
  BY DEF PageInv, HostOK
<1>2. CASE UNCHANGED <<host, origin>>
  BY <1>2 DEF host
<1>3. CASE OpenScope(k)
  BY <1>3, ZenonT(60) DEF OpenScope, CreateScope, host
<1>4. CASE ActivateScope(k) \/ CloseReleased(k)
  <2>1. UNCHANGED host \/ \E b, t : CloseScope(task[k].page, b, t)
    BY <1>4 DEF ActivateScope, CloseReleased
  <2>2. UNCHANGED turns \/ \E b : turns' = ClosedTurns(BindingIds \ {b})
    BY <2>1 DEF CloseScope, host
  <2>3. QED
    BY <1>1, <2>2, ClosedFields
<1>5. CASE RotateClose(k)
  <2>1. UNCHANGED host \/ \E b, t : CloseScope(task[k].page, b, t)
    BY <1>5 DEF RotateClose
  <2>2. UNCHANGED turns \/ \E b : turns' = ClosedTurns(BindingIds \ {b})
    BY <2>1 DEF CloseScope, host
  <2>3. QED
    BY <1>1, <2>2, ClosedFields
<1>6. CASE Execute(k)
  BY <1>1, <1>6 DEF Execute, TurnRows
<1>7. CASE MarkDispatched(k)
  BY <1>7 DEF MarkDispatched, host
<1>8. CASE Refused(k) \/ LoseTurn(k) \/ CancelTurn(k)
  <2>1. turns' = turns \/ \E p, b, e, t : Cancel(p, b, e, t)
    BY <1>8 DEF Refused, LoseTurn, CancelTurn, GiveUp
  <2>2. QED
    BY <1>1, <2>1, AckFields
<1>9. QED
  BY <1>2, <1>3, <1>4, <1>5, <1>6, <1>7, <1>8, TaskStepHost DEF AtHost

\* Where an intent goes on.
LEMMA Goes ==
  ASSUME TasksOK, NEW k \in Tasks
  PROVE  /\ End(k) => task'[k] = Idle /\ task'[k].pc = "idle"
         /\ \A pc : Go(k, pc) => task'[k].pc = pc /\ task'[k].e = task[k].e
         /\ \A pc : Continue(k, pc) => task'[k].pc = pc
         /\ \A p, pc : Started(k, p, pc) => task'[k].pc = pc
         /\ \A pc, kind, r, p, retry : Turn(k, pc, kind, r, p, retry) => task'[k].pc = pc
         /\ \A b, t : Ensured(k, b, t) => task'[k].pc = task[k].ret
<1>1. task[k] \in TasksOf(task[k].p) /\ task = [j \in Tasks |-> task[j]]
  BY DEF TasksOK, TaskOK
<1>2. End(k) => task'[k] = Idle /\ task'[k].pc = "idle"
  BY <1>1, IdleOK DEF End
<1>3. \A pc : Go(k, pc) => task'[k].pc = pc /\ task'[k].e = task[k].e
  BY <1>1 DEF Go, TasksOf
<1>4. \A pc : Continue(k, pc) => task'[k].pc = pc
  BY <1>1 DEF Continue, Idle
<1>5. \A p, pc : Started(k, p, pc) => task'[k].pc = pc
  BY <1>1 DEF Started, Idle
<1>6. \A pc, kind, r, p, retry : Turn(k, pc, kind, r, p, retry) => task'[k].pc = pc
  BY <1>1 DEF Turn, Idle
<1>7. \A b, t : Ensured(k, b, t) => task'[k].pc = task[k].ret
  BY <1>1 DEF Ensured, TasksOf
<1>8. QED
  BY <1>2, <1>3, <1>4, <1>5, <1>6, <1>7

LEMMA EnsureThrewGoes ==
  ASSUME TasksOK, NEW k \in Tasks, EnsureThrew(k)
  PROVE  task'[k].pc \in {"pause", "idle"}
BY Goes DEF EnsureThrew

LEMMA BeginRoundGoes ==
  ASSUME TasksOK, NEW k \in Tasks, NEW p, BeginRound(k, p)
  PROVE  task'[k].pc \in {"ensure", "create"}
<1>1. task = [j \in Tasks |-> task[j]]
  BY DEF TasksOK
<1>2. QED
  BY <1>1 DEF BeginRound, Idle

LEMMA AfterAckGoes ==
  ASSUME TasksOK, NEW k \in Tasks, AfterAck(k)
  PROVE  task'[k].pc \in {"idle", "begin", "loop"}
BY Goes DEF AfterAck

LEMMA ScopeStepGoes ==
  ASSUME TasksOK, NEW k \in Tasks, ScopeStep(k)
  PROVE  task'[k].pc \in {"bind", "host", "activate", "create", "probe", "conclude", "pause", "idle"}
<1>1. task[k] \in TasksOf(task[k].p) /\ TaskOK(task[k]) /\ task = [j \in Tasks |-> task[j]]
  BY DEF TasksOK, TaskOK
<1>2. task[k].pc \in ScopePcs
  BY DEF ScopeStep, EnsureScope, BindScope, OpenScope, ActivateScope, At, ScopePcs
<1>3. task[k].ret \in {"create", "probe", "conclude"}
  BY <1>1, <1>2 DEF TaskOK
<1>4. CASE EnsureScope(k)
  BY <1>3, <1>4, Goes, EnsureThrewGoes DEF EnsureScope
<1>5. CASE BindScope(k)
  <2>1. EnsureThrew(k) \/ \E b : task' = [task EXCEPT ![k].pc = "host", ![k].b = b]
    BY <1>5 DEF BindScope
  <2>2. ASSUME NEW b, task' = [task EXCEPT ![k].pc = "host", ![k].b = b]
        PROVE  task'[k].pc = "host"
    BY <1>1, <2>2 DEF TasksOf
  <2>3. QED
    BY <2>1, <2>2, EnsureThrewGoes
<1>6. CASE OpenScope(k)
  <2>1. EnsureThrew(k) \/ \E t : task' = [task EXCEPT ![k].pc = "activate", ![k].h = t]
    BY <1>6 DEF OpenScope
  <2>2. ASSUME NEW t, task' = [task EXCEPT ![k].pc = "activate", ![k].h = t]
        PROVE  task'[k].pc = "activate"
    BY <1>1, <2>2 DEF TasksOf
  <2>3. QED
    BY <2>1, <2>2, EnsureThrewGoes
<1>7. CASE ActivateScope(k)
  <2>1. EnsureThrew(k) \/ \E b, t : Ensured(k, b, t)
    BY <1>7 DEF ActivateScope
  <2>2. QED
    BY <1>3, <2>1, Goes, EnsureThrewGoes
<1>8. QED
  BY <1>4, <1>5, <1>6, <1>7 DEF ScopeStep

LEMMA StartStepGoes ==
  ASSUME TasksOK, NEW k \in Tasks, StartStep(k)
  PROVE  task'[k].pc \in {"idle", "ensure", "create", "seed", "prewarm", "run", "pause", "loop"}
<1>1. task[k] \in TasksOf(task[k].p) /\ task = [j \in Tasks |-> task[j]]
  BY DEF TasksOK, TaskOK
<1>2. CASE StartAgain(k)
  BY <1>2, Goes, BeginRoundGoes DEF StartAgain
<1>3. CASE CreateRoundStep(k)
  <2>1. \/ End(k)
        \/ \E r \in RoundIds : \E pc \in {"seed", "prewarm"} :
             task' = [task EXCEPT ![k].pc = pc, ![k].r = r, ![k].b = None]
    BY <1>3 DEF CreateRoundStep, Tx
  <2>2. ASSUME NEW r \in RoundIds, NEW pc \in {"seed", "prewarm"},
               task' = [task EXCEPT ![k].pc = pc, ![k].r = r, ![k].b = None]
        PROVE  task'[k].pc = pc
    BY <1>1, <2>2 DEF TasksOf
  <2>3. QED
    BY <2>1, <2>2, Goes
<1>4. CASE SeedRound(k)
  BY <1>4, Goes DEF SeedRound, Tx
<1>5. CASE Prewarm(k)
  <2>1. End(k) \/ task' = [task EXCEPT ![k].pc = "ensure", ![k].ret = "probe"]
    BY <1>5 DEF Prewarm, Tx
  <2>2. QED
    BY <1>1, <2>1, Goes DEF TasksOf
<1>6. CASE Probe(k)
  BY <1>6, Goes DEF Probe
<1>7. CASE PausePrewarm(k)
  BY <1>7, Goes DEF PausePrewarm, Tx
<1>8. CASE RunRound(k)
  BY <1>8, Goes DEF RunRound, Tx
<1>9. QED
  BY <1>2, <1>3, <1>4, <1>5, <1>6, <1>7, <1>8 DEF StartStep

\* A turn begins: its row is new, its Scope and token are those of the active binding.
LEMMA Begins ==
  ASSUME StoreInv, TasksOK, NEW k \in Tasks, BeginTurn(k), ~ (End(k) /\ UNCHANGED vars)
  PROVE  /\ task[k].pc = "begin" /\ task'[k].pc = "gate" /\ task'[k].page = task[k].page
         /\ task'[k].e \in ExecutionIds /\ executions[task'[k].e].state = "none"
         /\ task'[k].b \in ActiveBindings /\ task'[k].t = bindings[task'[k].b].token
         /\ task'[k].p = task[k].p
         /\ BeginOf(RowToken, task'[k].e, task[k].kind, task[k].r, task[k].p, task[k].ctx)
<1>1. PICK e : e = CHOOSE x \in ExecutionIds : NextExecution(x)
  OBVIOUS
<1>2. PICK b : b = CHOOSE c \in ActiveBindings : TRUE
  OBVIOUS
<1>3. PICK keep \in BOOLEAN :
        keep = (task[k].keep \/ (task[k].kind = "report" /\ room.activeRoundId # None))
  OBVIOUS
<1>4. /\ task[k].pc = "begin" /\ RowToken # None
      /\ \E x \in ExecutionIds : NextExecution(x)
      /\ BeginOf(RowToken, e, task[k].kind, task[k].r, task[k].p, task[k].ctx)
      /\ task' = [task EXCEPT ![k].pc = "gate", ![k].e = e, ![k].t = RowToken, ![k].b = b,
                              ![k].keep = keep]
  BY <1>1, <1>2, <1>3 DEF BeginTurn, At, Tx
<1>5. NextExecution(e) /\ e \in ExecutionIds
  BY <1>1, <1>4
<1>6. task[k] \in TasksOf(task[k].p) /\ task = [j \in Tasks |-> task[j]]
  BY DEF TasksOK, TaskOK
<1>7. /\ task'[k].pc = "gate" /\ task'[k].e = e /\ task'[k].t = RowToken /\ task'[k].b = b
      /\ task'[k].p = task[k].p /\ task'[k].page = task[k].page
  BY <1>4, <1>6 DEF TasksOf
<1>8. b \in ActiveBindings /\ RowToken = bindings[b].token
  BY <1>2, <1>4, RowTokenIsHeld
<1>9. QED
  BY <1>4, <1>5, <1>7, <1>8 DEF NextExecution

LEMMA TurnStepGoes ==
  ASSUME StoreInv, TasksOK, NEW k \in Tasks, TurnStep(k) \/ LoseTurn(k)
  PROVE  task'[k].pc \in {"idle", "begin", "gate", "execute", "mark", "refused", "follow"}
<1>1. task[k] \in TasksOf(task[k].p) /\ task = [j \in Tasks |-> task[j]]
  BY DEF TasksOK, TaskOK
<1>2. CASE RunLoop(k)
  BY <1>2, Goes DEF RunLoop
<1>3. CASE BeginTurn(k)
  BY <1>3, Goes, Begins
<1>4. CASE Gate(k)
  BY <1>4, Goes DEF Gate, Tx
<1>5. CASE Execute(k)
  BY <1>5, Goes DEF Execute
<1>6. CASE MarkDispatched(k)
  BY <1>6, Goes DEF MarkDispatched
<1>7. CASE Refused(k) \/ LoseTurn(k)
  BY <1>7, Goes DEF Refused, LoseTurn, GiveUp, Tx
<1>8. QED
  BY <1>2, <1>3, <1>4, <1>5, <1>6, <1>7 DEF TurnStep

LEMMA OtherStepGoes ==
  ASSUME TasksOK, NEW k \in Tasks, TerminalStep(k) \/ IntentStep(k), ~ PersistResult(k)
  PROVE  task'[k].pc \in {"idle", "commit", "begin", "loop", "rotateClose", "start"}
<1>1. task[k] \in TasksOf(task[k].p) /\ task = [j \in Tasks |-> task[j]]
  BY DEF TasksOK, TaskOK
<1>2. CASE Succeeded(k)
  BY <1>2, Goes DEF Succeeded
<1>3. CASE Ack(k)
  BY <1>3, AfterAckGoes DEF Ack
<1>4. CASE UserCancelled(k) \/ FailTurn(k)
  BY <1>4, Goes DEF UserCancelled, FailTurn, Tx
<1>5. CASE RetryOnce(k)
  <2>1. End(k) \/ task' = [task EXCEPT ![k].pc = "begin", ![k].retry = TRUE, ![k].e = None, ![k].keep = FALSE]
    BY <1>5 DEF RetryOnce, Tx
  <2>2. QED
    BY <1>1, <2>1, Goes DEF TasksOf
<1>6. CASE CancelTurn(k) \/ CloseReleased(k)
  BY <1>6, Goes DEF CancelTurn, CloseReleased
<1>7. CASE AbortStep(k)
  BY <1>7, Goes DEF AbortStep, Tx
<1>8. CASE RotateClose(k)
  BY <1>8, Goes DEF RotateClose
<1>9. CASE Conclude(k)
  <2>1. PICK r : r = CHOOSE n \in {q \in RoundIds : rounds[q].phase = "completed"} :
                       \A q \in {x \in RoundIds : rounds[x].phase = "completed"} : q <= n
    OBVIOUS
  <2>2. PICK c : c = [Idle EXCEPT !.pc = "begin", !.page = task[k].page, !.kind = "report", !.r = r,
                                  !.p = Facilitator, !.ctx = RoomContext, !.keep = TRUE]
    OBVIOUS
  <2>3. c.pc = "begin"
    BY <2>2 DEF Idle
  <2>4. End(k) \/ task' = [task EXCEPT ![k] = c]
    BY <1>9, <2>1, <2>2, Zenon DEF Conclude
  <2>5. QED
    BY <1>1, <2>3, <2>4, Goes
<1>10. QED
  BY <1>2, <1>3, <1>4, <1>5, <1>6, <1>7, <1>8, <1>9 DEF TerminalStep, IntentStep

LEMMA UserStepGoes ==
  ASSUME TasksOK, NEW k \in Tasks, NEW p \in Pages, UserStep(k, p)
  PROVE  \/ UNCHANGED task
         \/ /\ task[k].pc = "idle"
            /\ task'[k].pc \in {"ensure", "create", "cancel", "loop", "abort", "rotate", "begin", "close", "conclude"}
<1>1. task = [j \in Tasks |-> task[j]]
  BY DEF TasksOK
<1>2. task[k].pc = "idle"
  BY DEF UserStep, StartRound, PauseRoom, ResumeRoom, CancelActiveExecution, AbortPausedRound, RotateScope,
         EndPausedRound, RetryParticipant, SkipFailedParticipant, SendUserMessage, ReleaseRoom, ConcludeRoom,
         Intent, At
<1>3. CASE StartRound(k, p)
  BY <1>2, <1>3, BeginRoundGoes DEF StartRound
<1>4. CASE \/ PauseRoom(k, p) \/ ResumeRoom(k, p) \/ CancelActiveExecution(k, p)
           \/ SkipFailedParticipant(k, p)
  BY <1>2, <1>4, Goes DEF PauseRoom, ResumeRoom, CancelActiveExecution, SkipFailedParticipant
<1>5. ASSUME NEW pc, EndPausedRound(k, p, pc)
      PROVE  task'[k].pc = pc
  BY <1>1, <1>5 DEF EndPausedRound, Idle
<1>6. CASE RetryParticipant(k, p)
  BY <1>1, <1>2, <1>6 DEF RetryParticipant, Idle
<1>7. CASE SendUserMessage(k, p)
  BY <1>7 DEF SendUserMessage
<1>8. CASE ReleaseRoom(k, p)
  BY <1>1, <1>2, <1>8 DEF ReleaseRoom, Idle
<1>9. CASE ConcludeRoom(k, p)
  BY <1>1, <1>2, <1>9 DEF ConcludeRoom, Idle
<1>10. QED
  BY <1>2, <1>3, <1>4, <1>5, <1>6, <1>7, <1>8, <1>9 DEF UserStep, AbortPausedRound, RotateScope

\* An intent writes its own locals only.
LEMMA OnlyOwnTask ==
  ASSUME StoreInv, TasksOK, NEW k \in Tasks, TaskStep(k)
  PROVE  \A j \in Tasks : j # k => task'[j] = task[j]
<1>1. \/ \E c : task' = [task EXCEPT ![k] = c]
      \/ CreateRoundStep(k) \/ SeedRound(k) \/ Prewarm(k) \/ Probe(k) \/ PausePrewarm(k) \/ RunRound(k)
  <2>1. Drives(k) => \E c : task' = [task EXCEPT ![k] = c]
    BY DEF Drives, Hands
  <2>2. QED
    BY <2>1, ScopeStepDrives, StartStepDrives, RunLoopDrives, BeginTurnDrives, TurnStepDrives,
       TerminalStepDrives, IntentStepDrives DEF TaskStep, StartStep, TurnStep
<1>2. CASE CreateRoundStep(k) \/ SeedRound(k) \/ Prewarm(k) \/ Probe(k) \/ PausePrewarm(k) \/ RunRound(k)
  BY <1>2 DEF CreateRoundStep, SeedRound, Prewarm, Probe, PausePrewarm, RunRound, Tx, Go, End, Continue, TasksOK
<1>3. QED
  BY <1>1, <1>2 DEF TasksOK

LEMMA OnlyOwnTaskOfUser ==
  ASSUME StoreInv, TasksOK, NEW k \in Tasks, NEW p \in Pages, UserStep(k, p)
  PROVE  \A j \in Tasks : j # k => task'[j] = task[j]
<1>1. UNCHANGED task \/ Hands(k)
  BY UserStepDrives DEF Drives
<1>2. QED
  BY <1>1 DEF Hands, TasksOK

LEMMA TaskStepAcks ==
  ASSUME PageInv, AckInv, NEW k \in Tasks, TaskStep(k)
  PROVE  AckInv'
<1>1. /\ StoreInv /\ TasksOK /\ OpeningRounds /\ HostOK /\ Inv /\ TaskOK(task[k])
      /\ turns \in [ExecutionIds -> TurnRows]
  BY DEF PageInv, StoreInv, TasksOK, HostOK
<1>2. [Next]_vars /\ TasksOK' /\ UNCHANGED view
  BY <1>1, TaskStepKeeps, TaskStepHost DEF pages
<1>3. \A j \in Tasks : j # k => task'[j] = task[j]
  BY <1>1, OnlyOwnTask
<1>4. task'[k].pc = "ack" => executions'[task'[k].e].state \in {"committed", "discarded"}
  <2>1. CASE PersistResult(k)
    <3>1. PICK e : e = task[k].e
      OBVIOUS
    <3>2. e \in ExecutionIds
      BY <1>1, <2>1, <3>1 DEF PersistResult, At, TaskOK, CallPcs
    <3>3. \/ End(k)
          \/ Go(k, "ack") /\ (CommitOf(task[k].t, e) \/ DiscardExecution(task[k].t, e))
      BY <2>1, <3>1 DEF PersistResult, Tx
    <3>4. CASE End(k)
      BY <1>1, <3>4, Goes
    <3>5. CASE Go(k, "ack") /\ (CommitOf(task[k].t, e) \/ DiscardExecution(task[k].t, e))
      <4>1. Persisted(e)'
        BY <1>1, <3>2, <3>5, ResultIsPersisted
      <4>2. task'[k].e = e
        BY <1>1, <3>1, <3>5, Goes
      <4>3. QED
        BY <4>1, <4>2 DEF Persisted
    <3>6. QED
      BY <3>3, <3>4, <3>5
  <2>2. CASE ~ PersistResult(k)
    BY <1>1, <2>2, ScopeStepGoes, StartStepGoes, TurnStepGoes, OtherStepGoes DEF TaskStep
  <2>3. QED
    BY <2>1, <2>2
<1>5. \A e \in ExecutionIds : \/ turns'[e].ack = turns[e].ack
                              \/ Persisted(e) /\ turns'[e].ack = executions[e].state
  <2>1. CASE Ack(k)
    <3>1. task[k].pc = "ack" /\ task[k].e \in ExecutionIds
      BY <1>1, <2>1 DEF Ack, At, TaskOK, CallPcs
    <3>2. Persisted(task[k].e)
      BY <3>1 DEF AckInv
    <3>3. turns' = turns \/ turns' = [turns EXCEPT ![task[k].e].ack = executions[task[k].e].state]
      BY <2>1 DEF Ack
    <3>4. QED
      BY <1>1, <3>1, <3>2, <3>3 DEF TurnRows
  <2>2. QED
    BY <2>1, AcksOfTasks
<1>6. \A j \in Tasks : task'[j].pc = "ack" =>
        \/ task[j].pc = "ack" /\ task'[j].e = task[j].e
        \/ executions'[task'[j].e].state \in {"committed", "discarded"}
  BY <1>3, <1>4
<1>7. QED
  BY <1>2, <1>5, <1>6, AckKept

LEMMA UserStepAcks ==
  ASSUME PageInv, AckInv, NEW k \in Tasks, NEW p \in Pages, UserStep(k, p)
  PROVE  AckInv'
<1>1. StoreInv /\ TasksOK /\ OpeningRounds
  BY DEF PageInv
<1>2. [Next]_vars /\ UNCHANGED <<view, turns>>
  BY <1>1, UserStepKeeps, UserStepHost DEF pages, host
<1>3. \A j \in Tasks : j # k => task'[j] = task[j]
  BY <1>1, OnlyOwnTaskOfUser
<1>4. task'[k] = task[k] \/ task'[k].pc # "ack"
  BY <1>1, UserStepGoes
<1>5. \A j \in Tasks : task'[j].pc = "ack" => task[j].pc = "ack" /\ task'[j].e = task[j].e
  BY <1>3, <1>4
<1>6. QED
  BY <1>2, <1>5, AckKept

\* The audit asks for the ACKs of rows that are pending when it lists them.
LEMMA PageStepLists ==
  ASSUME PageInv, NEW q \in Pages, PageStep(q) \/ LeaveRoom(q) \/ StealLock(q)
  PROVE  \A p \in Pages : view'[p].audit = "acks" =>
           \/ view[p].audit = "acks" /\ view'[p].list \subseteq view[p].list
           \/ view'[p].list \subseteq PendingAcks
<1> DEFINE Lists(p) == view'[p].audit = "acks" =>
                         \/ view[p].audit = "acks" /\ view'[p].list \subseteq view[p].list
                         \/ view'[p].list \subseteq PendingAcks
<1>1. ViewsOK
  BY DEF PageInv
<1>2. ASSUME Sees(q), Lists(q)
      PROVE  \A p \in Pages : Lists(p)
  BY <1>1, <1>2 DEF Sees, ViewsOK
<1>3. ASSUME NEW ch, See(q, ch), "audit" \notin DOMAIN ch,
             "list" \in DOMAIN ch => ch.list \subseteq view[q].list
      PROVE  \A p \in Pages : Lists(p)
  <2>1. view'[q].audit = view[q].audit /\ view'[q].list \subseteq view[q].list /\ Sees(q)
    BY <1>1, <1>3, SeenFields, SeeFields
  <2>2. QED
    BY <1>2, <2>1
<1>4. ASSUME NEW ch, Audit(q, ch), DOMAIN ch \subseteq {"list", "probe"},
             "list" \in DOMAIN ch => ch.list \subseteq view[q].list
      PROVE  \A p \in Pages : Lists(p)
  <2>1. view'[q].audit = view[q].audit /\ view'[q].list \subseteq view[q].list /\ Sees(q)
    BY <1>1, <1>4, AuditFields
  <2>2. QED
    BY <1>2, <2>1
<1>5. ASSUME NEW outcome \in {"done", "aborted"}, EndAudit(q, outcome)
      PROVE  \A p \in Pages : Lists(p)
  <2>1. PICK ch : ch = [audit |-> outcome, list |-> {}, probe |-> None, auditLock |-> FALSE]
    OBVIOUS
  <2>2. See(q, ch)
    BY <1>5, <2>1 DEF EndAudit
  <2>3. "audit" \in DOMAIN ch /\ ch.audit = outcome
    BY <2>1
  <2>4. view'[q].audit = outcome /\ Sees(q)
    BY <1>1, <2>2, <2>3, SeenFields, SeeFields
  <2>5. QED
    BY <1>2, <2>4
<1>6. ASSUME NEW rows \in SUBSET ExecutionIds, See(q, NextScan(rows))
      PROVE  \A p \in Pages : Lists(p)
  <2>1. PICK ch : ch = NextScan(rows)
    OBVIOUS
  <2>2. /\ "audit" \in DOMAIN ch /\ "list" \in DOMAIN ch
        /\ ch.audit = "acks" => ch.list = PendingAcks
    BY <2>1 DEF NextScan
  <2>3. view'[q].audit = ch.audit /\ view'[q].list = ch.list /\ Sees(q)
    BY <1>1, <1>6, <2>1, <2>2, SeenFields, SeeFields
  <2>4. QED
    BY <1>2, <2>2, <2>3
<1>7. CASE OpenRoom(q) \/ GetLock(q) \/ LeaveRoom(q) \/ StealLock(q)
  <2>1. PICK ch : See(q, ch) /\ DOMAIN ch \subseteq {"ctl", "holds"}
    BY <1>7 DEF OpenRoom, GetLock, LeaveRoom, StealLock
  <2>2. QED
    BY <1>3, <2>1
<1>8. CASE TakeOver(q)
  <2>1. PICK ch, b, t : /\ See(q, ch)
                        /\ \/ ch = [ctl |-> "controlling"] \/ ch = [ctl |-> "failed"]
                           \/ ch = [ctl |-> "adopt", b |-> b, t |-> t]
                           \/ ch = [ctl |-> "lost", b |-> b, todo |-> LiveRows]
    BY <1>8 DEF TakeOver
  <2>2. DOMAIN ch \subseteq {"ctl", "b", "t", "todo"}
    BY <2>1
  <2>3. QED
    BY <1>3, <2>1, <2>2
<1>9. CASE Adopt(q) \/ SettleLost(q)
  <2>1. PICK ch, e : /\ See(q, ch)
                     /\ \/ ch = [ctl |-> "controlling", b |-> None, t |-> None]
                        \/ ch = [ctl |-> "failed", b |-> None, t |-> None]
                        \/ ch = [ctl |-> "failed", b |-> None, todo |-> {}]
                        \/ ch = [todo |-> view[q].todo \ {e}]
                        \/ ch = [ctl |-> "controlling", b |-> None]
    BY <1>9 DEF Adopt, SettleLost
  <2>2. DOMAIN ch \subseteq {"ctl", "b", "t", "todo"}
    BY <2>1
  <2>3. QED
    BY <1>3, <2>1, <2>2
<1>10. CASE AuditStart(q)
  BY <1>5, <1>6, <1>10 DEF AuditStart, LiveRows
<1>11. CASE AuditQuery(q)
  <2>1. PICK e \in view[q].list :
          \/ See(q, [list |-> view[q].list \ {e}])
          \/ Audit(q, [list |-> view[q].list \ {e}])
          \/ Audit(q, [probe |-> e])
          \/ EndAudit(q, "aborted")
    BY <1>11 DEF AuditQuery
  <2>2. QED
    BY <1>3, <1>4, <1>5, <2>1
<1>12. CASE AuditSettle(q)
  <2>1. PICK e, ch : /\ EndAudit(q, "aborted") \/ See(q, ch)
                     /\ ch = [list |-> view[q].list \ {e}, probe |-> None]
    BY <1>12 DEF AuditSettle
  <2>2. DOMAIN ch = {"list", "probe"} /\ ch.list \subseteq view[q].list
    BY <2>1
  <2>3. QED
    BY <1>3, <1>5, <2>1, <2>2
<1>13. CASE AuditRowsDone(q) \/ AuditDone(q)
  BY <1>5, <1>6, <1>13 DEF AuditRowsDone, AuditDone
<1>14. CASE ResendAck(q)
  <2>1. PICK e \in view[q].list :
          \/ See(q, [list |-> view[q].list \ {e}])
          \/ Audit(q, [list |-> view[q].list \ {e}])
    BY <1>14 DEF ResendAck
  <2>2. QED
    BY <1>3, <1>4, <2>1
<1>15. QED
  BY <1>7, <1>8, <1>9, <1>10, <1>11, <1>12, <1>13, <1>14 DEF PageStep

LEMMA PageStepAcks ==
  ASSUME PageInv, AckInv, NEW q \in Pages, PageStep(q) \/ LeaveRoom(q) \/ StealLock(q)
  PROVE  AckInv'
<1>1. HostOK /\ turns \in [ExecutionIds -> TurnRows] /\ ViewsOK
  BY DEF PageInv, HostOK
<1>2. UNCHANGED task /\ [Next]_vars
  BY PageStepBehaves, LeaveBehaves, CallsAreNext DEF Behaves
<1>3. \A e \in ExecutionIds : \/ turns'[e].ack = turns[e].ack
                              \/ Persisted(e) /\ turns'[e].ack = executions[e].state
  <2>1. CASE ResendAck(q)
    <3>1. PICK e \in view[q].list :
            turns' = turns \/ turns' = [turns EXCEPT ![e].ack = executions[e].state]
      BY <2>1 DEF ResendAck
    <3>2. view[q].audit = "acks" /\ e \in ExecutionIds
      BY <1>1, <2>1 DEF ResendAck, ViewsOK, ViewOK, Views
    <3>3. Persisted(e)
      BY <3>2 DEF AckInv
    <3>4. QED
      BY <1>1, <3>1, <3>2, <3>3 DEF TurnRows
  <2>2. CASE AuditQuery(q)
    <3>1. turns' = turns \/ \E p, b, e, t : Cancel(p, b, e, t)
      BY <2>2 DEF AuditQuery
    <3>2. QED
      BY <1>1, <3>1, AckFields
  <2>3. CASE TakeOver(q)
    <3>1. UNCHANGED turns
      BY <2>3 DEF TakeOver, host
    <3>2. QED
      BY <3>1
  <2>4. CASE ~ (ResendAck(q) \/ AuditQuery(q) \/ TakeOver(q))
    <3>1. UNCHANGED turns
      BY <2>4, ZenonT(60)
      DEF PageStep, OpenRoom, GetLock, Adopt, SettleLost, AuditStart, AuditSettle, AuditRowsDone, AuditDone,
          LeaveRoom, StealLock, OnlyView, host
    <3>2. QED
      BY <3>1
  <2>5. QED
    BY <2>1, <2>2, <2>3, <2>4
<1>4. \A k \in Tasks : task'[k].pc = "ack" => task[k].pc = "ack" /\ task'[k].e = task[k].e
  BY <1>2
<1>5. QED
  BY <1>2, <1>3, <1>4, PageStepLists, AckKept

LEMMA ReloadAcks ==
  ASSUME PageInv, AckInv, NEW q \in Pages, Reload(q)
  PROVE  AckInv'
<1>1. UNCHANGED <<vars, turns>> /\ ViewsOK
  BY DEF Reload, host, PageInv
<1>2. \A p \in Pages : view'[p].audit = "acks" => view[p].audit = "acks" /\ view'[p].list = view[p].list
  <2>1. Loaded.audit = "start"
    BY DEF Loaded
  <2>2. view'[q] = Loaded /\ \A p \in Pages \ {q} : view'[p] = view[p]
    BY <1>1 DEF Reload, ViewsOK
  <2>3. QED
    BY <2>1, <2>2
<1>3. \A k \in Tasks : task'[k].pc = "ack" => task[k].pc = "ack" /\ task'[k].e = task[k].e
  BY IdleOK DEF Reload
<1>4. QED
  BY <1>1, <1>2, <1>3, AckKept

LEMMA HostStepAcks ==
  ASSUME PageInv, AckInv, HostStep
  PROVE  AckInv'
<1>1. HostOK /\ turns \in [ExecutionIds -> TurnRows]
  BY DEF PageInv, HostOK
<1>2. UNCHANGED <<vars, view, task>>
  BY ZenonT(60) DEF HostStep, TurnEnds, ReapScope, RestartHost, pages
<1>3. \A e \in ExecutionIds : turns'[e].ack = turns[e].ack
  BY <1>1, ClosedFields DEF HostStep, TurnEnds, ReapScope, RestartHost, TurnRows
<1>4. QED
  BY <1>2, <1>3, AckKept

LEMMA AcksInit ==
  ASSUME OrchestratorInit
  PROVE  AckInv
<1>1. None # "pending"
  BY PhaseAssumption DEF RoundPhases
<1>2. QED
  BY <1>1, IdleOK DEF OrchestratorInit, Init, AckInv, Loaded

LEMMA AcksNext ==
  ASSUME PageInv, AckInv, [OrchestratorNext]_orchestratorVars
  PROVE  AckInv'
<1>1. CASE UNCHANGED orchestratorVars
  <2>1. UNCHANGED <<vars, turns, view, task>>
    BY <1>1 DEF orchestratorVars, host, pages
  <2>2. QED
    BY <2>1, AckKept
<1>2. QED
  BY <1>1, TaskStepAcks, UserStepAcks, PageStepAcks, ReloadAcks, HostStepAcks DEF OrchestratorNext

\* Persist before ACK, for any number of pages and intents: what the Host was told
\* of a result is what its row says and will always say, whether the page that
\* persisted it told the Host, another page's audit did, or both.
THEOREM AcksMatchRows == OrchestratorSpec => []AckMatchesRow
<1>1. PageInv /\ AckInv => AckMatchesRow
  BY DEF AckInv, AckMatchesRow
<1>2. QED
  BY <1>1, PagesInit, PagesNext, AcksInit, AcksNext, PTL DEF OrchestratorSpec

-----------------------------------------------------------------------------
(* While nobody leaves the Room or loads a page anew, one page drives it:  *)
(* the lock stays where it is, and every intent is that page's.            *)

SpentOK == spent \in [intents : Nat, restarts : Nat, reloads : Nat, handovers : Nat, lost : Nat]

\* Nobody has left the Room, taken its lock by force or reloaded a page.
Steady == spent.reloads = 0 /\ spent.handovers = 0

\* The page whose intents run is in control.
LockOK ==
  /\ \A p \in Pages :
       /\ view[p].holds \/ view[p].auditLock => lock = p
       /\ ~ (view[p].holds /\ view[p].auditLock)
       /\ view[p].ctl \notin {"off", "observing"} => view[p].holds
  /\ \A k \in Tasks : task[k].pc # "idle" => view[task[k].page].ctl = "controlling"

LEMMA SpendCounts ==
  ASSUME SpentOK, NEW what \in {"intents", "restarts", "reloads", "handovers", "lost"}, NEW max,
         Spend(what, max)
  PROVE  /\ SpentOK' /\ spent'[what] # 0
         /\ spent'.reloads = 0 => spent.reloads = 0
         /\ spent'.handovers = 0 => spent.handovers = 0
         /\ spent'.lost = 0 => spent.lost = 0 /\ what # "lost"
<1>1. spent[what] \in Nat
  BY DEF SpentOK
<1>2. spent' = [spent EXCEPT ![what] = spent[what] + 1]
  BY DEF Spend
<1>3. PICK n \in Nat : n = spent[what] + 1 /\ n # 0
  BY <1>1
<1>4. spent' = [spent EXCEPT ![what] = n]
  BY <1>2, <1>3
<1>5. QED
  BY <1>3, <1>4 DEF SpentOK

LEMMA TaskStepSpends ==
  ASSUME NEW k \in Tasks, TaskStep(k)
  PROVE  UNCHANGED spent \/ Lose
<1>1. CASE ScopeStep(k)
  BY <1>1 DEF ScopeStep, EnsureScope, BindScope, OpenScope, ActivateScope, OnlyStore
<1>2. CASE StartStep(k)
  BY <1>2 DEF StartStep, StartAgain, CreateRoundStep, SeedRound, Prewarm, Probe, PausePrewarm, RunRound,
              OnlyStore, OnlyTask
<1>3. CASE TurnStep(k)
  BY <1>3 DEF TurnStep, RunLoop, BeginTurn, Gate, Execute, MarkDispatched, Refused, OnlyStore, OnlyTask
<1>4. CASE LoseTurn(k)
  BY <1>4 DEF LoseTurn
<1>5. CASE TerminalStep(k)
  BY <1>5 DEF TerminalStep, Succeeded, PersistResult, Ack, UserCancelled, RetryOnce, FailTurn, OnlyStore
<1>6. CASE IntentStep(k)
  BY <1>6 DEF IntentStep, CancelTurn, AbortStep, RotateClose, CloseReleased, Conclude, OnlyStore, OnlyTask
<1>7. QED
  BY <1>1, <1>2, <1>3, <1>4, <1>5, <1>6 DEF TaskStep

LEMMA UserStepSpends ==
  ASSUME NEW k \in Tasks, NEW p \in Pages, UserStep(k, p)
  PROVE  Spend("intents", MaxIntents) /\ view[p].ctl = "controlling"
BY DEF UserStep, StartRound, PauseRoom, ResumeRoom, CancelActiveExecution, AbortPausedRound, RotateScope,
       EndPausedRound, RetryParticipant, SkipFailedParticipant, SendUserMessage, ReleaseRoom, ConcludeRoom,
       Intent

LEMMA PageStepSpends ==
  ASSUME NEW p \in Pages, PageStep(p)
  PROVE  UNCHANGED spent \/ Lose
<1>1. CASE TakeOver(p)
  BY <1>1 DEF TakeOver
<1>2. CASE ~ TakeOver(p)
  BY <1>2, ZenonT(60)
  DEF PageStep, OpenRoom, GetLock, Adopt, SettleLost, AuditStart, AuditQuery, AuditSettle, AuditRowsDone,
      AuditDone, ResendAck
<1>3. QED
  BY <1>1, <1>2

\* Every count only grows, and which steps each one counts.
LEMMA Spends ==
  ASSUME SpentOK, [OrchestratorNext]_orchestratorVars
  PROVE  /\ SpentOK'
         /\ spent'.reloads = 0 => spent.reloads = 0 /\ \A p \in Pages : ~ Reload(p)
         /\ spent'.handovers = 0 =>
              spent.handovers = 0 /\ \A p \in Pages : ~ LeaveRoom(p) /\ ~ StealLock(p)
         /\ spent'.lost = 0 => spent.lost = 0 /\ ~ Lose
<1>1. CASE UNCHANGED spent
  <2>1. ASSUME NEW what \in {"reloads", "handovers", "lost"}, NEW max, Spend(what, max)
        PROVE  FALSE
    <3>1. spent[what] \in Nat /\ spent'[what] = spent[what] + 1
      BY <2>1 DEF SpentOK, Spend
    <3>2. QED
      BY <1>1, <3>1
  <2>2. QED
    BY <1>1, <2>1 DEF SpentOK, Reload, LeaveRoom, StealLock, Lose
<1>2. ASSUME NEW what \in {"intents", "restarts", "reloads", "handovers", "lost"}, NEW max, Spend(what, max)
      PROVE  /\ SpentOK'
             /\ spent'.reloads = 0 => spent.reloads = 0 /\ \A p \in Pages : ~ Reload(p)
             /\ spent'.handovers = 0 =>
                  spent.handovers = 0 /\ \A p \in Pages : ~ LeaveRoom(p) /\ ~ StealLock(p)
             /\ spent'.lost = 0 => spent.lost = 0 /\ ~ Lose
  <2>1. /\ (\E p \in Pages : Reload(p)) => spent'["reloads"] # 0
        /\ (\E p \in Pages : LeaveRoom(p) \/ StealLock(p)) => spent'["handovers"] # 0
        /\ Lose => spent'["lost"] # 0
    BY SpendCounts DEF Reload, LeaveRoom, StealLock, Lose
  <2>2. QED
    BY <1>2, <2>1, SpendCounts
<1>3. \/ UNCHANGED spent
      \/ \E what \in {"intents", "restarts", "reloads", "handovers", "lost"} : \E max : Spend(what, max)
  <2>1. CASE UNCHANGED orchestratorVars
    BY <2>1 DEF orchestratorVars
  <2>2. CASE HostStep
    BY <2>2 DEF HostStep, TurnEnds, ReapScope, RestartHost, Lose
  <2>3. CASE \E k \in Tasks : TaskStep(k) \/ \E p \in Pages : UserStep(k, p)
    BY <2>3, TaskStepSpends, UserStepSpends DEF Lose
  <2>4. CASE \E p \in Pages : PageStep(p) \/ Reload(p) \/ LeaveRoom(p) \/ StealLock(p)
    BY <2>4, PageStepSpends DEF Reload, LeaveRoom, StealLock, Lose
  <2>5. QED
    BY <2>1, <2>2, <2>3, <2>4 DEF OrchestratorNext
<1>4. QED
  BY <1>1, <1>2, <1>3

\* The lock after a step of a page: as it was, taken, taken for the audit, or let go.
LockMoves(p) ==
  /\ Sees(p) /\ view'[p].inst = view[p].inst
  /\ \/ view'[p].ctl \in {view[p].ctl, "controlling", "observing", "locked"}
     \/ TakeOver(p) \/ Adopt(p) \/ SettleLost(p)
  /\ \/ /\ UNCHANGED lock
        /\ view'[p].holds = view[p].holds /\ view'[p].auditLock = view[p].auditLock
        /\ \/ view'[p].ctl = view[p].ctl
           \/ /\ view[p].ctl # "controlling"
              /\ view'[p].ctl = "observing" \/ view[p].holds \/ view[p].ctl \in {"locked", "adopt", "lost"}
     \/ /\ lock = None /\ lock' = p
        /\ view'[p].holds = TRUE /\ view'[p].auditLock = view[p].auditLock
        /\ view[p].ctl # "controlling"
     \/ /\ CanAudit(p) /\ ~ view[p].holds /\ lock' = p
        /\ view'[p].auditLock = TRUE /\ view'[p].holds = view[p].holds /\ view'[p].ctl = view[p].ctl
     \/ /\ lock' = IF view[p].auditLock /\ lock = p THEN None ELSE lock
        /\ view'[p].auditLock = FALSE /\ view'[p].holds = view[p].holds /\ view'[p].ctl = view[p].ctl

\* A See of some of the audit's fields moves neither the lock nor the control.
LEMMA SeeMoves ==
  ASSUME ViewsOK, NEW p \in Pages, NEW ch, See(p, ch), DOMAIN ch \subseteq {"audit", "list", "probe"},
         UNCHANGED lock
  PROVE  LockMoves(p)
<1>1. Sees(p) /\ view'[p] = Changed(view[p], ch) /\ view[p] \in Views
  BY SeeFields
<1>2. \A f \in {"ctl", "holds", "auditLock", "inst"} : f \notin DOMAIN ch
  OBVIOUS
<1>3. /\ view'[p].ctl = view[p].ctl /\ view'[p].holds = view[p].holds
      /\ view'[p].auditLock = view[p].auditLock /\ view'[p].inst = view[p].inst
  BY <1>1, <1>2 DEF Changed, Views
<1>4. QED
  BY <1>1, <1>3 DEF LockMoves

LEMMA AuditMoves ==
  ASSUME ViewsOK, NEW p \in Pages, NEW ch, Audit(p, ch), DOMAIN ch \subseteq {"list", "probe"}, CanAudit(p)
  PROVE  LockMoves(p)
<1>1. /\ Sees(p)
      /\ view'[p].ctl = view[p].ctl /\ view'[p].holds = view[p].holds /\ view'[p].inst = view[p].inst
      /\ \/ view'[p].auditLock = view[p].auditLock /\ lock' = lock
         \/ view'[p].auditLock = TRUE /\ lock' = p /\ ~ view[p].holds
  BY AuditFields
<1>2. QED
  BY <1>1 DEF LockMoves

LEMMA EndAuditMoves ==
  ASSUME ViewsOK, NEW p \in Pages, NEW outcome, EndAudit(p, outcome)
  PROVE  LockMoves(p)
<1>1. PICK ch : ch = [audit |-> outcome, list |-> {}, probe |-> None, auditLock |-> FALSE]
  OBVIOUS
<1>2. See(p, ch) /\ lock' = IF view[p].auditLock /\ lock = p THEN None ELSE lock
  BY <1>1 DEF EndAudit
<1>3. /\ "auditLock" \in DOMAIN ch /\ ch.auditLock = FALSE
      /\ "ctl" \notin DOMAIN ch /\ "holds" \notin DOMAIN ch /\ "inst" \notin DOMAIN ch
  BY <1>1
<1>4. Sees(p)
  BY <1>2, SeeFields
<1>5. view'[p].auditLock = FALSE
  BY <1>2, <1>3, SeenFields
<1>6. view'[p].ctl = view[p].ctl /\ view'[p].holds = view[p].holds /\ view'[p].inst = view[p].inst
  BY <1>2, <1>3, SeenFields
<1>7. QED
  BY <1>2, <1>4, <1>5, <1>6 DEF LockMoves

LEMMA AuditPageMoves ==
  ASSUME ViewsOK, NEW p \in Pages,
         AuditStart(p) \/ AuditQuery(p) \/ AuditSettle(p) \/ AuditRowsDone(p) \/ ResendAck(p) \/ AuditDone(p)
  PROVE  LockMoves(p)
<1>1. \/ \E outcome : EndAudit(p, outcome)
      \/ \E rows : See(p, NextScan(rows)) /\ UNCHANGED lock
      \/ \E rows : See(p, [list |-> rows]) /\ UNCHANGED lock
      \/ \E rows : See(p, [list |-> rows, probe |-> None]) /\ UNCHANGED lock
      \/ CanAudit(p) /\ \E rows : Audit(p, [list |-> rows])
      \/ CanAudit(p) /\ \E e : Audit(p, [probe |-> e])
  BY DEF AuditStart, AuditQuery, AuditSettle, AuditRowsDone, ResendAck, AuditDone
<1>2. ASSUME NEW rows, See(p, NextScan(rows)), UNCHANGED lock
      PROVE  LockMoves(p)
  <2>1. DOMAIN NextScan(rows) = {"audit", "list"}
    BY DEF NextScan
  <2>2. QED
    BY <1>2, <2>1, SeeMoves
<1>3. ASSUME NEW rows, See(p, [list |-> rows]), UNCHANGED lock
      PROVE  LockMoves(p)
  <2>1. DOMAIN [list |-> rows] = {"list"}
    OBVIOUS
  <2>2. QED
    BY <1>3, <2>1, SeeMoves
<1>4. ASSUME NEW rows, See(p, [list |-> rows, probe |-> None]), UNCHANGED lock
      PROVE  LockMoves(p)
  <2>1. DOMAIN [list |-> rows, probe |-> None] = {"list", "probe"}
    OBVIOUS
  <2>2. QED
    BY <1>4, <2>1, SeeMoves
<1>5. ASSUME NEW rows, Audit(p, [list |-> rows]), CanAudit(p)
      PROVE  LockMoves(p)
  <2>1. DOMAIN [list |-> rows] = {"list"}
    OBVIOUS
  <2>2. QED
    BY <1>5, <2>1, AuditMoves
<1>6. ASSUME NEW e, Audit(p, [probe |-> e]), CanAudit(p)
      PROVE  LockMoves(p)
  <2>1. DOMAIN [probe |-> e] = {"probe"}
    OBVIOUS
  <2>2. QED
    BY <1>6, <2>1, AuditMoves
<1>7. QED
  BY <1>1, <1>2, <1>3, <1>4, <1>5, <1>6, EndAuditMoves

\* The fields of the control that a step changes.
LEMMA ControlMoves ==
  ASSUME ViewsOK, NEW p \in Pages, NEW ch, See(p, ch), DOMAIN ch \subseteq {"ctl", "b", "t", "todo"},
         UNCHANGED lock, view[p].ctl \in {"locked", "adopt", "lost"},
         TakeOver(p) \/ Adopt(p) \/ SettleLost(p)
  PROVE  LockMoves(p)
<1>1. Sees(p) /\ view'[p] = Changed(view[p], ch) /\ view[p] \in Views
  BY SeeFields
<1>2. \A f \in {"holds", "auditLock", "inst"} : f \notin DOMAIN ch
  OBVIOUS
<1>3. /\ view'[p].holds = view[p].holds
      /\ view'[p].auditLock = view[p].auditLock /\ view'[p].inst = view[p].inst
  BY <1>1, <1>2 DEF Changed, Views
<1>4. view[p].ctl # "controlling"
  OBVIOUS
<1>5. QED
  BY <1>1, <1>3, <1>4 DEF LockMoves

LEMMA OpenMoves ==
  ASSUME ViewsOK, NEW p \in Pages, OpenRoom(p) \/ GetLock(p)
  PROVE  LockMoves(p)
<1>1. view[p].ctl \in {"off", "observing"}
  BY DEF OpenRoom, GetLock
<1>2. CASE lock = None /\ lock' = p /\ See(p, [ctl |-> "locked", holds |-> TRUE])
  <2>1. PICK ch : ch = [ctl |-> "locked", holds |-> TRUE]
    OBVIOUS
  <2>2. /\ "holds" \in DOMAIN ch /\ ch.holds = TRUE /\ "ctl" \in DOMAIN ch /\ ch.ctl = "locked"
        /\ "auditLock" \notin DOMAIN ch /\ "inst" \notin DOMAIN ch
    BY <2>1
  <2>3. Sees(p) /\ See(p, ch)
    BY <1>2, <2>1, SeeFields
  <2>4. view'[p].holds = TRUE /\ view'[p].ctl = "locked"
    <3>1. view'[p].holds = TRUE
      BY <2>2, <2>3, SeenFields
    <3>2. view'[p].ctl = "locked"
      BY <2>2, <2>3, SeenFields
    <3>3. QED
      BY <3>1, <3>2
  <2>5. view'[p].auditLock = view[p].auditLock /\ view'[p].inst = view[p].inst
    BY <2>2, <2>3, SeenFields
  <2>6. QED
    BY <1>1, <1>2, <2>3, <2>4, <2>5 DEF LockMoves
<1>3. ASSUME NEW c \in {"controlling", "observing"}, See(p, [ctl |-> c]), UNCHANGED lock,
             c = "observing" \/ view[p].holds
      PROVE  LockMoves(p)
  <2>1. PICK ch : ch = [ctl |-> c]
    OBVIOUS
  <2>2. /\ "ctl" \in DOMAIN ch /\ ch.ctl = c
        /\ "holds" \notin DOMAIN ch /\ "auditLock" \notin DOMAIN ch /\ "inst" \notin DOMAIN ch
    BY <2>1
  <2>3. Sees(p) /\ See(p, ch)
    BY <1>3, <2>1, SeeFields
  <2>4. view'[p].ctl = c
    BY <2>2, <2>3, SeenFields
  <2>5. /\ view'[p].holds = view[p].holds /\ view'[p].auditLock = view[p].auditLock
        /\ view'[p].inst = view[p].inst
    BY <2>2, <2>3, SeenFields
  <2>6. QED
    BY <1>1, <1>3, <2>3, <2>4, <2>5 DEF LockMoves
<1>4. QED
  BY <1>2, <1>3 DEF OpenRoom, GetLock

LEMMA PageMoves ==
  ASSUME ViewsOK, NEW p \in Pages, PageStep(p)
  PROVE  LockMoves(p)
<1>1. CASE TakeOver(p)
  <2>1. PICK ch : See(p, ch) /\ DOMAIN ch \subseteq {"ctl", "b", "t", "todo"}
    <3>1. PICK b : b = CHOOSE c \in ActiveBindings : TRUE
      OBVIOUS
    <3>2. PICK t : \/ See(p, [ctl |-> "controlling"]) \/ See(p, [ctl |-> "failed"])
                   \/ See(p, [ctl |-> "adopt", b |-> b, t |-> t])
                   \/ See(p, [ctl |-> "lost", b |-> b, todo |-> LiveRows])
      BY <1>1, <3>1 DEF TakeOver
    <3>3. QED
      BY <3>2
  <2>2. UNCHANGED lock /\ view[p].ctl = "locked"
    BY <1>1 DEF TakeOver
  <2>3. QED
    BY <1>1, <2>1, <2>2, ControlMoves
<1>2. CASE Adopt(p) \/ SettleLost(p)
  <2>1. PICK ch : See(p, ch) /\ DOMAIN ch \subseteq {"ctl", "b", "t", "todo"}
    <3>1. PICK c, e : \/ See(p, [ctl |-> c, b |-> None, t |-> None])
                      \/ See(p, [ctl |-> c, b |-> None, todo |-> {}])
                      \/ See(p, [todo |-> view[p].todo \ {e}])
                      \/ See(p, [ctl |-> c, b |-> None])
      BY <1>2 DEF Adopt, SettleLost
    <3>2. QED
      BY <3>1
  <2>2. UNCHANGED lock /\ view[p].ctl \in {"adopt", "lost"}
    BY <1>2 DEF Adopt, SettleLost
  <2>3. QED
    BY <1>2, <2>1, <2>2, ControlMoves
<1>3. QED
  BY <1>1, <1>2, OpenMoves, AuditPageMoves DEF PageStep

\* The steps an intent can take where it is.
LEMMA StepsAt ==
  ASSUME NEW k \in Tasks, TaskStep(k)
  PROVE  /\ task[k].pc # "idle"
         /\ task[k].pc = "activate" => ActivateScope(k)
         /\ task[k].pc = "close" => CloseReleased(k)
         /\ task[k].pc = "mark" => MarkDispatched(k)
         /\ task[k].pc = "refused" => Refused(k)
         /\ task[k].pc = "follow" =>
              LoseTurn(k) \/ Succeeded(k) \/ UserCancelled(k) \/ RetryOnce(k) \/ FailTurn(k)
<1>1. CASE ScopeStep(k)
  <2>1. \/ task[k].pc \in {"ensure", "bind", "host"}
        \/ task[k].pc = "activate" /\ ActivateScope(k)
    BY <1>1 DEF ScopeStep, EnsureScope, BindScope, OpenScope, ActivateScope, At
  <2>2. QED
    BY <2>1
<1>2. CASE StartStep(k)
  <2>1. task[k].pc \in {"start", "create", "seed", "prewarm", "probe", "pause", "run"}
    BY <1>2 DEF StartStep, StartAgain, CreateRoundStep, SeedRound, Prewarm, Probe, PausePrewarm, RunRound, At
  <2>2. QED
    BY <2>1
<1>3. CASE TurnStep(k) \/ LoseTurn(k)
  <2>1. \/ task[k].pc \in {"loop", "begin", "gate", "execute"}
        \/ task[k].pc = "mark" /\ MarkDispatched(k)
        \/ task[k].pc = "refused" /\ Refused(k)
        \/ task[k].pc = "follow" /\ LoseTurn(k)
    BY <1>3 DEF TurnStep, RunLoop, BeginTurn, Gate, Execute, MarkDispatched, Refused, LoseTurn, At
  <2>2. QED
    BY <2>1
<1>4. CASE TerminalStep(k)
  <2>1. \/ task[k].pc \in {"commit", "ack"}
        \/ task[k].pc = "follow" /\ (Succeeded(k) \/ UserCancelled(k) \/ RetryOnce(k) \/ FailTurn(k))
    BY <1>4 DEF TerminalStep, Succeeded, PersistResult, Ack, UserCancelled, RetryOnce, FailTurn, Ended, At
  <2>2. QED
    BY <2>1
<1>5. CASE IntentStep(k)
  <2>1. \/ task[k].pc \in {"cancel", "abort", "rotate", "rotateClose", "conclude"}
        \/ task[k].pc = "close" /\ CloseReleased(k)
    BY <1>5 DEF IntentStep, CancelTurn, AbortStep, RotateClose, CloseReleased, Conclude, At
  <2>2. QED
    BY <2>1
<1>6. QED
  BY <1>1, <1>2, <1>3, <1>4, <1>5 DEF TaskStep

\* An intent stays on the page that started it.
Stays(k) == task'[k].pc = "idle" \/ task'[k].page = task[k].page

LEMMA StaysSo ==
  ASSUME TasksOK, NEW k \in Tasks
  PROVE  /\ End(k) => Stays(k)
         /\ \A pc : Go(k, pc) => Stays(k)
         /\ \A pc : Continue(k, pc) => Stays(k)
         /\ \A pc, kind, r, p, retry : Turn(k, pc, kind, r, p, retry) => Stays(k)
         /\ \A b, t : Ensured(k, b, t) => Stays(k)
         /\ EnsureThrew(k) => Stays(k)
         /\ BeginRound(k, task[k].page) => Stays(k)
         /\ AfterAck(k) => Stays(k)
<1>1. task[k] \in TasksOf(task[k].p) /\ task = [j \in Tasks |-> task[j]]
  BY DEF TasksOK, TaskOK
<1>2. End(k) => Stays(k)
  BY Goes DEF Stays
<1>3. \A pc : Go(k, pc) => Stays(k)
  BY <1>1 DEF Go, TasksOf, Stays
<1>4. \A pc : Continue(k, pc) => Stays(k)
  BY <1>1 DEF Continue, Idle, Stays
<1>5. \A pc, kind, r, p, retry : Turn(k, pc, kind, r, p, retry) => Stays(k)
  BY <1>1 DEF Turn, Idle, Stays
<1>6. \A b, t : Ensured(k, b, t) => Stays(k)
  BY <1>1 DEF Ensured, TasksOf, Stays
<1>7. BeginRound(k, task[k].page) => Stays(k)
  BY <1>1 DEF BeginRound, Idle, Stays
<1>8. QED
  BY <1>2, <1>3, <1>4, <1>5, <1>6, <1>7 DEF EnsureThrew, AfterAck

LEMMA ScopeStepStays ==
  ASSUME TasksOK, NEW k \in Tasks, ScopeStep(k)
  PROVE  Stays(k)
<1>1. task[k] \in TasksOf(task[k].p) /\ task = [j \in Tasks |-> task[j]]
  BY DEF TasksOK, TaskOK
<1>2. \/ EnsureThrew(k) \/ (\E pc : Go(k, pc)) \/ \E b, t : Ensured(k, b, t)
      \/ \E b : task' = [task EXCEPT ![k].pc = "host", ![k].b = b]
      \/ \E t : task' = [task EXCEPT ![k].pc = "activate", ![k].h = t]
  BY DEF ScopeStep, EnsureScope, BindScope, OpenScope, ActivateScope
<1>3. ASSUME NEW b, task' = [task EXCEPT ![k].pc = "host", ![k].b = b]
      PROVE  Stays(k)
  BY <1>1, <1>3 DEF TasksOf, Stays
<1>4. ASSUME NEW t, task' = [task EXCEPT ![k].pc = "activate", ![k].h = t]
      PROVE  Stays(k)
  BY <1>1, <1>4 DEF TasksOf, Stays
<1>5. QED
  BY <1>2, <1>3, <1>4, StaysSo

LEMMA StartStepStays ==
  ASSUME TasksOK, NEW k \in Tasks, StartStep(k)
  PROVE  Stays(k)
<1>1. task[k] \in TasksOf(task[k].p) /\ task = [j \in Tasks |-> task[j]]
  BY DEF TasksOK, TaskOK
<1>2. \/ End(k) \/ BeginRound(k, task[k].page) \/ (\E pc : Go(k, pc)) \/ (\E pc : Continue(k, pc))
      \/ \E pc, r : task' = [task EXCEPT ![k].pc = pc, ![k].r = r, ![k].b = None]
      \/ task' = [task EXCEPT ![k].pc = "ensure", ![k].ret = "probe"]
  BY DEF StartStep, StartAgain, CreateRoundStep, SeedRound, Prewarm, Probe, PausePrewarm, RunRound, Tx
<1>3. ASSUME NEW pc, NEW r, task' = [task EXCEPT ![k].pc = pc, ![k].r = r, ![k].b = None]
      PROVE  Stays(k)
  BY <1>1, <1>3 DEF TasksOf, Stays
<1>4. CASE task' = [task EXCEPT ![k].pc = "ensure", ![k].ret = "probe"]
  BY <1>1, <1>4 DEF TasksOf, Stays
<1>5. QED
  BY <1>2, <1>3, <1>4, StaysSo

LEMMA TurnStepStays ==
  ASSUME StoreInv, TasksOK, NEW k \in Tasks, TurnStep(k) \/ LoseTurn(k)
  PROVE  Stays(k)
<1>1. CASE BeginTurn(k)
  <2>1. CASE End(k)
    BY <2>1, StaysSo
  <2>2. CASE ~ (End(k) /\ UNCHANGED vars)
    BY <1>1, <2>2, Begins DEF Stays
  <2>3. QED
    BY <2>1, <2>2
<1>2. CASE RunLoop(k)
  BY <1>2, StaysSo DEF RunLoop
<1>3. CASE Gate(k) \/ Execute(k) \/ MarkDispatched(k)
  BY <1>3, StaysSo DEF Gate, Execute, MarkDispatched, Tx
<1>4. CASE Refused(k) \/ LoseTurn(k)
  BY <1>4, StaysSo DEF Refused, LoseTurn, GiveUp, Tx
<1>5. QED
  BY <1>1, <1>2, <1>3, <1>4 DEF TurnStep

LEMMA OtherStepStays ==
  ASSUME TasksOK, NEW k \in Tasks, TerminalStep(k) \/ IntentStep(k)
  PROVE  Stays(k)
<1>1. task[k] \in TasksOf(task[k].p) /\ task = [j \in Tasks |-> task[j]]
  BY DEF TasksOK, TaskOK
<1>2. CASE Succeeded(k) \/ PersistResult(k) \/ UserCancelled(k) \/ FailTurn(k)
  BY <1>2, StaysSo DEF Succeeded, PersistResult, UserCancelled, FailTurn, Tx
<1>3. CASE Ack(k)
  BY <1>3, StaysSo DEF Ack
<1>4. CASE RetryOnce(k)
  <2>1. End(k) \/ task' = [task EXCEPT ![k].pc = "begin", ![k].retry = TRUE, ![k].e = None, ![k].keep = FALSE]
    BY <1>4 DEF RetryOnce, Tx
  <2>2. CASE task' = [task EXCEPT ![k].pc = "begin", ![k].retry = TRUE, ![k].e = None, ![k].keep = FALSE]
    BY <1>1, <2>2 DEF TasksOf, Stays
  <2>3. QED
    BY <2>1, <2>2, StaysSo
<1>5. CASE CancelTurn(k) \/ CloseReleased(k) \/ AbortStep(k) \/ RotateClose(k)
  BY <1>5, StaysSo DEF CancelTurn, CloseReleased, AbortStep, RotateClose, Tx
<1>6. CASE Conclude(k)
  <2>1. PICK r : r = CHOOSE n \in {q \in RoundIds : rounds[q].phase = "completed"} :
                       \A q \in {x \in RoundIds : rounds[x].phase = "completed"} : q <= n
    OBVIOUS
  <2>2. PICK c : c = [Idle EXCEPT !.pc = "begin", !.page = task[k].page, !.kind = "report", !.r = r,
                                  !.p = Facilitator, !.ctx = RoomContext, !.keep = TRUE]
    OBVIOUS
  <2>3. c.page = task[k].page
    BY <2>2 DEF Idle
  <2>4. End(k) \/ task' = [task EXCEPT ![k] = c]
    BY <1>6, <2>1, <2>2, Zenon DEF Conclude
  <2>5. CASE task' = [task EXCEPT ![k] = c]
    BY <1>1, <2>3, <2>5 DEF Stays
  <2>6. QED
    BY <2>4, <2>5, StaysSo
<1>7. QED
  BY <1>2, <1>3, <1>4, <1>5, <1>6 DEF TerminalStep, IntentStep

\* An intent begins on the page of the user who asks for it.
LEMMA UserStepStarts ==
  ASSUME TasksOK, NEW k \in Tasks, NEW p \in Pages, UserStep(k, p)
  PROVE  UNCHANGED task \/ (task[k].pc = "idle" /\ task'[k].page = p)
<1>1. task = [j \in Tasks |-> task[j]]
  BY DEF TasksOK
<1>2. task[k].pc = "idle" \/ UNCHANGED task
  BY UserStepGoes
<1>3. \A pc : Started(k, p, pc) => task'[k].page = p
  BY <1>1 DEF Started, Idle
<1>4. CASE StartRound(k, p)
  BY <1>1, <1>2, <1>4 DEF StartRound, BeginRound, Idle
<1>5. CASE \/ PauseRoom(k, p) \/ ResumeRoom(k, p) \/ CancelActiveExecution(k, p)
           \/ SkipFailedParticipant(k, p) \/ SendUserMessage(k, p)
  BY <1>2, <1>3, <1>5
  DEF PauseRoom, ResumeRoom, CancelActiveExecution, SkipFailedParticipant, SendUserMessage
<1>6. ASSUME NEW pc, EndPausedRound(k, p, pc)
      PROVE  task'[k].page = p
  BY <1>1, <1>6 DEF EndPausedRound, Idle
<1>7. CASE RetryParticipant(k, p)
  BY <1>1, <1>2, <1>7 DEF RetryParticipant, Idle
<1>8. CASE ReleaseRoom(k, p) \/ ConcludeRoom(k, p)
  <2>1. CASE ConcludeRoom(k, p)
    BY <1>1, <1>2, <2>1 DEF ConcludeRoom, Idle
  <2>2. ASSUME NEW b, NEW t,
               task' = [task EXCEPT ![k] = [Idle EXCEPT !.pc = "close", !.page = p, !.b = b, !.t = t]]
        PROVE  task'[k].page = p
    BY <1>1, <2>2 DEF Idle
  <2>3. ReleaseRoom(k, p) => task'[k].page = p
    BY <2>2 DEF ReleaseRoom
  <2>4. QED
    BY <1>2, <1>8, <2>1, <2>3
<1>9. QED
  BY <1>2, <1>4, <1>5, <1>6, <1>7, <1>8 DEF UserStep, AbortPausedRound, RotateScope

LEMMA LockOfPage ==
  ASSUME ViewsOK, TasksOK, LockOK, NEW p \in Pages, LockMoves(p), UNCHANGED task
  PROVE  LockOK'
<1>1. \A q \in Pages : q # p => view'[q] = view[q]
  BY DEF LockMoves, Sees, ViewsOK
<1>2. \A q \in Pages : q # None
  BY PagesAssumption
<1>3. view[p].holds \in BOOLEAN /\ view[p].auditLock \in BOOLEAN
  BY DEF ViewsOK, ViewOK, Views
<1>4. /\ view[p].holds \/ view[p].auditLock => lock = p
      /\ ~ (view[p].holds /\ view[p].auditLock)
      /\ view[p].ctl \notin {"off", "observing"} => view[p].holds
      /\ \A q \in Pages : view[q].holds \/ view[q].auditLock => lock = q
  BY DEF LockOK
<1>5. /\ view'[p].holds \/ view'[p].auditLock => lock' = p
      /\ ~ (view'[p].holds /\ view'[p].auditLock)
      /\ view'[p].ctl \notin {"off", "observing"} => view'[p].holds
      /\ view[p].ctl = "controlling" => view'[p].ctl = "controlling"
  BY <1>2, <1>3, <1>4 DEF LockMoves
<1>6. lock # lock' => lock \in {None, p}
  BY <1>3, <1>4 DEF LockMoves, CanAudit
<1>7. \A q \in Pages : q # p => (view[q].holds \/ view[q].auditLock => lock' = q)
  BY <1>2, <1>4, <1>6
<1>8. \A q \in Pages :
        /\ view'[q].holds \/ view'[q].auditLock => lock' = q
        /\ ~ (view'[q].holds /\ view'[q].auditLock)
        /\ view'[q].ctl \notin {"off", "observing"} => view'[q].holds
  BY <1>1, <1>5, <1>7 DEF LockOK
<1>9. ASSUME NEW k \in Tasks, task'[k].pc # "idle"
      PROVE  view'[task'[k].page].ctl = "controlling"
  <2>1. task[k].page \in Pages /\ view[task[k].page].ctl = "controlling" /\ task'[k] = task[k]
    BY <1>9 DEF TasksOK, TaskOK, LockOK
  <2>2. QED
    BY <1>1, <1>5, <2>1
<1>10. QED
  BY <1>8, <1>9 DEF LockOK

LEMMA LockOfTask ==
  ASSUME PageInv, LockOK, NEW k \in Tasks,
         TaskStep(k) \/ \E p \in Pages : UserStep(k, p)
  PROVE  LockOK'
<1>1. StoreInv /\ TasksOK
  BY DEF PageInv
<1>2. UNCHANGED <<lock, view>>
  BY TaskStepHost, UserStepHost DEF pages
<1>3. \A j \in Tasks : j # k => task'[j] = task[j]
  BY <1>1, OnlyOwnTask, OnlyOwnTaskOfUser
<1>4. task'[k].pc # "idle" => view[task'[k].page].ctl = "controlling"
  <2>1. CASE TaskStep(k)
    <3>1. Stays(k) /\ task[k].pc # "idle"
      BY <1>1, <2>1, StepsAt, ScopeStepStays, StartStepStays, TurnStepStays, OtherStepStays DEF TaskStep
    <3>2. QED
      BY <3>1 DEF Stays, LockOK
  <2>2. ASSUME NEW p \in Pages, UserStep(k, p)
        PROVE  task'[k].pc # "idle" => view[task'[k].page].ctl = "controlling"
    BY <1>1, <2>2, UserStepStarts, UserStepSpends DEF LockOK
  <2>3. QED
    BY <2>1, <2>2
<1>5. QED
  BY <1>2, <1>3, <1>4 DEF LockOK

LEMMA LockInit ==
  ASSUME OrchestratorInit
  PROVE  LockOK /\ SpentOK
<1>1. \A p \in Pages : view[p].ctl = "off" /\ view[p].holds = FALSE /\ view[p].auditLock = FALSE
  BY DEF OrchestratorInit, Loaded
<1>2. \A k \in Tasks : task[k].pc = "idle"
  BY DEF OrchestratorInit, Idle
<1>3. SpentOK
  BY DEF OrchestratorInit, SpentOK
<1>4. QED
  BY <1>1, <1>2, <1>3 DEF LockOK

\* What can happen while nobody leaves: a step of an intent, of a page or of the Host.
LEMMA SteadySteps ==
  ASSUME SpentOK, [OrchestratorNext]_orchestratorVars, Steady'
  PROVE  /\ SpentOK' /\ Steady
         /\ \/ \E k \in Tasks : TaskStep(k) \/ \E p \in Pages : UserStep(k, p)
            \/ \E p \in Pages : PageStep(p)
            \/ HostStep
            \/ UNCHANGED orchestratorVars
BY Spends DEF Steady, OrchestratorNext

LEMMA HostStepLeaves ==
  ASSUME HostStep
  PROVE  UNCHANGED <<vars, origin, pages, task>>
BY ZenonT(60) DEF HostStep, TurnEnds, ReapScope, RestartHost

LEMMA LockNext ==
  ASSUME PageInv, SpentOK, LockOK, [OrchestratorNext]_orchestratorVars, Steady'
  PROVE  LockOK'
<1>1. ViewsOK /\ TasksOK
  BY DEF PageInv
<1>2. ASSUME NEW p \in Pages, PageStep(p)
      PROVE  LockOK'
  <2>1. LockMoves(p) /\ UNCHANGED task
    BY <1>1, <1>2, PageMoves, PageStepBehaves DEF Behaves
  <2>2. QED
    BY <1>1, <2>1, LockOfPage
<1>3. CASE HostStep \/ UNCHANGED orchestratorVars
  <2>1. UNCHANGED <<lock, view, task>>
    BY <1>3, HostStepLeaves DEF orchestratorVars, pages
  <2>2. QED
    BY <2>1 DEF LockOK
<1>4. QED
  BY <1>2, <1>3, SteadySteps, LockOfTask

-----------------------------------------------------------------------------
(* A turn that runs has an intent that will hear of its end or stop it.    *)

DrivenBy(k, e) ==
  /\ task[k].pc \in {"mark", "refused", "follow"} /\ task[k].e = e
  /\ turns[e].b = task[k].b /\ Answers(task[k].page) /\ Fenced(task[k].b, task[k].t)

\* e's turn runs, and no request to stop it was lost.
Runs(e) == turns[e].state = "running" /\ ~ turns[e].missed

RunningIsDriven == \A e \in ExecutionIds : Runs(e) => \E k \in Tasks : DrivenBy(k, e)

\* e's turn runs on: it ran before, and on the same Scope with the same controller.
RunsOn(e) ==
  turns'[e].state = "running" /\ ~ turns'[e].missed =>
    /\ Runs(e) /\ turns'[e].b = turns[e].b /\ instance' = instance
    /\ turns[e].b \in BindingIds /\ scopes[turns[e].b].state = "active" =>
         scopes'[turns[e].b] = scopes[turns[e].b]

LEMMA ClosedRunsOn ==
  ASSUME HostOK, NEW p, NEW b, NEW t, CloseScope(p, b, t), NEW e \in ExecutionIds
  PROVE  RunsOn(e)
<1>1. scopes \in [BindingIds -> ScopeRows] /\ turns \in [ExecutionIds -> TurnRows]
  BY DEF HostOK
<1>2. CASE UNCHANGED host
  BY <1>2 DEF host, RunsOn, Runs
<1>3. CASE /\ scopes' = [scopes EXCEPT ![b].state = "closed"] /\ turns' = ClosedTurns(BindingIds \ {b})
           /\ UNCHANGED <<instance, issued>>
  <2>1. turns'[e].state = "running" =>
          turns'[e] = turns[e] /\ turns[e].state = "running" /\ turns[e].b \in BindingIds \ {b}
    BY <1>1, <1>3 DEF ClosedTurns, TurnRows
  <2>2. QED
    BY <1>1, <1>3, <2>1 DEF RunsOn, Runs
<1>4. QED
  BY <1>2, <1>3 DEF CloseScope

LEMMA CancelRunsOn ==
  ASSUME HostOK, NEW p, NEW b, NEW d, NEW t, Cancel(p, b, d, t), NEW e \in ExecutionIds,
         UNCHANGED <<scopes, instance>>
  PROVE  RunsOn(e)
<1>1. turns \in [ExecutionIds -> TurnRows]
  BY DEF HostOK
<1>2. turns'[e].state = "running" /\ ~ turns'[e].missed => turns'[e] = turns[e]
  BY <1>1 DEF Cancel, TurnRows
<1>3. QED
  BY <1>2 DEF RunsOn, Runs

\* No step of an intent but Execute starts a turn, or changes a Scope in which one runs on.
LEMMA TaskRunsOn ==
  ASSUME PageInv, NEW k \in Tasks, TaskStep(k), NEW e \in ExecutionIds,
         Execute(k) => UNCHANGED turns \/ task[k].e # e
  PROVE  RunsOn(e)
<1>1. HostOK /\ TaskOK(task[k])
  BY DEF PageInv, TasksOK
<1>2. /\ scopes \in [BindingIds -> ScopeRows] /\ turns \in [ExecutionIds -> TurnRows]
  BY <1>1 DEF HostOK
<1>3. CASE UNCHANGED host
  BY <1>3 DEF host, RunsOn, Runs
<1>4. CASE OpenScope(k)
  <2>1. UNCHANGED host \/ \E t \in Tokens : CreateScope(task[k].b, t)
    BY <1>4 DEF OpenScope
  <2>2. ASSUME NEW t \in Tokens, CreateScope(task[k].b, t)
        PROVE  RunsOn(e)
    BY <1>2, <1>3, <2>2 DEF CreateScope, RunsOn, Runs
  <2>3. QED
    BY <1>3, <2>1, <2>2
<1>5. CASE ActivateScope(k) \/ CloseReleased(k) \/ RotateClose(k)
  <2>1. UNCHANGED host \/ \E b, t : CloseScope(task[k].page, b, t)
    BY <1>5 DEF ActivateScope, CloseReleased, RotateClose
  <2>2. QED
    BY <1>1, <1>3, <2>1, ClosedRunsOn
<1>6. CASE Execute(k)
  <2>1. UNCHANGED turns \/ turns' = [turns EXCEPT ![task[k].e].state = "running", ![task[k].e].b = task[k].b]
    BY <1>6 DEF Execute
  <2>2. turns'[e] = turns[e] /\ UNCHANGED <<scopes, instance>>
    BY <1>2, <1>6, <2>1 DEF Execute
  <2>3. QED
    BY <2>2 DEF RunsOn, Runs
<1>7. CASE Refused(k) \/ LoseTurn(k) \/ CancelTurn(k)
  <2>1. UNCHANGED <<scopes, instance>>
    BY <1>7 DEF Refused, LoseTurn, CancelTurn, GiveUp
  <2>2. turns' = turns \/ \E p, b, d, t : Cancel(p, b, d, t)
    BY <1>7 DEF Refused, LoseTurn, CancelTurn, GiveUp
  <2>3. CASE turns' = turns
    BY <2>1, <2>3 DEF RunsOn, Runs
  <2>4. QED
    BY <1>1, <2>1, <2>2, <2>3, CancelRunsOn
<1>8. CASE Ack(k)
  <2>1. turns' = turns \/ turns' = [turns EXCEPT ![task[k].e].ack = executions[task[k].e].state]
    BY <1>8 DEF Ack
  <2>2. /\ turns'[e].state = turns[e].state /\ turns'[e].missed = turns[e].missed
        /\ turns'[e].b = turns[e].b /\ UNCHANGED <<scopes, instance>>
    BY <1>2, <1>8, <2>1 DEF Ack, TurnRows
  <2>3. QED
    BY <2>2 DEF RunsOn, Runs
<1>9. QED
  BY <1>3, <1>4, <1>5, <1>6, <1>7, <1>8, TaskStepHost DEF AtHost, MarkDispatched

LEMMA PageRunsOn ==
  ASSUME PageInv, NEW p \in Pages, PageStep(p), ~ TakeOver(p), NEW e \in ExecutionIds
  PROVE  RunsOn(e)
<1>1. HostOK /\ turns \in [ExecutionIds -> TurnRows]
  BY DEF PageInv, HostOK
<1>2. CASE AuditQuery(p)
  <2>1. UNCHANGED <<scopes, instance>> /\ (UNCHANGED turns \/ \E b, d, t : Cancel(p, b, d, t))
    BY <1>2 DEF AuditQuery
  <2>2. CASE UNCHANGED turns
    BY <2>1, <2>2 DEF RunsOn, Runs
  <2>3. QED
    BY <1>1, <2>1, <2>2, CancelRunsOn
<1>3. CASE ResendAck(p)
  <2>1. UNCHANGED <<scopes, instance>> /\
        (UNCHANGED turns \/ \E d : turns' = [turns EXCEPT ![d].ack = executions[d].state])
    BY <1>3 DEF ResendAck
  <2>2. /\ turns'[e].state = turns[e].state /\ turns'[e].missed = turns[e].missed
        /\ turns'[e].b = turns[e].b
    BY <1>1, <2>1 DEF TurnRows
  <2>3. QED
    BY <2>1, <2>2 DEF RunsOn, Runs
<1>4. CASE ~ AuditQuery(p) /\ ~ ResendAck(p)
  <2>1. UNCHANGED host
    BY <1>4 DEF PageStep, OpenRoom, GetLock, Adopt, SettleLost, AuditStart, AuditSettle, AuditRowsDone,
                AuditDone, OnlyView
  <2>2. QED
    BY <2>1 DEF host, RunsOn, Runs
<1>5. QED
  BY <1>2, <1>3, <1>4

LEMMA HostRunsOn ==
  ASSUME PageInv, HostStep, NEW e \in ExecutionIds
  PROVE  RunsOn(e)
<1>1. scopes \in [BindingIds -> ScopeRows] /\ turns \in [ExecutionIds -> TurnRows]
  BY DEF PageInv, HostOK
<1>2. ASSUME NEW d \in ExecutionIds, TurnEnds(d)
      PROVE  RunsOn(e)
  <2>1. turns'[e].state = "running" => turns'[e] = turns[e]
    BY <1>1, <1>2 DEF TurnEnds, EndStates, TurnRows
  <2>2. QED
    BY <1>2, <2>1 DEF TurnEnds, RunsOn, Runs
<1>3. ASSUME NEW b \in BindingIds, ReapScope(b)
      PROVE  RunsOn(e)
  BY <1>1, <1>3 DEF ReapScope, RunsOn, Runs
<1>4. CASE RestartHost
  <2>1. turns'[e].state # "running"
    BY <1>1, <1>4 DEF RestartHost, ClosedTurns, TurnRows
  <2>2. QED
    BY <2>1 DEF RunsOn, Runs
<1>5. QED
  BY <1>2, <1>3, <1>4 DEF HostStep

\* The driver of a turn that runs on, while it is where it was.
LEMMA DriverStays ==
  ASSUME PageInv, NEW e \in ExecutionIds, NEW k \in Tasks, DrivenBy(k, e), RunsOn(e),
         Runs(e)',
         task'[k].pc \in {"mark", "refused", "follow"}, task'[k].e = task[k].e, task'[k].b = task[k].b,
         task'[k].t = task[k].t, task'[k].page = task[k].page,
         view'[task[k].page].inst = view[task[k].page].inst
  PROVE  DrivenBy(k, e)'
<1>1. task[k].b \in BindingIds
  BY DEF DrivenBy, PageInv, TasksOK, TaskOK, CallPcs
<1>2. /\ turns[e].b = task[k].b /\ scopes[task[k].b].state = "active" /\ scopes[task[k].b].token = task[k].t
      /\ view[task[k].page].inst = instance /\ task[k].e = e
  BY DEF DrivenBy, Fenced, Answers
<1>3. turns'[e].b = task[k].b /\ scopes'[task[k].b] = scopes[task[k].b] /\ instance' = instance
  BY <1>1, <1>2 DEF RunsOn, Runs
<1>4. QED
  BY <1>2, <1>3 DEF DrivenBy, Fenced, Answers

\* A driver that gives a turn up stops it first, or its request to is lost.
LEMMA DriverStops ==
  ASSUME HostOK, NEW e \in ExecutionIds, NEW k \in Tasks, DrivenBy(k, e), NEW kind, GiveUp(k, kind),
         turns[e].state = "running"
  PROVE  ~ Runs(e)'
<1>1. Cancel(task[k].page, task[k].b, e, task[k].t) /\ turns \in [ExecutionIds -> TurnRows]
  BY DEF GiveUp, DrivenBy, HostOK
<1>2. turns[e].b = task[k].b /\ Fenced(task[k].b, task[k].t) /\ Answers(task[k].page)
  BY DEF DrivenBy
<1>3. QED
  BY <1>1, <1>2 DEF Cancel, Stoppable, Runs, TurnRows

LEMMA DriverSteps ==
  ASSUME PageInv, NEW e \in ExecutionIds, NEW k \in Tasks, DrivenBy(k, e), TaskStep(k),
         Runs(e), Runs(e)'
  PROVE  DrivenBy(k, e)'
<1>1. HostOK /\ TasksOK /\ task[k] \in TasksOf(task[k].p) /\ UNCHANGED view
  BY TaskStepHost DEF PageInv, TasksOK, TaskOK, pages
<1>2. task[k].e = e /\ task[k].pc \in {"mark", "refused", "follow"}
  BY DEF DrivenBy
<1>3. MarkDispatched(k)
  <2>1. ~ Refused(k) /\ ~ LoseTurn(k)
    BY <1>1, DriverStops DEF Refused, LoseTurn, Runs
  <2>2. ~ Succeeded(k) /\ ~ UserCancelled(k) /\ ~ RetryOnce(k) /\ ~ FailTurn(k)
    BY <1>2 DEF Succeeded, UserCancelled, RetryOnce, FailTurn, Ended, Runs
  <2>3. QED
    BY <1>2, <2>1, <2>2, StepsAt
<1>4. Go(k, "follow") \/ Go(k, "refused")
  BY <1>3 DEF MarkDispatched
<1>5. /\ task'[k].pc \in {"follow", "refused"} /\ task'[k].e = task[k].e /\ task'[k].b = task[k].b
      /\ task'[k].t = task[k].t /\ task'[k].page = task[k].page
  BY <1>1, <1>4 DEF Go, TasksOK, TasksOf
<1>6. RunsOn(e)
  BY <1>3 DEF MarkDispatched, host, RunsOn, Runs
<1>7. QED
  BY <1>1, <1>5, <1>6, DriverStays

LEMMA ExecuteDrives ==
  ASSUME PageInv, NEW k \in Tasks, Execute(k), ~ UNCHANGED turns, NEW e \in ExecutionIds, task[k].e = e
  PROVE  DrivenBy(k, e)'
<1>1. /\ HostOK /\ TasksOK /\ task[k] \in TasksOf(task[k].p) /\ turns \in [ExecutionIds -> TurnRows]
      /\ task[k].e \in ExecutionIds
  BY DEF PageInv, HostOK, TasksOK, TaskOK, CallPcs, Execute, At
<1>2. /\ turns' = [turns EXCEPT ![task[k].e].state = "running", ![task[k].e].b = task[k].b]
      /\ Executable(task[k].page, task[k].b, task[k].t, task[k].p)
      /\ Go(k, "mark") \/ Go(k, "refused")
      /\ UNCHANGED <<scopes, instance, view>>
  BY DEF Execute, pages
<1>3. /\ task'[k].pc \in {"mark", "refused"} /\ task'[k].e = task[k].e /\ task'[k].b = task[k].b
      /\ task'[k].t = task[k].t /\ task'[k].page = task[k].page
  BY <1>1, <1>2 DEF Go, TasksOK, TasksOf
<1>4. turns'[task[k].e].b = task[k].b
  BY <1>1, <1>2 DEF TurnRows
<1>5. Answers(task[k].page) /\ Fenced(task[k].b, task[k].t)
  BY <1>2 DEF Executable
<1>6. /\ task'[k].pc \in {"mark", "refused", "follow"} /\ task'[k].e = e
      /\ turns'[e].b = task'[k].b /\ view'[task'[k].page].inst = instance'
      /\ scopes'[task'[k].b].state = "active" /\ scopes'[task'[k].b].token = task'[k].t
  BY <1>2, <1>3, <1>4, <1>5 DEF Answers, Fenced
<1>7. QED
  BY <1>6 DEF DrivenBy, Answers, Fenced

LEMMA DrivenOfTask ==
  ASSUME PageInv, RunningIsDriven, NEW k \in Tasks, TaskStep(k)
  PROVE  RunningIsDriven'
<1> SUFFICES ASSUME NEW e \in ExecutionIds, Runs(e)'
             PROVE  \E j \in Tasks : DrivenBy(j, e)'
  BY DEF RunningIsDriven
<1>1. CASE Execute(k) /\ ~ UNCHANGED turns /\ task[k].e = e
  BY <1>1, ExecuteDrives
<1>2. CASE Execute(k) => UNCHANGED turns \/ task[k].e # e
  <2>1. RunsOn(e)
    BY <1>2, TaskRunsOn
  <2>2. Runs(e)
    BY <2>1 DEF RunsOn, Runs
  <2>3. PICK j \in Tasks : DrivenBy(j, e)
    BY <2>2 DEF RunningIsDriven
  <2>4. CASE j = k
    BY <2>2, <2>3, <2>4, DriverSteps
  <2>5. CASE j # k
    <3>1. task'[j] = task[j] /\ UNCHANGED view
      BY <2>5, OnlyOwnTask, TaskStepHost DEF PageInv, pages
    <3>2. task[j].pc \in {"mark", "refused", "follow"}
      BY <2>3 DEF DrivenBy
    <3>3. DrivenBy(j, e)'
      BY <2>1, <2>3, <3>1, <3>2, DriverStays
    <3>4. QED
      BY <3>3
  <2>6. QED
    BY <2>4, <2>5
<1>3. QED
  BY <1>1, <1>2

\* The intents and what the pages loaded with stay as they are.
LEMMA DrivenOfOthers ==
  ASSUME PageInv, RunningIsDriven, UNCHANGED task, \A p \in Pages : view'[p].inst = view[p].inst,
         \A e \in ExecutionIds : RunsOn(e)
  PROVE  RunningIsDriven'
<1> SUFFICES ASSUME NEW e \in ExecutionIds, Runs(e)'
             PROVE  \E j \in Tasks : DrivenBy(j, e)'
  BY DEF RunningIsDriven
<1>1. RunsOn(e) /\ Runs(e)
  BY DEF RunsOn, Runs
<1>2. PICK j \in Tasks : DrivenBy(j, e)
  BY <1>1 DEF RunningIsDriven
<1>3. task[j].pc \in {"mark", "refused", "follow"} /\ task[j].page \in Pages
  BY <1>2 DEF DrivenBy, PageInv, TasksOK, TaskOK
<1>4. DrivenBy(j, e)'
  BY <1>1, <1>2, <1>3, DriverStays
<1>5. QED
  BY <1>4

LEMMA DrivenOfUser ==
  ASSUME PageInv, RunningIsDriven, NEW k \in Tasks, NEW p \in Pages, UserStep(k, p)
  PROVE  RunningIsDriven'
<1>1. UNCHANGED <<host, pages>> /\ \A j \in Tasks : j # k => task'[j] = task[j]
  BY UserStepHost, OnlyOwnTaskOfUser DEF PageInv
<1>2. UNCHANGED task \/ task[k].pc = "idle"
  BY UserStepStarts DEF PageInv
<1>3. ASSUME NEW e \in ExecutionIds, Runs(e)'
      PROVE  \E j \in Tasks : DrivenBy(j, e)'
  <2>1. RunsOn(e) /\ Runs(e) /\ UNCHANGED view
    BY <1>1, <1>3 DEF RunsOn, Runs, host, pages
  <2>2. PICK j \in Tasks : DrivenBy(j, e)
    BY <2>1 DEF RunningIsDriven
  <2>3. task[j].pc \in {"mark", "refused", "follow"}
    BY <2>2 DEF DrivenBy
  <2>4. task'[j] = task[j]
    BY <1>1, <1>2, <2>3
  <2>5. DrivenBy(j, e)'
    BY <1>3, <2>1, <2>2, <2>3, <2>4, DriverStays
  <2>6. QED
    BY <2>5
<1>4. QED
  BY <1>3 DEF RunningIsDriven

\* A page only takes over when no intent runs: every intent is of the page in control.
LEMMA NoIntentAtTakeOver ==
  ASSUME PageInv, LockOK, NEW p \in Pages, view[p].ctl = "locked"
  PROVE  \A k \in Tasks : task[k].pc = "idle"
<1>1. lock = p
  BY DEF LockOK
<1>2. ASSUME NEW k \in Tasks, task[k].pc # "idle"
      PROVE  FALSE
  <2>1. task[k].page \in Pages /\ view[task[k].page].ctl = "controlling"
    BY <1>2 DEF PageInv, TasksOK, TaskOK, LockOK
  <2>2. lock = task[k].page
    BY <2>1 DEF LockOK
  <2>3. QED
    BY <1>1, <2>1, <2>2
<1>3. QED
  BY <1>2

LEMMA DrivenOfPage ==
  ASSUME PageInv, LockOK, RunningIsDriven, NEW p \in Pages, PageStep(p)
  PROVE  RunningIsDriven'
<1>1. UNCHANGED task /\ \A q \in Pages : view'[q].inst = view[q].inst
  BY PageStepBehaves, PageMoves DEF Behaves, PageInv, LockMoves, Sees, ViewsOK
<1>2. CASE TakeOver(p)
  <2>1. \A k \in Tasks : task[k].pc = "idle"
    BY <1>2, NoIntentAtTakeOver DEF TakeOver
  <2>2. \A e \in ExecutionIds : ~ Runs(e)
    BY <2>1 DEF RunningIsDriven, DrivenBy
  <2>3. UNCHANGED turns
    BY <1>2 DEF TakeOver, host
  <2>4. QED
    BY <2>2, <2>3 DEF RunningIsDriven, Runs
<1>3. CASE ~ TakeOver(p)
  BY <1>1, <1>3, PageRunsOn, DrivenOfOthers
<1>4. QED
  BY <1>2, <1>3

LEMMA DrivenNext ==
  ASSUME PageInv, SpentOK, LockOK, RunningIsDriven, [OrchestratorNext]_orchestratorVars, Steady'
  PROVE  RunningIsDriven'
<1>1. CASE HostStep
  BY <1>1, HostStepLeaves, HostRunsOn, DrivenOfOthers DEF pages
<1>2. CASE UNCHANGED orchestratorVars
  BY <1>2, DrivenOfOthers DEF orchestratorVars, host, pages, RunsOn, Runs
<1>3. QED
  BY <1>1, <1>2, SteadySteps, DrivenOfTask, DrivenOfUser, DrivenOfPage

\* Every path that gives a turn up asks the Host to stop it before its row becomes
\* terminal: while a turn runs, its row is live, an intent of it is under way, or its
\* own cancel was lost.
THEOREM SettledMeansStoppedHolds == OrchestratorSpec => []SettledMeansStopped
<1> DEFINE Held == SpentOK /\ (Steady => LockOK /\ RunningIsDriven)
<1>1. OrchestratorInit => Held
  <2>1. OrchestratorInit => RunningIsDriven
    BY DEF OrchestratorInit, RunningIsDriven, Runs
  <2>2. QED
    BY <2>1, LockInit
<1>2. PageInv /\ Held /\ [OrchestratorNext]_orchestratorVars => Held'
  BY Spends, SteadySteps, LockNext, DrivenNext DEF Steady
<1>3. Held => SettledMeansStopped
  <2>1. SUFFICES ASSUME Held, NEW e \in ExecutionIds, Runs(e),
                        ~ (spent.reloads + spent.handovers > 0)
                 PROVE  \E k \in Tasks : task[k].e = e
    BY DEF SettledMeansStopped, Runs
  <2>2. Steady
    BY <2>1 DEF SpentOK, Steady
  <2>3. QED
    BY <2>1, <2>2 DEF RunningIsDriven, DrivenBy
<1>4. QED
  BY <1>1, <1>2, <1>3, PagesInit, PagesNext, PTL DEF OrchestratorSpec

-----------------------------------------------------------------------------
(* A Scope that is open has a row, or an intent, that will close it.       *)

LEMMA RowKeepsBindings ==
  ASSUME NEW t, NEW e,
         \/ CommitOf(t, e) \/ DiscardExecution(t, e) \/ MarkExecutionDispatched(e)
         \/ MarkExecutionSucceededUncommitted(e) \/ MarkAcknowledged(e) \/ MarkAckExpired(e)
         \/ \E kind, pause : FailExecution(t, e, kind, pause) \/ RecordExecutionFailure(e, kind, pause)
  PROVE  UNCHANGED bindings
BY ZenonT(60) DEF CommitOf, CommitModelMessage, CommitFocusMessage, CommitSummary, CommitReport,
   DiscardExecution, DiscardLockedExecution, FailExecution, RecordExecutionFailure, MarkExecutionDispatched,
   MarkExecutionSucceededUncommitted, SetState, MarkAcknowledged, MarkAckExpired, SetAckState

LEMMA RoundKeepsBindings ==
  ASSUME NEW t, NEW r,
         \/ AppendUserMessage(t, r) \/ RetryFailedParticipant(t, r) \/ AbortRound(t, r) \/ SkipParticipant(t, r)
         \/ \E to : SetRoomRunState(t, to) \/ TransitionRound(t, r, to) \/ PauseRound(t, r, to)
         \/ \E order : CreateRound(t, r, order)
         \/ \E e, kind, p, ctx : BeginOf(t, e, kind, r, p, ctx)
  PROVE  UNCHANGED bindings
BY ZenonT(60) DEF AppendUserMessage, RetryFailedParticipant, ResumeRound, AbortRound, SkipParticipant,
   SetRoomRunState, TransitionRound, PauseRound, CreateRound, BeginOf, BeginExecution, BeginFocusExecution,
   BeginReportExecution

\* The steps of an intent that write a binding.
Binds(k) == EnsureScope(k) \/ BindScope(k) \/ ActivateScope(k) \/ RotateClose(k)

LEMMA TaskKeepsBindings ==
  ASSUME NEW k \in Tasks, TaskStep(k), ~ Binds(k)
  PROVE  UNCHANGED bindings
<1>1. CASE OpenScope(k)
  BY <1>1 DEF OpenScope, vars
<1>2. CASE StartStep(k)
  <2>1. \/ UNCHANGED vars
        \/ \E t, r : \/ AppendUserMessage(t, r) \/ (\E order : CreateRound(t, r, order))
                     \/ \E to : TransitionRound(t, r, to) \/ PauseRound(t, r, to)
    BY <1>2, ZenonT(60) DEF StartStep, StartAgain, CreateRoundStep, SeedRound, Prewarm, Probe, PausePrewarm,
       RunRound, Tx, OnlyTask
  <2>2. QED
    BY <2>1, RoundKeepsBindings DEF vars
<1>3. CASE TurnStep(k) \/ LoseTurn(k)
  <2>1. \/ UNCHANGED vars
        \/ \E t, r, e, kind, p, ctx : BeginOf(t, e, kind, r, p, ctx)
        \/ \E t, e, kind, pause : FailExecution(t, e, kind, pause)
        \/ \E e : MarkExecutionDispatched(e)
    <3>1. CASE RunLoop(k) \/ Gate(k) \/ Execute(k) \/ MarkDispatched(k) \/ Refused(k) \/ LoseTurn(k)
      BY <3>1 DEF RunLoop, Gate, Execute, MarkDispatched, Refused, LoseTurn, GiveUp, Tx, OnlyTask, vars
    <3>2. CASE BeginTurn(k)
      BY <3>2 DEF BeginTurn, Tx
    <3>3. QED
      BY <1>3, <3>1, <3>2 DEF TurnStep
  <2>2. CASE \E t, r, e, kind, p, ctx : BeginOf(t, e, kind, r, p, ctx)
    BY <2>2, RoundKeepsBindings
  <2>3. CASE \E e : MarkExecutionDispatched(e)
    BY <2>3, RowKeepsBindings
  <2>4. CASE \E t, e, kind, pause : FailExecution(t, e, kind, pause)
    BY <2>4, RowKeepsBindings
  <2>5. QED
    BY <2>1, <2>2, <2>3, <2>4 DEF vars
<1>4. CASE TerminalStep(k)
  <2>1. \/ UNCHANGED vars
        \/ \E t, e : \/ CommitOf(t, e) \/ DiscardExecution(t, e) \/ MarkExecutionSucceededUncommitted(e)
                     \/ MarkAcknowledged(e) \/ MarkAckExpired(e)
                     \/ \E kind, pause : FailExecution(t, e, kind, pause)
    BY <1>4, ZenonT(60) DEF TerminalStep, Succeeded, PersistResult, Ack, UserCancelled, RetryOnce, FailTurn,
       MarkIfPending, Tx
  <2>2. QED
    BY <2>1, RowKeepsBindings DEF vars
<1>5. CASE IntentStep(k)
  <2>1. UNCHANGED vars \/ \E t, r : AbortRound(t, r)
    BY <1>5 DEF IntentStep, CancelTurn, AbortStep, CloseReleased, Conclude, Tx, OnlyTask, Binds
  <2>2. QED
    BY <2>1, RoundKeepsBindings DEF vars
<1>6. QED
  BY <1>1, <1>2, <1>3, <1>4, <1>5 DEF TaskStep, ScopeStep, Binds

LEMMA UserKeepsBindings ==
  ASSUME NEW k \in Tasks, NEW p \in Pages, UserStep(k, p), ~ ReleaseRoom(k, p)
  PROVE  UNCHANGED bindings
<1>1. \/ UNCHANGED vars
      \/ \E t, r : \/ AppendUserMessage(t, r) \/ RetryFailedParticipant(t, r) \/ SkipParticipant(t, r)
                   \/ \E to : SetRoomRunState(t, to)
  BY ZenonT(60) DEF UserStep, StartRound, PauseRoom, ResumeRoom, CancelActiveExecution, AbortPausedRound,
     RotateScope, EndPausedRound, RetryParticipant, SkipFailedParticipant, SendUserMessage, ConcludeRoom
<1>2. QED
  BY <1>1, RoundKeepsBindings DEF vars

\* A page that takes nothing over closes leftovers only.
LEMMA PageKeepsBindings ==
  ASSUME NEW p \in Pages, PageStep(p), ~ Adopt(p), ~ SettleLost(p)
  PROVE  \/ UNCHANGED bindings
         \/ \E b \in BindingIds : bindings[b].state = "creating" /\ MarkBindingClosed(b)
<1>1. \/ UNCHANGED vars
      \/ \E t, e : \/ MarkAcknowledged(e) \/ MarkAckExpired(e)
                   \/ \E kind, pause : RecordExecutionFailure(e, kind, pause)
      \/ \E b \in BindingIds : bindings[b].state = "creating" /\ MarkBindingClosed(b)
  BY ZenonT(60) DEF PageStep, OpenRoom, GetLock, TakeOver, AuditStart, AuditQuery, AuditSettle, AuditRowsDone,
     ResendAck, AuditDone, OnlyView, FailLost, MarkIfPending
<1>2. CASE \E t, e : \/ MarkAcknowledged(e) \/ MarkAckExpired(e)
                     \/ \E kind, pause : RecordExecutionFailure(e, kind, pause)
  BY <1>2, RowKeepsBindings
<1>3. QED
  BY <1>1, <1>2 DEF vars

\* The first page in control opens the Room's first Scope: there is none to take over.
NobodyTookOver ==
  /\ \A p \in Pages : view[p].ctl \in {"off", "observing", "locked", "controlling"}
  /\ (\E p \in Pages : view[p].ctl = "controlling") \/ \A b \in BindingIds : bindings[b].state = "none"

\* Every page loaded with the first Host, whose Scopes are all there are.
FirstHost ==
  /\ \A p \in Pages : view[p].inst = 0
  /\ instance # 0 => \A b \in BindingIds : scopes[b].state # "active"

LEMMA NothingToTakeOver ==
  ASSUME PageInv, LockOK, NobodyTookOver, NEW p \in Pages, PageStep(p)
  PROVE  /\ ~ Adopt(p) /\ ~ SettleLost(p)
         /\ TakeOver(p) => See(p, [ctl |-> "controlling"]) /\ UNCHANGED host
<1>1. ~ Adopt(p) /\ ~ SettleLost(p)
  BY DEF Adopt, SettleLost, NobodyTookOver
<1>2. ASSUME TakeOver(p)
      PROVE  See(p, [ctl |-> "controlling"]) /\ UNCHANGED host
  <2>1. lock = p /\ view[p].ctl = "locked"
    BY <1>2 DEF TakeOver, LockOK
  <2>2. \A q \in Pages : view[q].ctl # "controlling"
    BY <2>1 DEF LockOK
  <2>3. ActiveBindings = {}
    BY <2>2 DEF NobodyTookOver, ActiveBindings
  <2>4. QED
    BY <1>2, <2>3 DEF TakeOver
<1>3. QED
  BY <1>1, <1>2

LEMMA NobodyNext ==
  ASSUME PageInv, SpentOK, LockOK, NobodyTookOver, [OrchestratorNext]_orchestratorVars, Steady'
  PROVE  NobodyTookOver'
<1>1. ViewsOK
  BY DEF PageInv
<1>2. ASSUME NEW k \in Tasks, TaskStep(k) \/ \E p \in Pages : UserStep(k, p)
      PROVE  NobodyTookOver'
  <2>1. UNCHANGED view
    BY <1>2, TaskStepHost, UserStepHost DEF pages
  <2>2. \E p \in Pages : view[p].ctl = "controlling"
    BY <1>2, StepsAt, UserStepSpends DEF LockOK, PageInv, TasksOK, TaskOK
  <2>3. QED
    BY <2>1, <2>2 DEF NobodyTookOver
<1>3. ASSUME NEW p \in Pages, PageStep(p)
      PROVE  NobodyTookOver'
  <2>1. LockMoves(p) /\ ~ Adopt(p) /\ ~ SettleLost(p)
    BY <1>1, <1>3, PageMoves, NothingToTakeOver
  <2>2. \A q \in Pages : q # p => view'[q] = view[q]
    BY <1>1, <2>1 DEF LockMoves, Sees, ViewsOK
  <2>3. /\ view'[p].ctl \in {"off", "observing", "locked", "controlling"}
        /\ view[p].ctl = "controlling" => view'[p].ctl = "controlling"
    <3>1. CASE TakeOver(p)
      <4>1. PICK ch : ch = [ctl |-> "controlling"]
        OBVIOUS
      <4>2. See(p, ch) /\ "ctl" \in DOMAIN ch /\ ch.ctl = "controlling"
        BY <1>3, <3>1, <4>1, NothingToTakeOver
      <4>3. QED
        BY <1>1, <4>2, SeenFields
    <3>2. CASE ~ TakeOver(p)
      <4>1. view[p].ctl = "controlling" => view'[p].ctl = "controlling"
        BY <2>1, <1>3, LockOfPage, PagesAssumption DEF LockMoves, LockOK, CanAudit
      <4>2. QED
        BY <2>1, <3>2, <4>1 DEF LockMoves, NobodyTookOver
    <3>3. QED
      BY <3>1, <3>2
  <2>4. (\A b \in BindingIds : bindings[b].state = "none") => UNCHANGED bindings
    <3>1. \/ UNCHANGED bindings
          \/ \E b \in BindingIds : bindings[b].state = "creating"
      BY <1>3, <2>1, PageKeepsBindings
    <3>2. QED
      BY <3>1
  <2>5. QED
    BY <2>2, <2>3, <2>4 DEF NobodyTookOver
<1>4. CASE HostStep \/ UNCHANGED orchestratorVars
  <2>1. UNCHANGED <<view, bindings>>
    BY <1>4, HostStepLeaves DEF orchestratorVars, pages, vars
  <2>2. QED
    BY <2>1 DEF NobodyTookOver
<1>5. QED
  BY <1>2, <1>3, <1>4, SteadySteps

\* The intent that opened the Scope of b has yet to activate its row, or the one that
\* closed the row has yet to close the Scope.
Holds(k, b) ==
  /\ task[k].b = b
  /\ \/ task[k].pc = "activate" /\ task[k].h = scopes[b].token
     \/ task[k].pc = "close" /\ task[k].t = scopes[b].token

RowHolds(b) == bindings[b].state = "active" /\ bindings[b].token = scopes[b].token

OpenScopesAreHeld ==
  \A b \in BindingIds : scopes[b].state = "active" => RowHolds(b) \/ \E k \in Tasks : Holds(k, b)

\* An intent closes the Scope it was to close: the Host it asks is the first one still.
LEMMA ScopeClosed ==
  ASSUME HostOK, FirstHost, NEW p \in Pages, NEW c \in BindingIds, NEW t, CloseScope(p, c, t),
         NEW b \in BindingIds, scopes'[b].state = "active"
  PROVE  scopes[b].state = "active" /\ scopes'[b] = scopes[b] /\ (b = c => scopes[c].token # t)
<1>1. scopes \in [BindingIds -> ScopeRows] /\ view[p].inst = 0
  BY DEF HostOK, FirstHost
<1>2. CASE Answers(p) /\ Fenced(c, t)
  <2>1. scopes' = [scopes EXCEPT ![c].state = "closed"]
    BY <1>2 DEF CloseScope
  <2>2. QED
    BY <1>1, <2>1 DEF ScopeRows
<1>3. CASE ~ (Answers(p) /\ Fenced(c, t))
  <2>1. scopes' = scopes
    BY <1>3 DEF CloseScope, host
  <2>2. Answers(p)
    BY <1>1, <2>1 DEF FirstHost, Answers
  <2>3. QED
    BY <1>3, <2>1, <2>2 DEF Fenced
<1>4. QED
  BY <1>2, <1>3

\* What else an intent does to the Host's Scopes.
LEMMA OtherScopesStay ==
  ASSUME NEW k \in Tasks, TaskStep(k), ~ OpenScope(k), ~ ActivateScope(k), ~ RotateClose(k), ~ CloseReleased(k)
  PROVE  UNCHANGED scopes
<1>1. AtHost(k) => UNCHANGED scopes
  BY DEF AtHost, Execute, MarkDispatched, Refused, LoseTurn, GiveUp, Ack, CancelTurn, host
<1>2. QED
  BY <1>1, TaskStepHost DEF host

LEMMA FirstHostNext ==
  ASSUME PageInv, SpentOK, LockOK, NobodyTookOver, FirstHost, [OrchestratorNext]_orchestratorVars, Steady'
  PROVE  FirstHost'
<1>1. ViewsOK /\ TasksOK /\ HostOK /\ scopes \in [BindingIds -> ScopeRows] /\ instance \in Nat
  BY DEF PageInv, HostOK
<1>2. ASSUME NEW k \in Tasks, TaskStep(k)
      PROVE  FirstHost'
  <2>1. UNCHANGED view /\ task[k].pc # "idle" /\ task[k].page \in Pages
    BY <1>1, <1>2, TaskStepHost, StepsAt DEF pages, TasksOK, TaskOK
  <2>2. ASSUME NEW c \in BindingIds, NEW t, CloseScope(task[k].page, c, t)
        PROVE  FirstHost'
    <3>1. UNCHANGED instance /\ \A b \in BindingIds : scopes'[b].state = "active" => scopes[b].state = "active"
      BY <1>1, <2>1, <2>2, ScopeClosed DEF CloseScope, host
    <3>2. QED
      BY <2>1, <3>1 DEF FirstHost
  <2>3. CASE UNCHANGED <<scopes, instance>>
    BY <2>1, <2>3 DEF FirstHost
  <2>4. CASE OpenScope(k) /\ ~ UNCHANGED host
    <3>1. Answers(task[k].page) /\ \E t \in Tokens : CreateScope(task[k].b, t)
      BY <2>4 DEF OpenScope
    <3>2. instance = 0
      BY <2>1, <3>1 DEF Answers, FirstHost
    <3>3. instance' = 0
      BY <3>1, <3>2 DEF CreateScope, host
    <3>4. QED
      BY <2>1, <3>3 DEF FirstHost
  <2>5. CASE ActivateScope(k) \/ CloseReleased(k) \/ RotateClose(k)
    <3>1. task[k].pc \in {"activate", "close"} => task[k].b \in BindingIds
      BY <1>1 DEF TasksOK, TaskOK
    <3>2. UNCHANGED host \/ \E c \in BindingIds : \E t : CloseScope(task[k].page, c, t)
      BY <2>5, <3>1 DEF ActivateScope, CloseReleased, RotateClose, ActiveBindings, At
    <3>3. QED
      BY <2>2, <2>3, <3>2 DEF host
  <2>6. CASE ~ OpenScope(k) /\ ~ ActivateScope(k) /\ ~ CloseReleased(k) /\ ~ RotateClose(k)
    <3>1. UNCHANGED scopes
      BY <1>2, <2>6, OtherScopesStay
    <3>2. UNCHANGED instance
      BY <1>2, <2>6, TaskStepHost
      DEF AtHost, Execute, MarkDispatched, Refused, LoseTurn, GiveUp, Ack, CancelTurn, host
    <3>3. QED
      BY <2>3, <3>1, <3>2
  <2>7. QED
    BY <2>3, <2>4, <2>5, <2>6 DEF host
<1>3. ASSUME NEW p \in Pages, PageStep(p)
      PROVE  FirstHost'
  <2>1. \A q \in Pages : view'[q].inst = view[q].inst
    BY <1>1, <1>3, PageMoves DEF LockMoves, Sees, ViewsOK
  <2>2. UNCHANGED <<scopes, instance>>
    <3>1. CASE TakeOver(p)
      BY <1>3, <3>1, NothingToTakeOver DEF host
    <3>2. CASE ~ TakeOver(p)
      BY <1>3, <3>2, ZenonT(60) DEF PageStep, OpenRoom, GetLock, Adopt, SettleLost, AuditStart, AuditQuery,
         AuditSettle, AuditRowsDone, ResendAck, AuditDone, OnlyView, host
    <3>3. QED
      BY <3>1, <3>2
  <2>3. QED
    BY <2>1, <2>2 DEF FirstHost
<1>4. CASE HostStep
  <2>1. UNCHANGED view
    BY <1>4, HostStepLeaves DEF pages
  <2>2. ASSUME NEW b \in BindingIds, scopes'[b].state = "active"
        PROVE  scopes[b].state = "active" /\ UNCHANGED instance
    BY <1>1, <1>4, <2>2 DEF HostStep, TurnEnds, ReapScope, RestartHost, ScopeRows
  <2>3. instance' # 0 => \A b \in BindingIds : scopes'[b].state # "active"
    BY <2>2 DEF FirstHost
  <2>4. QED
    BY <2>1, <2>3 DEF FirstHost
<1>5. CASE \E k \in Tasks, p \in Pages : UserStep(k, p)
  BY <1>5, UserStepHost DEF host, pages, FirstHost
<1>6. CASE UNCHANGED orchestratorVars
  BY <1>6 DEF orchestratorVars, host, pages, FirstHost
<1>7. QED
  BY <1>2, <1>3, <1>4, <1>5, <1>6, SteadySteps

LEMMA HeldStays ==
  ASSUME NEW b \in BindingIds, scopes'[b] = scopes[b],
         \/ RowHolds(b) /\ bindings'[b] = bindings[b]
         \/ \E k \in Tasks : Holds(k, b) /\ task'[k] = task[k]
  PROVE  RowHolds(b)' \/ \E k \in Tasks : Holds(k, b)'
<1>1. CASE RowHolds(b) /\ bindings'[b] = bindings[b]
  BY <1>1 DEF RowHolds
<1>2. ASSUME NEW k \in Tasks, Holds(k, b), task'[k] = task[k]
      PROVE  Holds(k, b)'
  BY <1>2 DEF Holds
<1>3. QED
  BY <1>1, <1>2

\* Who holds the Scope of b, when it is not the intent that makes the step.
LEMMA HeldByOthers ==
  ASSUME PageInv, OpenScopesAreHeld, NEW k \in Tasks, TaskStep(k), NEW b \in BindingIds,
         scopes[b].state = "active", scopes'[b] = scopes[b], ~ Holds(k, b),
         RowHolds(b) => bindings'[b] = bindings[b]
  PROVE  RowHolds(b)' \/ \E j \in Tasks : Holds(j, b)'
<1>1. \A j \in Tasks : j # k => task'[j] = task[j]
  BY OnlyOwnTask DEF PageInv
<1>2. RowHolds(b) \/ \E j \in Tasks \ {k} : Holds(j, b)
  BY DEF OpenScopesAreHeld
<1>3. QED
  BY <1>1, <1>2, HeldStays

LEMMA HeldOfOpen ==
  ASSUME PageInv, OpenScopesAreHeld, NEW k \in Tasks, OpenScope(k)
  PROVE  OpenScopesAreHeld'
<1> SUFFICES ASSUME NEW b \in BindingIds, scopes'[b].state = "active"
             PROVE  RowHolds(b)' \/ \E j \in Tasks : Holds(j, b)'
  BY DEF OpenScopesAreHeld
<1>1. /\ TasksOK /\ task[k] \in TasksOf(task[k].p) /\ scopes \in [BindingIds -> ScopeRows]
      /\ task[k].b \in BindingIds /\ TaskStep(k) /\ UNCHANGED bindings /\ ~ Holds(k, b)
  BY DEF PageInv, HostOK, TasksOK, TaskOK, OpenScope, At, TaskStep, ScopeStep, vars, Holds
<1>2. CASE UNCHANGED scopes
  BY <1>1, <1>2, HeldByOthers
<1>3. ASSUME NEW t \in Tokens, CreateScope(task[k].b, t), ~ UNCHANGED scopes,
             task' = [task EXCEPT ![k].pc = "activate", ![k].h = t]
      PROVE  RowHolds(b)' \/ \E j \in Tasks : Holds(j, b)'
  <2>1. scopes' = [scopes EXCEPT ![task[k].b] = [state |-> "active", token |-> t]]
    BY <1>3, Zenon DEF CreateScope, host
  <2>2. CASE b = task[k].b
    <3>1. scopes'[b].token = t
      BY <1>1, <2>1, <2>2
    <3>2. task'[k].pc = "activate" /\ task'[k].h = t /\ task'[k].b = b
      BY <1>1, <1>3, <2>2 DEF TasksOK, TasksOf
    <3>3. Holds(k, b)'
      BY <3>1, <3>2 DEF Holds
    <3>4. QED
      BY <3>3
  <2>3. CASE b # task[k].b
    <3>1. scopes'[b] = scopes[b]
      BY <1>1, <2>1, <2>3
    <3>2. QED
      BY <1>1, <3>1, HeldByOthers
  <2>4. QED
    BY <2>2, <2>3
<1>4. QED
  BY <1>2, <1>3 DEF OpenScope, host

\* The row takes the token and holds the Scope, or the Scope is closed again.
LEMMA HeldOfActivate ==
  ASSUME PageInv, FirstHost, OpenScopesAreHeld, NEW k \in Tasks, ActivateScope(k)
  PROVE  OpenScopesAreHeld'
<1> SUFFICES ASSUME NEW b \in BindingIds, scopes'[b].state = "active"
             PROVE  RowHolds(b)' \/ \E j \in Tasks : Holds(j, b)'
  BY DEF OpenScopesAreHeld
<1>1. /\ HostOK /\ StoreInv /\ task[k].b \in BindingIds /\ task[k].page \in Pages /\ TaskStep(k)
      /\ task[k].pc = "activate"
  BY DEF PageInv, TasksOK, TaskOK, ActivateScope, At, TaskStep, ScopeStep
<1>2. CASE UNCHANGED host /\ ActivateRuntimeBinding(task[k].b, task[k].h)
  <2>1. bindings \in [BindingIds -> Bindings]
    BY <1>1 DEF StoreInv, Inv, Typed, TypeOK, BindingsType, RowsType
  <2>2. /\ bindings' = [bindings EXCEPT ![task[k].b] = [state |-> "active", token |-> task[k].h]]
        /\ bindings[task[k].b].state = "creating" /\ UNCHANGED scopes
    BY <1>2 DEF ActivateRuntimeBinding, Grant, host
  <2>3. RowHolds(b) => bindings'[b] = bindings[b]
    BY <2>1, <2>2 DEF RowHolds
  <2>4. CASE Holds(k, b)
    <3>1. task[k].b = b /\ task[k].h = scopes[b].token
      BY <1>1, <2>4 DEF Holds
    <3>2. bindings'[b].state = "active" /\ bindings'[b].token = scopes'[b].token
      BY <2>1, <2>2, <3>1 DEF Bindings
    <3>3. QED
      BY <3>2 DEF RowHolds
  <2>5. CASE ~ Holds(k, b)
    BY <1>1, <2>2, <2>3, <2>5, HeldByOthers
  <2>6. QED
    BY <2>4, <2>5
<1>3. CASE UNCHANGED vars /\ CloseScope(task[k].page, task[k].b, task[k].h)
  <2>1. scopes[b].state = "active" /\ scopes'[b] = scopes[b] /\ (b = task[k].b => scopes[b].token # task[k].h)
    BY <1>1, <1>3, ScopeClosed
  <2>2. ~ Holds(k, b) /\ UNCHANGED bindings
    BY <1>1, <1>3, <2>1 DEF Holds, vars
  <2>3. QED
    BY <1>1, <2>1, <2>2, HeldByOthers
<1>4. QED
  BY <1>2, <1>3 DEF ActivateScope

LEMMA HeldOfClose ==
  ASSUME PageInv, FirstHost, OpenScopesAreHeld, NEW k \in Tasks, CloseReleased(k) \/ RotateClose(k), ~ Lose
  PROVE  OpenScopesAreHeld'
<1> SUFFICES ASSUME NEW b \in BindingIds, scopes'[b].state = "active"
             PROVE  RowHolds(b)' \/ \E j \in Tasks : Holds(j, b)'
  BY DEF OpenScopesAreHeld
<1>1. HostOK /\ TaskOK(task[k]) /\ task[k].page \in Pages /\ TaskStep(k)
  BY DEF PageInv, TasksOK, TaskOK, CloseReleased, RotateClose, At, TaskStep, IntentStep
<1>2. CASE CloseReleased(k)
  <2>1. /\ task[k].pc = "close" /\ task[k].b \in BindingIds /\ UNCHANGED bindings
        /\ CloseScope(task[k].page, task[k].b, task[k].t)
    BY <1>1, <1>2 DEF CloseReleased, At, TaskOK, vars
  <2>2. scopes[b].state = "active" /\ scopes'[b] = scopes[b] /\ (b = task[k].b => scopes[b].token # task[k].t)
    BY <1>1, <2>1, ScopeClosed
  <2>3. ~ Holds(k, b)
    BY <2>1, <2>2 DEF Holds
  <2>4. QED
    BY <1>1, <2>1, <2>2, <2>3, HeldByOthers
<1>3. CASE RotateClose(k)
  <2>1. ~ Holds(k, b)
    BY <1>3 DEF RotateClose, At, Holds
  <2>2. CASE UNCHANGED <<vars, host>>
    BY <1>1, <2>1, <2>2, HeldByOthers DEF vars, host
  <2>3. ASSUME NEW c \in ActiveBindings, MarkBindingClosed(c),
               CloseScope(task[k].page, c, bindings[c].token)
        PROVE  RowHolds(b)' \/ \E j \in Tasks : Holds(j, b)'
    <3>1. c \in BindingIds
      BY DEF ActiveBindings
    <3>2. /\ scopes[b].state = "active" /\ scopes'[b] = scopes[b]
          /\ b = c => scopes[b].token # bindings[c].token
      BY <1>1, <2>3, <3>1, ScopeClosed
    <3>3. RowHolds(b) => b # c
      BY <3>2 DEF RowHolds
    <3>4. b # c => bindings'[b] = bindings[b]
      BY <2>3 DEF MarkBindingClosed
    <3>5. QED
      BY <1>1, <2>1, <3>2, <3>3, <3>4, HeldByOthers
  <2>4. QED
    BY <1>3, <2>2, <2>3 DEF RotateClose
<1>4. QED
  BY <1>2, <1>3

LEMMA HeldOfTask ==
  ASSUME PageInv, FirstHost, OpenScopesAreHeld, NEW k \in Tasks, TaskStep(k), ~ Lose
  PROVE  OpenScopesAreHeld'
<1>1. CASE ~ OpenScope(k) /\ ~ ActivateScope(k) /\ ~ CloseReleased(k) /\ ~ RotateClose(k)
  <2> SUFFICES ASSUME NEW b \in BindingIds, scopes'[b].state = "active"
               PROVE  RowHolds(b)' \/ \E j \in Tasks : Holds(j, b)'
    BY DEF OpenScopesAreHeld
  <2>1. UNCHANGED scopes
    BY <1>1, OtherScopesStay
  <2>2. ~ Holds(k, b)
    BY <1>1, StepsAt DEF Holds
  <2>3. RowHolds(b) => bindings'[b] = bindings[b]
    <3>1. CASE EnsureScope(k) \/ BindScope(k)
      <4>1. \/ UNCHANGED vars
            \/ \E c \in BindingIds : scopes[c].state # "active" /\ MarkBindingClosed(c)
            \/ \E c \in BindingIds : CreateRuntimeBinding(c)
        BY <3>1 DEF EnsureScope, BindScope, ActiveBindings
      <4>2. \/ UNCHANGED bindings
            \/ \E c \in BindingIds : /\ bindings' = [bindings EXCEPT ![c].state = "closed"]
                                     /\ scopes[c].state # "active"
            \/ \E c \in BindingIds : /\ bindings' = [bindings EXCEPT ![c].state = "creating"]
                                     /\ bindings[c].state = "none"
        BY <4>1 DEF MarkBindingClosed, CreateRuntimeBinding, vars
      <4>3. bindings \in [BindingIds -> Bindings]
        BY DEF PageInv, StoreInv, Inv, Typed, TypeOK, BindingsType, RowsType
      <4>4. QED
        BY <2>1, <4>2, <4>3 DEF RowHolds
    <3>2. CASE ~ (EnsureScope(k) \/ BindScope(k))
      BY <1>1, <3>2, TaskKeepsBindings DEF Binds
    <3>3. QED
      BY <3>1, <3>2
  <2>4. QED
    BY <2>1, <2>2, <2>3, HeldByOthers
<1>2. QED
  BY <1>1, HeldOfOpen, HeldOfActivate, HeldOfClose

\* The intent that closed the row closes the Scope next.
LEMMA HeldOfUser ==
  ASSUME PageInv, OpenScopesAreHeld, NEW k \in Tasks, NEW p \in Pages, UserStep(k, p)
  PROVE  OpenScopesAreHeld'
<1> SUFFICES ASSUME NEW b \in BindingIds, scopes'[b].state = "active"
             PROVE  RowHolds(b)' \/ \E j \in Tasks : Holds(j, b)'
  BY DEF OpenScopesAreHeld
<1>1. UNCHANGED scopes /\ \A j \in Tasks : j # k => task'[j] = task[j]
  BY UserStepHost, OnlyOwnTaskOfUser DEF PageInv, host
<1>2. \A j \in Tasks : Holds(j, b) => task'[j] = task[j]
  BY <1>1, UserStepStarts DEF PageInv, Holds
<1>3. RowHolds(b) \/ \E j \in Tasks : Holds(j, b)
  BY <1>1 DEF OpenScopesAreHeld
<1>4. CASE ~ ReleaseRoom(k, p)
  BY <1>1, <1>2, <1>3, <1>4, UserKeepsBindings, HeldStays
<1>5. CASE ReleaseRoom(k, p)
  <2>1. PICK c \in ActiveBindings :
          /\ ReleaseRuntime(c)
          /\ task' = [task EXCEPT ![k] = [Idle EXCEPT !.pc = "close", !.page = p, !.b = c,
                                                      !.t = bindings[c].token]]
    BY <1>5 DEF ReleaseRoom
  <2>2. c \in BindingIds /\ bindings' = [bindings EXCEPT ![c].state = "closed"]
    BY <2>1 DEF ActiveBindings, ReleaseRuntime, MarkBindingClosed
  <2>3. CASE RowHolds(b) /\ b = c
    <3>1. task'[k].pc = "close" /\ task'[k].b = c /\ task'[k].t = bindings[c].token
      BY <2>1 DEF PageInv, TasksOK, Idle
    <3>2. Holds(k, b)'
      BY <1>1, <2>3, <3>1 DEF Holds, RowHolds
    <3>3. QED
      BY <3>2
  <2>4. CASE b # c \/ ~ RowHolds(b)
    <3>1. bindings \in [BindingIds -> Bindings]
      BY DEF PageInv, StoreInv, Inv, Typed, TypeOK, BindingsType, RowsType
    <3>2. b # c => bindings'[b] = bindings[b]
      BY <2>2, <3>1
    <3>3. QED
      BY <1>1, <1>2, <1>3, <2>4, <3>2, HeldStays
  <2>5. QED
    BY <2>3, <2>4
<1>6. QED
  BY <1>4, <1>5

LEMMA HeldOfPage ==
  ASSUME PageInv, LockOK, NobodyTookOver, OpenScopesAreHeld, NEW p \in Pages, PageStep(p)
  PROVE  OpenScopesAreHeld'
<1> SUFFICES ASSUME NEW b \in BindingIds, scopes'[b].state = "active"
             PROVE  RowHolds(b)' \/ \E j \in Tasks : Holds(j, b)'
  BY DEF OpenScopesAreHeld
<1>1. ~ Adopt(p) /\ ~ SettleLost(p) /\ UNCHANGED task
  BY NothingToTakeOver, PageStepBehaves DEF Behaves
<1>2. UNCHANGED scopes
  <2>1. CASE TakeOver(p)
    BY <2>1, NothingToTakeOver DEF host
  <2>2. CASE ~ TakeOver(p)
    BY <2>2, ZenonT(60) DEF PageStep, OpenRoom, GetLock, Adopt, SettleLost, AuditStart, AuditQuery,
       AuditSettle, AuditRowsDone, ResendAck, AuditDone, OnlyView, host
  <2>3. QED
    BY <2>1, <2>2
<1>3. RowHolds(b) => bindings'[b] = bindings[b]
  <2>1. bindings \in [BindingIds -> Bindings]
    BY DEF PageInv, StoreInv, Inv, Typed, TypeOK, BindingsType, RowsType
  <2>2. \/ UNCHANGED bindings
        \/ \E c \in BindingIds : bindings[c].state = "creating" /\ bindings' = [bindings EXCEPT ![c].state = "closed"]
    BY <1>1, PageKeepsBindings DEF MarkBindingClosed
  <2>3. QED
    BY <2>1, <2>2 DEF RowHolds
<1>4. QED
  BY <1>1, <1>2, <1>3, HeldStays DEF OpenScopesAreHeld

LEMMA HeldNext ==
  ASSUME PageInv, SpentOK, LockOK, NobodyTookOver, FirstHost, OpenScopesAreHeld,
         [OrchestratorNext]_orchestratorVars, Steady', spent'.lost = 0
  PROVE  OpenScopesAreHeld'
<1>1. ~ Lose
  BY Spends
<1>2. CASE HostStep
  <2>1. UNCHANGED <<bindings, task>>
    BY <1>2, HostStepLeaves DEF vars
  <2>2. UNCHANGED scopes \/ \A b \in BindingIds : scopes'[b].state # "active"
    BY <1>1, <1>2 DEF HostStep, TurnEnds, ReapScope, RestartHost, PageInv, HostOK, ScopeRows
  <2>3. QED
    BY <2>1, <2>2 DEF OpenScopesAreHeld, RowHolds, Holds
<1>3. CASE UNCHANGED orchestratorVars
  BY <1>3 DEF orchestratorVars, vars, host, OpenScopesAreHeld, RowHolds, Holds
<1>4. QED
  BY <1>1, <1>2, <1>3, SteadySteps, HeldOfTask, HeldOfUser, HeldOfPage

\* While no request is lost and nobody leaves, every Scope the Host keeps open is one
\* that a live row names, or that an intent is about to activate or to close.
THEOREM NoWarmScopeLeaksHolds == OrchestratorSpec => []NoWarmScopeLeaks
<1> DEFINE Held == /\ SpentOK
                   /\ Steady => LockOK /\ NobodyTookOver /\ FirstHost
                   /\ Steady /\ spent.lost = 0 => OpenScopesAreHeld
<1>1. OrchestratorInit => Held
  <2>1. OrchestratorInit => \A p \in Pages : view[p].ctl = "off" /\ view[p].inst = 0
    BY DEF OrchestratorInit, Loaded
  <2>2. OrchestratorInit => \A b \in BindingIds : bindings[b].state = "none" /\ scopes[b].state = "none"
    BY DEF OrchestratorInit, Init
  <2>3. OrchestratorInit => NobodyTookOver /\ FirstHost /\ OpenScopesAreHeld
    BY <2>1, <2>2 DEF NobodyTookOver, FirstHost, OpenScopesAreHeld
  <2>4. QED
    BY <2>3, LockInit
<1>2. PageInv /\ Held /\ [OrchestratorNext]_orchestratorVars => Held'
  <2>1. SUFFICES ASSUME PageInv, Held, [OrchestratorNext]_orchestratorVars
                 PROVE  Held'
    OBVIOUS
  <2>2. SpentOK' /\ (Steady' => Steady) /\ (spent'.lost = 0 => spent.lost = 0)
    BY <2>1, Spends DEF Steady
  <2>3. Steady' => LockOK' /\ NobodyTookOver' /\ FirstHost'
    BY <2>1, <2>2, LockNext, NobodyNext, FirstHostNext
  <2>4. Steady' /\ spent'.lost = 0 => OpenScopesAreHeld'
    BY <2>1, <2>2, HeldNext
  <2>5. QED
    BY <2>2, <2>3, <2>4
<1>3. Held => NoWarmScopeLeaks
  <2>1. SUFFICES ASSUME Held, NEW b \in BindingIds, scopes[b].state = "active",
                        bindings[b].state \notin {"creating", "active"},
                        ~ (spent.lost + spent.reloads + spent.handovers > 0)
                 PROVE  \E k \in Tasks : task[k].b = b /\ task[k].pc \in {"activate", "close"}
    BY DEF NoWarmScopeLeaks
  <2>2. Steady /\ spent.lost = 0
    BY <2>1 DEF SpentOK, Steady
  <2>3. QED
    BY <2>1, <2>2 DEF OpenScopesAreHeld, RowHolds, Holds
<1>4. QED
  BY <1>1, <1>2, <1>3, PagesInit, PagesNext, PTL DEF OrchestratorSpec
===============================================================================
