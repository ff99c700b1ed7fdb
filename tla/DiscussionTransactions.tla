------------------------ MODULE DiscussionTransactions ------------------------
(***************************************************************************)
(* The durable discussion state of one Room and every Dexie transaction    *)
(* that changes it (src/lib/discussion-transactions.ts).  A transaction is *)
(* one action; a transaction that throws rolls back and a replay that      *)
(* returns the stored answer writes nothing, so both are stuttering steps. *)
(*                                                                         *)
(* Callers are pages.  They hold a controller token and a copy of the Room *)
(* row that may both be stale: a transaction takes the token as parameter  *)
(* t and an execution is created against any (revision, digest) pair the   *)
(* Room row has ever held (published).                                     *)
(*                                                                         *)
(* Data abstraction.  Items of the shared projection are only ever         *)
(* appended, so the projection is identified by its length and the topic,  *)
(* and that pair stands for contextDigest.  Ids are numbers given in the   *)
(* order of creation.  A message is identified with the execution that     *)
(* produced it (the unique sourceExecutionId index).                       *)
(***************************************************************************)
EXTENDS Naturals, Sequences, FiniteSets

CONSTANTS Participants,     \* participant rows of the Room (all "active": nothing ends one)
          Facilitator,      \* room.facilitatorParticipantId
          Orders,           \* the participant orders a Round may be created with
          Topics,           \* values of topic/background a page may write
          RoundIds,         \* 1..n: Rounds, by roundNumber
          ExecutionIds,     \* 1..n: ModelExecution rows, by creation
          BindingIds,       \* RuntimeBinding rows
          Tokens,           \* controllerId/leaseEpoch pairs the Host can hand out
          MaxUserWrites,    \* bound: user messages and topic changes of the Room
          None              \* an absent value (null)

ASSUME RoundIdsAssumption     == RoundIds \subseteq Nat /\ None \notin RoundIds
ASSUME ExecutionIdsAssumption == ExecutionIds \subseteq Nat /\ None \notin ExecutionIds
ASSUME FacilitatorAssumption  == Facilitator \in Participants /\ None \notin Participants
ASSUME OrdersAssumption       ==
  /\ Orders \subseteq Seq(Participants)
  /\ \A o \in Orders : /\ o # <<>>
                       /\ \A i, j \in DOMAIN o : o[i] = o[j] => i = j
ASSUME TokensAssumption       == None \notin Tokens
ASSUME BoundAssumption        == MaxUserWrites \in Nat

VARIABLES room,        \* the DiscussionRoom row
          rounds,      \* the DiscussionRound rows
          executions,  \* the ModelExecution rows
          projection,  \* messages and summaries, in chronological order
          reports,     \* DecisionReport rows, by sourceExecutionId
          bindings,    \* the RuntimeBinding rows
          granted,     \* tokens the Host has handed out
          published    \* (revision, digest) pairs the Room row has held

vars == <<room, rounds, executions, projection, reports, bindings, granted, published>>

RoundPhases     == {"none", "pending", "prewarming", "running", "summarizing",
                    "paused", "completed", "aborted"}
ExecutionStates == {"none", "prepared", "running", "succeeded_uncommitted",
                    "committed", "discarded", "failed", "interrupted"}
ResultKinds     == {"message", "summary", "focus", "report"}
LiveStates      == {"prepared", "running", "succeeded_uncommitted"}
FailureStates   == {"discarded", "failed", "interrupted"}
FinalPhases     == {"completed", "aborted"}

Digests      == [topic : Topics, items : Nat]
Contexts     == [revision : Nat, digest : Digests]
PauseReasons == [participantId : Participants \cup {None},
                 executionId   : ExecutionIds \cup {None}]

ASSUME ReasonAssumption == None \notin PauseReasons
ASSUME PhaseAssumption  == None \notin RoundPhases

Rounds == [phase                : RoundPhases,
           participantOrder     : Seq(Participants),
           nextParticipantIndex : Nat,
           activeExecutionId    : ExecutionIds \cup {None},
           focusMessageId       : ExecutionIds \cup {None},
           pausedFrom           : {"prewarming", "running", "summarizing", None},
           pauseReason          : PauseReasons \cup {None}]

Executions == [state         : ExecutionStates,
               resultKind    : ResultKinds,
               roundId       : RoundIds \cup {None},
               participantId : Participants,
               context       : Contexts,
               ackState      : {None, "pending", "acknowledged", "expired"}]

Items == [role              : {"user", "participant", "summary"},
          roundId           : RoundIds,
          participantId     : Participants \cup {None},
          sourceExecutionId : ExecutionIds \cup {None}]

RoomRows == [status          : {"open", "concluded"},
             runState        : {"idle", "running", "paused"},
             activeRoundId   : RoundIds \cup {None},
             topic           : Topics,
             contextRevision : Nat,
             contextDigest   : Digests]

Bindings == [state : {"none", "creating", "active", "closed"}, token : Tokens \cup {None}]

RowsType     == room \in RoomRows /\ rounds \in [RoundIds -> Rounds]
                /\ executions \in [ExecutionIds -> Executions]
EntitiesType == projection \in Seq(Items) /\ reports \subseteq ExecutionIds
BindingsType == bindings \in [BindingIds -> Bindings] /\ granted \subseteq Tokens
ContextType  == published \subseteq Contexts

TypeOK == RowsType /\ EntitiesType /\ BindingsType /\ ContextType

-----------------------------------------------------------------------------
(* Reading the rows.                                                       *)

Live(e)       == executions[e].state \in LiveStates
LiveReport(e) == Live(e) /\ executions[e].resultKind = "report"

\* requireController: the caller's pair is the one on the active binding.
RequireController(t) ==
  \E b \in BindingIds : bindings[b].state = "active" /\ bindings[b].token = t

ActiveBinding == \E b \in BindingIds : bindings[b].state = "active"

AtCursor(round, p) ==
  /\ round.nextParticipantIndex < Len(round.participantOrder)
  /\ round.participantOrder[round.nextParticipantIndex + 1] = p

ComputeContextDigest(topic, items) == [topic |-> topic, items |-> Len(items)]

\* Mutant: any context the Room has left behind passes.
FreshContext_NotNewer(e) == executions[e].context.revision <= room.contextRevision

\* The context an execution was created against is still the Room's context.
FreshContext(e) ==
  executions[e].context = [revision |-> room.contextRevision, digest |-> room.contextDigest]

\* The Room row after a commit into the shared projection: one revision more.
BumpRoomContext(row, topic, items) ==
  [row EXCEPT !.topic = topic,
              !.contextRevision = @ + 1,
              !.contextDigest = ComputeContextDigest(topic, items)]

Publish(row) ==
  published' = published \cup {[revision |-> row.contextRevision, digest |-> row.contextDigest]}

\* A phase change to "paused" keeps the phase to resume into.
Paused(round, reason) ==
  [round EXCEPT !.phase = "paused", !.pausedFrom = round.phase, !.pauseReason = reason]

Aborted(round) ==
  [round EXCEPT !.phase = "aborted", !.pausedFrom = None, !.pauseReason = None,
                !.activeExecutionId = None]

\* The Round after its active execution e ended without an entity.
WithoutExecution(round, e, pause) ==
  IF round.activeExecutionId # e THEN round
  ELSE LET freed == [round EXCEPT !.activeExecutionId = None]
       IN  IF pause /\ round.phase \in {"running", "summarizing"}
           THEN Paused(freed, [participantId |-> executions[e].participantId, executionId |-> e])
           ELSE freed

-----------------------------------------------------------------------------
(* A new Room: revision 0 over the empty projection.                       *)

NoRound == [phase |-> "none", participantOrder |-> <<>>, nextParticipantIndex |-> 0,
            activeExecutionId |-> None, focusMessageId |-> None,
            pausedFrom |-> None, pauseReason |-> None]

InitialDigest(topic) == ComputeContextDigest(topic, <<>>)

Init ==
  \E topic \in Topics :
    /\ room = [status |-> "open", runState |-> "idle", activeRoundId |-> None, topic |-> topic,
               contextRevision |-> 0, contextDigest |-> InitialDigest(topic)]
    /\ rounds = [r \in RoundIds |-> NoRound]
    /\ executions = [e \in ExecutionIds |->
                       [state |-> "none", resultKind |-> "message", roundId |-> None,
                        participantId |-> Facilitator, ackState |-> None,
                        context |-> [revision |-> 0, digest |-> InitialDigest(topic)]]]
    /\ projection = <<>>
    /\ reports = {}
    /\ bindings = [b \in BindingIds |-> [state |-> "none", token |-> None]]
    /\ granted = {}
    /\ published = {[revision |-> 0, digest |-> InitialDigest(topic)]}

-----------------------------------------------------------------------------
(* Writes into the shared context.                                         *)

\* Revisions that no commit of an execution accounts for.
UserWrites ==
  room.contextRevision
    - Cardinality({i \in DOMAIN projection : projection[i].sourceExecutionId # None})

AppendItem(item) ==
  /\ projection' = Append(projection, item)
  /\ Publish(BumpRoomContext(room, room.topic, Append(projection, item)))

\* A user follow-up, attached to any Round of the Room.
AppendUserMessage(t, r) ==
  LET item == [role |-> "user", roundId |-> r, participantId |-> None, sourceExecutionId |-> None]
  IN  /\ RequireController(t)
      /\ rounds[r].phase # "none"
      /\ UserWrites < MaxUserWrites
      /\ AppendItem(item)
      /\ room' = BumpRoomContext(room, room.topic, projection')
      /\ UNCHANGED <<rounds, executions, reports, bindings, granted>>

WriteTopic(topic) ==
  /\ topic # room.topic
  /\ UserWrites < MaxUserWrites
  /\ room' = BumpRoomContext(room, topic, projection)
  /\ Publish(BumpRoomContext(room, topic, projection))
  /\ UNCHANGED <<rounds, executions, projection, reports, bindings, granted>>

UpdateRoomSharedConfig(t, topic) == RequireController(t) /\ WriteTopic(topic)

\* Mutant: the cold write changes the topic and not the digest.
RenameColdRoom_NoBump(topic) ==
  /\ ~ ActiveBinding /\ topic # room.topic /\ UserWrites < MaxUserWrites
  /\ room' = [room EXCEPT !.topic = topic]
  /\ UNCHANGED <<rounds, executions, projection, reports, bindings, granted, published>>

\* renameRoom on a Room whose runtime is cold: no token exists, none is asked for.
RenameColdRoom(topic) == ~ ActiveBinding /\ WriteTopic(topic)

\* The user's scheduling gate: pauseRoom and resumeRoom write it.
SetRoomRunState(t, runState) ==
  /\ RequireController(t)
  /\ room' = [room EXCEPT !.runState = runState]
  /\ UNCHANGED <<rounds, executions, projection, reports, bindings, granted, published>>

-----------------------------------------------------------------------------
(* The lifecycle of a Round.                                               *)

NextRound(r) == /\ rounds[r].phase = "none"
                /\ \A q \in RoundIds : q < r => rounds[q].phase # "none"

\* Mutant: a Round may open while a report is in flight.
CreateRound_DuringReport(t, r, order) ==
  /\ RequireController(t)
  /\ room.runState # "paused" /\ room.status # "concluded" /\ room.activeRoundId = None
  /\ NextRound(r)
  /\ rounds' = [rounds EXCEPT ![r] = [NoRound EXCEPT !.phase = "pending",
                                                     !.participantOrder = order]]
  /\ room' = [room EXCEPT !.activeRoundId = r, !.runState = "running"]
  /\ UNCHANGED <<executions, projection, reports, bindings, granted, published>>

CreateRound(t, r, order) ==
  /\ RequireController(t)
  /\ room.runState # "paused"
  /\ room.status # "concluded"
  /\ room.activeRoundId = None
  /\ \A e \in ExecutionIds : ~ LiveReport(e)
  /\ NextRound(r)
  /\ rounds' = [rounds EXCEPT ![r] = [NoRound EXCEPT !.phase = "pending",
                                                     !.participantOrder = order]]
  /\ room' = [room EXCEPT !.activeRoundId = r, !.runState = "running"]
  /\ UNCHANGED <<executions, projection, reports, bindings, granted, published>>

TransitionRound(t, r, to) ==
  /\ RequireController(t)
  /\ rounds[r].phase = IF to = "prewarming" THEN "pending" ELSE "prewarming"
  /\ rounds' = [rounds EXCEPT ![r].phase = to]
  /\ UNCHANGED <<room, executions, projection, reports, bindings, granted, published>>

PauseRound(t, r, reason) ==
  /\ RequireController(t)
  /\ rounds[r].phase \in {"prewarming", "running", "summarizing"}
  /\ rounds' = [rounds EXCEPT ![r] = Paused(@, reason)]
  /\ UNCHANGED <<room, executions, projection, reports, bindings, granted, published>>

\* The only caller of pauseRound: startRound, before it moves the Round to "running".
PrewarmFailed(t, r) ==
  /\ rounds[r].phase = "prewarming"
  /\ \E p \in Participants \cup {None} :
       PauseRound(t, r, [participantId |-> p, executionId |-> None])

ResumeRound(t, r) ==
  /\ RequireController(t)
  /\ rounds[r].phase = "paused"
  /\ rounds[r].pausedFrom # None
  /\ rounds' = [rounds EXCEPT ![r].phase = rounds[r].pausedFrom,
                              ![r].pausedFrom = None, ![r].pauseReason = None]
  /\ UNCHANGED <<room, executions, projection, reports, bindings, granted, published>>

\* The only caller of resumeRound: retryFailedParticipant, on a pause that names
\* a failed execution (the failure itself is dispatched again by a Begin action).
RetryFailedParticipant(t, r) ==
  /\ rounds[r].pauseReason # None
  /\ rounds[r].pauseReason.executionId # None
  /\ ResumeRound(t, r)

\* Mutant: the aborted Round leaves its execution live.
InterruptIfLive_Forgotten(e) == executions

InterruptIfLive(e) ==
  IF e # None /\ Live(e)
  THEN [executions EXCEPT ![e].state = "interrupted", ![e].ackState = None]
  ELSE executions

\* Mutant: the Room keeps pointing at the aborted Round.
AbortRound_KeepsActiveRound(t, r) ==
  /\ RequireController(t)
  /\ rounds[r].phase \in {"running", "summarizing", "paused"}
  /\ executions' = InterruptIfLive(rounds[r].activeExecutionId)
  /\ rounds' = [rounds EXCEPT ![r] = Aborted(@)]
  /\ room' = [room EXCEPT !.runState = "idle"]
  /\ UNCHANGED <<projection, reports, bindings, granted, published>>

\* abortPausedRound reads "paused" first; by the time the transaction runs the
\* Round may have been resumed, with an execution in flight.
AbortRound(t, r) ==
  /\ RequireController(t)
  /\ rounds[r].phase \in {"running", "summarizing", "paused"}
  /\ executions' = InterruptIfLive(rounds[r].activeExecutionId)
  /\ rounds' = [rounds EXCEPT ![r] = Aborted(@)]
  /\ room' = [room EXCEPT !.activeRoundId = None, !.runState = "idle"]
  /\ UNCHANGED <<projection, reports, bindings, granted, published>>

\* Mutant: any participant named by a pause is skipped, at the cursor or not.
SkipParticipant_AnyPause(t, r) ==
  LET cursor == rounds[r].nextParticipantIndex + 1
  IN  /\ RequireController(t) /\ room.activeRoundId = r
      /\ rounds[r].phase = "paused"
      /\ rounds[r].pauseReason.participantId \notin {None, Facilitator}
      /\ rounds' = [rounds EXCEPT ![r].nextParticipantIndex = cursor,
                                  ![r].pausedFrom = None, ![r].pauseReason = None,
                                  ![r].phase = IF cursor >= Len(rounds[r].participantOrder)
                                               THEN "summarizing" ELSE "running"]
      /\ UNCHANGED <<room, executions, projection, reports, bindings, granted, published>>

SkipParticipant(t, r) ==
  LET round  == rounds[r]
      cursor == round.nextParticipantIndex + 1
  IN  /\ RequireController(t)
      /\ room.activeRoundId = r
      /\ round.phase = "paused"
      /\ round.pauseReason # None
      /\ round.pauseReason.participantId \notin {None, Facilitator}
      /\ round.pausedFrom = "running"
      /\ AtCursor(round, round.pauseReason.participantId)
      /\ rounds' = [rounds EXCEPT ![r] =
           [round EXCEPT !.nextParticipantIndex = cursor,
                         !.activeExecutionId = None, !.pausedFrom = None, !.pauseReason = None,
                         !.phase = IF cursor >= Len(round.participantOrder)
                                   THEN "summarizing" ELSE "running"]]
      /\ UNCHANGED <<room, executions, projection, reports, bindings, granted, published>>

-----------------------------------------------------------------------------
(* Anchoring an execution before its dispatch.                             *)

NextExecution(e) == /\ executions[e].state = "none"
                    /\ \A x \in ExecutionIds : x < e => executions[x].state # "none"

AddExecution(e, kind, r, p, ctx) ==
  /\ NextExecution(e)
  /\ executions' = [executions EXCEPT ![e] =
       [state |-> "prepared", resultKind |-> kind, roundId |-> r, participantId |-> p,
        context |-> ctx, ackState |-> None]]

\* The active-execution slot of the Room's active Round is free in this phase.
SlotFree(r, phase) ==
  /\ room.activeRoundId = r
  /\ rounds[r].phase = phase
  /\ rounds[r].activeExecutionId = None

Occupy(r, e) == rounds' = [rounds EXCEPT ![r].activeExecutionId = e]

\* Mutant: the participant need not be the one at the cursor.
BeginExecution_AnyParticipant(t, e, kind, r, p, ctx) ==
  /\ RequireController(t)
  /\ SlotFree(r, IF kind = "summary" THEN "summarizing" ELSE "running")
  /\ rounds[r].focusMessageId # None
  /\ AddExecution(e, kind, r, p, ctx)
  /\ Occupy(r, e)
  /\ UNCHANGED <<room, projection, reports, bindings, granted, published>>

BeginExecution(t, e, kind, r, p, ctx) ==
  /\ RequireController(t)
  /\ SlotFree(r, IF kind = "summary" THEN "summarizing" ELSE "running")
  /\ IF kind = "summary" THEN p = Facilitator ELSE AtCursor(rounds[r], p)
  /\ rounds[r].focusMessageId # None
  /\ AddExecution(e, kind, r, p, ctx)
  /\ Occupy(r, e)
  /\ UNCHANGED <<room, projection, reports, bindings, granted, published>>

BeginFocusExecution(t, e, r, p, ctx) ==
  /\ RequireController(t)
  /\ SlotFree(r, "running")
  /\ p = Facilitator
  /\ rounds[r].focusMessageId = None
  /\ AddExecution(e, "focus", r, p, ctx)
  /\ Occupy(r, e)
  /\ UNCHANGED <<room, projection, reports, bindings, granted, published>>

\* The report anchors on a completed Round; an unfinalized Round without a live
\* execution is aborted in the same transaction.
BeginReportExecution(t, e, r, p, ctx) ==
  LET active == room.activeRoundId
  IN  /\ RequireController(t)
      /\ room.status # "concluded"
      /\ active # None => rounds[active].activeExecutionId = None
      /\ rounds[r].phase = "completed"
      /\ p = Facilitator
      /\ \A x \in ExecutionIds : ~ LiveReport(x)
      /\ AddExecution(e, "report", r, p, ctx)
      /\ IF active = None THEN UNCHANGED <<room, rounds>>
         ELSE /\ room' = [room EXCEPT !.activeRoundId = None, !.runState = "idle"]
              /\ rounds' = IF rounds[active].phase \in FinalPhases THEN rounds
                           ELSE [rounds EXCEPT ![active] = Aborted(@)]
      /\ UNCHANGED <<projection, reports, bindings, granted, published>>

SetState(e, from, to) ==
  /\ executions[e].state = from
  /\ executions' = [executions EXCEPT ![e].state = to]
  /\ UNCHANGED <<room, rounds, projection, reports, bindings, granted, published>>

\* Neither of these two transactions asks for the controller token.
MarkExecutionDispatched(e)          == SetState(e, "prepared", "running")
MarkExecutionSucceededUncommitted(e) == SetState(e, "running", "succeeded_uncommitted")

-----------------------------------------------------------------------------
(* The end of an execution: commit, intentional drop, failure.             *)

Persist(e, state) ==
  executions' = [executions EXCEPT ![e].state = state, ![e].ackState = "pending"]

DiscardLockedExecution(e) ==
  LET r == executions[e].roundId
  IN  /\ Persist(e, "discarded")
      /\ rounds' = [rounds EXCEPT ![r] = WithoutExecution(@, e, TRUE)]
      /\ UNCHANGED <<room, projection, reports, bindings, granted, published>>

Committable(t, e, kind) ==
  /\ RequireController(t)
  /\ executions[e].resultKind = kind
  /\ executions[e].state \in {"running", "succeeded_uncommitted"}

IsActiveExecution(e, phase) ==
  LET r == executions[e].roundId
  IN  /\ room.activeRoundId = r
      /\ rounds[r].phase = phase
      /\ rounds[r].activeExecutionId = e

ItemOf(e, role) ==
  [role |-> role, roundId |-> executions[e].roundId, sourceExecutionId |-> e,
   participantId |-> IF role = "summary" THEN None ELSE executions[e].participantId]

\* Mutant: the cursor stays where it is.
CommitModelMessage_KeepsCursor(t, e) ==
  /\ Committable(t, e, "message")
  /\ IsActiveExecution(e, "running")
  /\ FreshContext(e)
  /\ Persist(e, "committed")
  /\ AppendItem(ItemOf(e, "participant"))
  /\ room' = BumpRoomContext(room, room.topic, projection')
  /\ rounds' = [rounds EXCEPT ![executions[e].roundId].activeExecutionId = None]
  /\ UNCHANGED <<reports, bindings, granted>>

CommitModelMessage(t, e) ==
  LET r      == executions[e].roundId
      round  == rounds[r]
      cursor == round.nextParticipantIndex + 1
  IN  /\ Committable(t, e, "message")
      /\ round.focusMessageId # None
      /\ IsActiveExecution(e, "running")
      /\ IF ~ FreshContext(e) THEN DiscardLockedExecution(e)
         ELSE /\ Persist(e, "committed")
              /\ AppendItem(ItemOf(e, "participant"))
              /\ room' = BumpRoomContext(room, room.topic, projection')
              /\ rounds' = [rounds EXCEPT ![r] =
                   [round EXCEPT !.activeExecutionId = None,
                                 !.nextParticipantIndex = cursor,
                                 !.phase = IF cursor >= Len(round.participantOrder)
                                           THEN "summarizing" ELSE "running"]]
              /\ UNCHANGED <<reports, bindings, granted>>

CommitFocusMessage(t, e) ==
  LET r == executions[e].roundId
  IN  /\ Committable(t, e, "focus")
      /\ executions[e].participantId = Facilitator
      /\ IsActiveExecution(e, "running")
      /\ rounds[r].focusMessageId = None
      /\ IF ~ FreshContext(e) THEN DiscardLockedExecution(e)
         ELSE /\ Persist(e, "committed")
              /\ AppendItem(ItemOf(e, "participant"))
              /\ room' = BumpRoomContext(room, room.topic, projection')
              /\ rounds' = [rounds EXCEPT ![r].activeExecutionId = None, ![r].focusMessageId = e]
              /\ UNCHANGED <<reports, bindings, granted>>

CommitSummary(t, e) ==
  LET r == executions[e].roundId
  IN  /\ Committable(t, e, "summary")
      /\ IsActiveExecution(e, "summarizing")
      /\ rounds[r].nextParticipantIndex >= Len(rounds[r].participantOrder)
      /\ IF ~ FreshContext(e) THEN DiscardLockedExecution(e)
         ELSE /\ Persist(e, "committed")
              /\ AppendItem(ItemOf(e, "summary"))
              /\ rounds' = [rounds EXCEPT ![r].phase = "completed", ![r].activeExecutionId = None]
              /\ room' = [BumpRoomContext(room, room.topic, projection')
                            EXCEPT !.activeRoundId = None, !.runState = "idle"]
              /\ UNCHANGED <<reports, bindings, granted>>

\* Mutant: the Room is concluded by a later write.
CommitReport_NotAtomic(t, e) ==
  /\ Committable(t, e, "report")
  /\ reports = {} /\ room.status # "concluded" /\ FreshContext(e)
  /\ Persist(e, "committed")
  /\ reports' = reports \cup {e}
  /\ UNCHANGED <<room, rounds, projection, bindings, granted, published>>

\* The report is no part of the shared projection: the revision does not move.
CommitReport(t, e) ==
  /\ Committable(t, e, "report")
  /\ reports = {}
  /\ room.status # "concluded"
  /\ IF ~ FreshContext(e)
     THEN Persist(e, "discarded") /\ UNCHANGED <<room, reports>>
     ELSE /\ Persist(e, "committed")
          /\ reports' = reports \cup {e}
          /\ room' = [room EXCEPT !.status = "concluded", !.runState = "idle"]
  /\ UNCHANGED <<rounds, projection, bindings, granted, published>>

\* Mutant: a committed execution can be dropped.
DiscardExecution_EvenCommitted(t, e) ==
  /\ RequireController(t)
  /\ executions[e].state \in {"running", "succeeded_uncommitted", "committed"}
  /\ DiscardLockedExecution(e)

DiscardExecution(t, e) ==
  /\ RequireController(t)
  /\ executions[e].state \in {"running", "succeeded_uncommitted"}
  /\ DiscardLockedExecution(e)

\* Mutant: a row that is already terminal is overwritten.
RecordExecutionFailure_EvenTerminal(e, kind, pause) ==
  LET r == executions[e].roundId
  IN  /\ executions[e].state # "none"
      /\ executions' = [executions EXCEPT ![e].state = kind, ![e].ackState = None]
      /\ rounds' = [rounds EXCEPT ![r] = WithoutExecution(@, e, pause)]
      /\ UNCHANGED <<room, projection, reports, bindings, granted, published>>

RecordExecutionFailure(e, kind, pause) ==
  LET r == executions[e].roundId
  IN  /\ Live(e)
      /\ executions' = [executions EXCEPT ![e].state = kind, ![e].ackState = None]
      /\ rounds' = [rounds EXCEPT ![r] = WithoutExecution(@, e, pause)]
      /\ UNCHANGED <<room, projection, reports, bindings, granted, published>>

\* pause = FALSE frees the slot for the automatic retry and leaves the phase.
FailExecution(t, e, kind, pause) == RequireController(t) /\ RecordExecutionFailure(e, kind, pause)

\* Without an active binding nobody owns the Room, and no token is asked for.
FailUnboundExecution(e, kind) == ~ ActiveBinding /\ RecordExecutionFailure(e, kind, TRUE)

SetAckState(e, ackState) ==
  /\ executions[e].ackState = "pending"
  /\ executions' = [executions EXCEPT ![e].ackState = ackState]
  /\ UNCHANGED <<room, rounds, projection, reports, bindings, granted, published>>

MarkAcknowledged(e) == SetAckState(e, "acknowledged")
MarkAckExpired(e)   == SetAckState(e, "expired")

-----------------------------------------------------------------------------
(* The RuntimeBinding: the Room's link to a Host Scope and its controller. *)

BindingStep == UNCHANGED <<room, rounds, executions, projection, reports, published>>

\* Mutant: no check for another live binding of the Room.
CreateRuntimeBinding_Unchecked(b) ==
  /\ bindings[b].state = "none"
  /\ bindings' = [bindings EXCEPT ![b].state = "creating"]
  /\ BindingStep /\ UNCHANGED granted

CreateRuntimeBinding(b) ==
  /\ bindings[b].state = "none"
  /\ \A c \in BindingIds : bindings[c].state \notin {"creating", "active"}
  /\ bindings' = [bindings EXCEPT ![b].state = "creating"]
  /\ BindingStep /\ UNCHANGED granted

\* The Host hands out a controllerId once: t was never granted before.
Grant(b, t) ==
  /\ t \notin granted
  /\ granted' = granted \cup {t}
  /\ bindings' = [bindings EXCEPT ![b] = [state |-> "active", token |-> t]]
  /\ BindingStep

ActivateRuntimeBinding(b, t) == bindings[b].state = "creating" /\ Grant(b, t)
TakeoverRuntimeBinding(b, t) == bindings[b].state = "active" /\ Grant(b, t)

MarkBindingClosed(b) ==
  /\ bindings[b].state \in {"creating", "active"}
  /\ bindings' = [bindings EXCEPT ![b].state = "closed"]
  /\ BindingStep /\ UNCHANGED granted

\* releaseRuntime: the guards and the closure are one transaction.
ReleaseRuntime(b) ==
  /\ \A e \in ExecutionIds : ~ Live(e)
  /\ room.activeRoundId # None => rounds[room.activeRoundId].phase \in FinalPhases
  /\ bindings[b].state = "active"
  /\ MarkBindingClosed(b)

-----------------------------------------------------------------------------
ContextStep(t) ==
  \/ \E r \in RoundIds : AppendUserMessage(t, r)
  \/ \E topic \in Topics : UpdateRoomSharedConfig(t, topic)
  \/ \E runState \in {"running", "paused"} : SetRoomRunState(t, runState)

RoundStep(t) ==
  \E r \in RoundIds :
    \/ \E order \in Orders : CreateRound(t, r, order)
    \/ \E to \in {"prewarming", "running"} : TransitionRound(t, r, to)
    \/ PrewarmFailed(t, r)
    \/ RetryFailedParticipant(t, r)
    \/ AbortRound(t, r)
    \/ SkipParticipant(t, r)

BeginStep(t) ==
  \E e \in ExecutionIds, r \in RoundIds, p \in Participants, ctx \in published :
    \/ \E kind \in {"message", "summary"} : BeginExecution(t, e, kind, r, p, ctx)
    \/ BeginFocusExecution(t, e, r, p, ctx)
    \/ BeginReportExecution(t, e, r, p, ctx)

EndStep(t) ==
  \E e \in ExecutionIds :
    \/ CommitModelMessage(t, e)
    \/ CommitFocusMessage(t, e)
    \/ CommitSummary(t, e)
    \/ CommitReport(t, e)
    \/ DiscardExecution(t, e)
    \/ \E kind \in {"failed", "interrupted"}, pause \in BOOLEAN : FailExecution(t, e, kind, pause)

UncontrolledStep ==
  \/ \E topic \in Topics : RenameColdRoom(topic)
  \/ \E e \in ExecutionIds :
       \/ MarkExecutionDispatched(e)
       \/ MarkExecutionSucceededUncommitted(e)
       \/ \E kind \in {"failed", "interrupted"} : FailUnboundExecution(e, kind)
       \/ MarkAcknowledged(e)
       \/ MarkAckExpired(e)

BindingsStep ==
  \E b \in BindingIds :
    \/ CreateRuntimeBinding(b)
    \/ \E t \in Tokens : ActivateRuntimeBinding(b, t) \/ TakeoverRuntimeBinding(b, t)
    \/ MarkBindingClosed(b)
    \/ ReleaseRuntime(b)

Next ==
  \/ \E t \in Tokens : ContextStep(t) \/ RoundStep(t) \/ BeginStep(t) \/ EndStep(t)
  \/ UncontrolledStep
  \/ BindingsStep

Spec == Init /\ [][Next]_vars

=============================================================================
