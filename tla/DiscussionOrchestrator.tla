------------------------ MODULE DiscussionOrchestrator ------------------------
(***************************************************************************)
(* The pages that drive one Room (discussion-orchestrator.ts and           *)
(* commit-execution.ts) between the two stores they must keep together:    *)
(* the Dexie rows of DiscussionTransactions and the Runtime Host, which a  *)
(* page reaches by requests that can be refused, answered late or lost.    *)
(*                                                                         *)
(* An asynchronous function of the page is a task: a program counter and   *)
(* the locals it carries across its awaits (the controller token, the      *)
(* Room's context, the execution).  Between two awaits that touch a store  *)
(* a task makes one step; a transaction that throws ends its task and      *)
(* leaves whatever it had persisted.  Two reads with nothing written       *)
(* between them are one step.                                              *)
(*                                                                         *)
(* Several pages may show the Room.  A page controls it through a Web Lock *)
(* and a takeover at the Host; its tasks go on running when it releases or *)
(* loses the lock.  The Host keeps one Scope per RuntimeBinding (that is   *)
(* per scopeRequestId); tokens are numbered in the order it issues them.   *)
(***************************************************************************)
EXTENDS DiscussionTransactions

CONSTANTS Pages,        \* open browser tabs of the application
          Tasks,        \* asynchronous intents that may run at once
          MaxIntents,   \* bound: intents the user starts
          MaxRestarts,  \* bound: restarts of the Host
          MaxReloads,   \* bound: page loads after the first
          MaxHandovers, \* bound: a page leaves the Room, or steals its lock
          MaxLost,      \* bound: requests lost, or answered and the answer lost
          MaxMissed     \* bound: turns whose cancel was lost, whatever else is

ASSUME TokenOrderAssumption == Tokens \subseteq Nat
ASSUME PagesAssumption      == None \notin Pages

VARIABLES scopes,    \* Host: the Execution Scope of each binding, and its controller
          turns,     \* Host: the record of each execution it was sent, and its ACK; and
                     \* whether a request to cancel it was lost
          instance,  \* Host: hostInstanceId, a restart is a new one
          issued,    \* Host: controller tokens handed out so far
          origin,    \* rows: executionScopeId and hostInstanceId of a dispatched execution
          lock,      \* the Room's Web Lock: the page that holds it
          view,      \* per page: its control of the Room and its startup audit
          task,      \* the running intents
          spent      \* how often each bounded event has happened

host  == <<scopes, turns, instance, issued>>
pages == <<lock, view>>
orchestratorVars == <<vars, host, origin, pages, task, spent>>

TurnStates == {"none", "running", "completed", "failed", "not_dispatched", "cancelled", "killed"}
EndStates  == {"completed", "failed", "not_dispatched", "cancelled"}

Idle == [pc |-> "idle", page |-> None, t |-> None, h |-> None, b |-> None, r |-> None,
         e |-> None, p |-> None, kind |-> None, ctx |-> None, retry |-> FALSE,
         keep |-> FALSE, ret |-> None]

\* A page that has just loaded: not in the Room yet, its startup audit to run.
Loaded == [ctl |-> "off", holds |-> FALSE, b |-> None, t |-> None, todo |-> {},
           audit |-> "start", list |-> {}, probe |-> None, auditLock |-> FALSE,
           inst |-> instance]

OrchestratorInit ==
  /\ Init
  /\ scopes = [b \in BindingIds |-> [state |-> "none", token |-> None]]
  /\ turns = [e \in ExecutionIds |->
              [state |-> "none", b |-> None, ack |-> None, missed |-> FALSE]]
  /\ instance = 0 /\ issued = 0
  /\ origin = [e \in ExecutionIds |-> None]
  /\ lock = None
  /\ view = [p \in Pages |-> Loaded]
  /\ task = [k \in Tasks |-> Idle]
  /\ spent = [intents |-> 0, restarts |-> 0, reloads |-> 0, handovers |-> 0, lost |-> 0]

Spend(what, max) == spent[what] < max /\ spent' = [spent EXCEPT ![what] = @ + 1]
Lose == Spend("lost", MaxLost)

-----------------------------------------------------------------------------
(* What the Host answers.                                                  *)

\* A page loaded before the last restart has no session: every request gets 401.
Answers(p)   == view[p].inst = instance
Fenced(b, t) == scopes[b].state = "active" /\ scopes[b].token = t
Unknown(b)   == scopes[b].state \in {"none", "gone"}   \* 404
Known(e)     == turns[e].state # "none" /\ scopes[turns[e].b].state = "active"

Busy(b, p) ==
  \E e \in ExecutionIds : /\ turns[e].state = "running" /\ turns[e].b = b
                          /\ executions[e].participantId = p

Executable(p, b, t, who) == Answers(p) /\ Fenced(b, t) /\ ~ Busy(b, who)

NextToken(t) == t \in Tokens /\ t = issued + 1

\* The Host would accept this request to cancel the turn.
Stoppable(p, b, e, t) ==
  Answers(p) /\ Fenced(b, t) /\ turns[e].state = "running" /\ turns[e].b = b

\* A cancel request is best-effort, its failure is swallowed: it is refused or comes too
\* late, the turn ends user_cancelled, or the request is lost or not answered in time.
Cancel(p, b, e, t) ==
  IF Stoppable(p, b, e, t)
  THEN \/ turns' = [turns EXCEPT ![e].state = "cancelled"]
       \/ /\ Cardinality({d \in ExecutionIds : turns[d].missed}) < MaxMissed
          /\ turns' = [turns EXCEPT ![e].missed = TRUE]
  ELSE UNCHANGED turns

\* Closing a Scope ends its turns and forgets their records.
ClosedTurns(open) ==
  [e \in ExecutionIds |-> IF turns[e].state = "running" /\ turns[e].b \notin open
                          THEN [turns[e] EXCEPT !.state = "killed"] ELSE turns[e]]

CloseScope(p, b, t) ==
  IF Answers(p) /\ Fenced(b, t)
  THEN /\ scopes' = [scopes EXCEPT ![b].state = "closed"]
       /\ turns' = ClosedTurns(BindingIds \ {b})
       /\ UNCHANGED <<instance, issued>>
  ELSE UNCHANGED host

\* A cancel that was given up as lost may still arrive.
TurnEnds(e) ==
  /\ turns[e].state = "running"
  /\ \E end \in EndStates : /\ end = "cancelled" => turns[e].missed
                            /\ turns' = [turns EXCEPT ![e].state = end]
  /\ UNCHANGED <<vars, scopes, instance, issued, origin, pages, task, spent>>

\* The idle reaper closes a Scope in which nothing runs.
ReapScope(b) ==
  /\ scopes[b].state = "active"
  /\ \A e \in ExecutionIds : ~ (turns[e].state = "running" /\ turns[e].b = b)
  /\ scopes' = [scopes EXCEPT ![b].state = "closed"]
  /\ Lose
  /\ UNCHANGED <<vars, turns, instance, issued, origin, pages, task>>

RestartHost ==
  /\ Spend("restarts", MaxRestarts)
  /\ instance' = instance + 1
  /\ scopes' = [b \in BindingIds |-> [scopes[b] EXCEPT !.state = "gone"]]
  /\ turns' = ClosedTurns({})
  /\ UNCHANGED <<vars, issued, origin, pages, task>>

-----------------------------------------------------------------------------
(* Tasks.                                                                  *)

At(k, pc)  == task[k].pc = pc
Go(k, pc)  == task' = [task EXCEPT ![k].pc = pc]
End(k)     == task' = [task EXCEPT ![k] = Idle]
Continue(k, pc) == task' = [task EXCEPT ![k] = [Idle EXCEPT !.pc = pc, !.page = task[k].page]]

OnlyStore == UNCHANGED <<host, origin, pages, spent>>
OnlyTask  == UNCHANGED <<vars, host, origin, pages, spent>>

\* A transaction: it commits and the task goes on, or it throws and the task ends.
Tx(k, Transaction, Then) ==
  \/ Transaction /\ Then
  \/ ~ ENABLED Transaction /\ UNCHANGED vars /\ End(k)

ActiveBindings == {b \in BindingIds : bindings[b].state = "active"}
RowToken == IF ActiveBindings = {} THEN None
            ELSE bindings[CHOOSE b \in ActiveBindings : TRUE].token
RoomContext == [revision |-> room.contextRevision, digest |-> room.contextDigest]
\* Mutant: only the rows whose turn was dispatched are recovered.
LiveRows_Dispatched == {e \in ExecutionIds : Live(e) /\ executions[e].state # "prepared"}

\* What a crash, or a Host that is gone, may have left behind.
LiveRows == {e \in ExecutionIds : Live(e)}

\* The user may start an intent while the page shows that it controls the Room.
Intent(k, p) ==
  /\ At(k, "idle")
  /\ view[p].ctl = "controlling"
  /\ Spend("intents", MaxIntents)

Started(k, p, pc) == task' = [task EXCEPT ![k] = [Idle EXCEPT !.pc = pc, !.page = p]]

-----------------------------------------------------------------------------
(* ensureScope: a warm Scope for the Room, and its controller's token.     *)

\* ensureScope threw: a Round that prewarms is paused, any other caller ends.
EnsureThrew(k) == IF task[k].ret = "probe" THEN Go(k, "pause") ELSE End(k)

Ensured(k, b, t) == task' = [task EXCEPT ![k].pc = task[k].ret, ![k].b = b, ![k].t = t,
                                         ![k].h = None]

EnsureScope(k) ==
  /\ At(k, "ensure")
  /\ UNCHANGED <<host, origin, pages>>
  /\ \/ /\ ActiveBindings = {} /\ Go(k, "bind")
        /\ UNCHANGED <<vars, spent>>
     \/ \E b \in ActiveBindings :
          \/ /\ Answers(task[k].page) /\ scopes[b].state = "active"
             /\ Ensured(k, b, bindings[b].token)
             /\ UNCHANGED <<vars, spent>>
          \/ /\ Answers(task[k].page) /\ scopes[b].state # "active"
             /\ MarkBindingClosed(b) /\ Go(k, "bind")
             /\ UNCHANGED spent
          \/ /\ Answers(task[k].page) => Lose
             /\ ~ Answers(task[k].page) => UNCHANGED spent
             /\ EnsureThrew(k) /\ UNCHANGED vars

\* A leftover creating binding is taken up again: its id is the Host's idempotency key.
BindScope(k) ==
  /\ At(k, "bind")
  /\ \E b \in BindingIds :
       \/ /\ bindings[b].state = "creating" /\ UNCHANGED vars
          /\ task' = [task EXCEPT ![k].pc = "host", ![k].b = b]
       \/ /\ \A c \in BindingIds : bindings[c].state # "creating"
          /\ IF ActiveBindings = {}
             THEN /\ CreateRuntimeBinding(b)
                  /\ task' = [task EXCEPT ![k].pc = "host", ![k].b = b]
             ELSE EnsureThrew(k) /\ UNCHANGED vars
  /\ OnlyStore

\* createScope is idempotent per scopeRequestId while the Scope is not closed.
CreateScope(b, t) ==
  IF scopes[b].state = "active"
  THEN t = scopes[b].token /\ UNCHANGED host
  ELSE /\ NextToken(t) /\ issued' = t
       /\ scopes' = [scopes EXCEPT ![b] = [state |-> "active", token |-> t]]
       /\ UNCHANGED <<turns, instance>>

OpenScope(k) ==
  /\ At(k, "host")
  /\ UNCHANGED <<vars, origin, pages>>
  /\ \/ /\ Answers(task[k].page)
        /\ \E t \in Tokens : /\ CreateScope(task[k].b, t)
                             /\ task' = [task EXCEPT ![k].pc = "activate", ![k].h = t]
        /\ UNCHANGED spent
     \/ /\ Answers(task[k].page) => Lose           \* refused (a quota, a missing CLI), or lost
        /\ ~ Answers(task[k].page) => UNCHANGED spent
        /\ EnsureThrew(k) /\ UNCHANGED host

\* Mutant: the Scope whose activation failed is left open.
ActivateScope_NoCompensation(k) ==
  /\ At(k, "activate")
  /\ IF ENABLED ActivateRuntimeBinding(task[k].b, task[k].h)
     THEN ActivateRuntimeBinding(task[k].b, task[k].h) /\ Ensured(k, task[k].b, task[k].h)
     ELSE UNCHANGED vars /\ EnsureThrew(k)
  /\ OnlyStore

\* The row becomes active, or the Scope the Host opened for it is closed again.
ActivateScope(k) ==
  LET b == task[k].b
      t == task[k].h
  IN  /\ At(k, "activate")
      /\ UNCHANGED <<origin, pages, spent>>
      /\ IF ENABLED ActivateRuntimeBinding(b, t)
         THEN ActivateRuntimeBinding(b, t) /\ Ensured(k, b, t) /\ UNCHANGED host
         ELSE UNCHANGED vars /\ CloseScope(task[k].page, b, t) /\ EnsureThrew(k)

-----------------------------------------------------------------------------
(* startRound.                                                             *)

\* Without a token in the row the Scope comes first; the Round needs its controller.
BeginRound(k, p) ==
  IF RowToken = None
  THEN task' = [task EXCEPT ![k] = [Idle EXCEPT !.pc = "ensure", !.page = p, !.ret = "create"]]
  ELSE task' = [task EXCEPT ![k] = [Idle EXCEPT !.pc = "create", !.page = p, !.t = RowToken]]

StartRound(k, p) ==
  /\ Intent(k, p)
  /\ room.status # "concluded"
  /\ BeginRound(k, p)
  /\ UNCHANGED <<vars, host, origin, pages>>

\* startRoundWithUserMessage seeds the Round between these two transactions.
CreateRoundStep(k) ==
  /\ At(k, "create")
  /\ \E r \in RoundIds, order \in Orders :
       /\ rounds[r].phase = "none"
       /\ Tx(k, CreateRound(task[k].t, r, order),
             \E pc \in {"seed", "prewarm"} :
               task' = [task EXCEPT ![k].pc = pc, ![k].r = r, ![k].b = None])
  /\ OnlyStore

SeedRound(k) ==
  /\ At(k, "seed")
  /\ UserWrites < MaxUserWrites
  /\ Tx(k, AppendUserMessage(task[k].t, task[k].r), Go(k, "prewarm"))
  /\ OnlyStore

Prewarm(k) ==
  /\ At(k, "prewarm")
  /\ Tx(k, TransitionRound(task[k].t, task[k].r, "prewarming"),
        task' = [task EXCEPT ![k].pc = "ensure", ![k].ret = "probe"])
  /\ OnlyStore

\* Every participant is ready, or one is not, or the Host did not say.
Probe(k) ==
  /\ At(k, "probe")
  /\ \/ Answers(task[k].page) /\ scopes[task[k].b].state = "active" /\ Go(k, "run")
        /\ UNCHANGED spent
     \/ /\ Answers(task[k].page) => Lose
        /\ ~ Answers(task[k].page) => UNCHANGED spent
        /\ Go(k, "pause")
     \/ Answers(task[k].page) /\ scopes[task[k].b].state # "active" /\ Go(k, "pause")
        /\ UNCHANGED spent
  /\ UNCHANGED <<vars, host, origin, pages>>

\* The token is the one the Round was created with until ensureScope has answered.
PausePrewarm(k) ==
  /\ At(k, "pause")
  /\ Tx(k, PauseRound(task[k].t, task[k].r, [participantId |-> None, executionId |-> None]),
        End(k))
  /\ OnlyStore

RunRound(k) ==
  /\ At(k, "run")
  /\ Tx(k, TransitionRound(task[k].t, task[k].r, "running"), Continue(k, "loop"))
  /\ OnlyStore

-----------------------------------------------------------------------------
(* runLoop and dispatchTurn.                                               *)

Turn(k, pc, kind, r, p, retry) ==
  task' = [task EXCEPT ![k] = [Idle EXCEPT !.pc = pc, !.page = task[k].page, !.kind = kind,
                                           !.r = r, !.p = p, !.ctx = RoomContext,
                                           !.retry = retry]]

\* The next thing the durable Round asks for; anything else ends the loop.
RunLoop(k) ==
  LET r     == room.activeRoundId
      round == rounds[r]
      open  == room.runState # "paused" /\ r # None
      next  == round.nextParticipantIndex + 1
  IN  /\ At(k, "loop")
      /\ OnlyTask
      /\ IF open /\ round.phase = "running" /\ round.focusMessageId = None
         THEN Turn(k, "begin", "focus", r, Facilitator, FALSE)
         ELSE IF open /\ round.phase = "running"
         THEN Turn(k, "begin", "message", r, round.participantOrder[next], FALSE)
         ELSE IF open /\ round.phase = "summarizing"
         THEN Turn(k, "begin", "summary", r, Facilitator, FALSE)
         ELSE End(k)

BeginOf(t, e, kind, r, p, ctx) ==
  \/ kind \in {"message", "summary"} /\ BeginExecution(t, e, kind, r, p, ctx)
  \/ kind = "focus" /\ BeginFocusExecution(t, e, r, p, ctx)
  \/ kind = "report" /\ BeginReportExecution(t, e, r, p, ctx)

\* The gate, the token and the Scope are read, then the execution is anchored.  The
\* context is the caller's copy of the Room: a commit since then makes it stale.
BeginTurn(k) ==
  LET c == task[k]
      e == CHOOSE x \in ExecutionIds : NextExecution(x)
  IN  /\ At(k, "begin")
      /\ OnlyStore
      /\ IF (room.runState = "paused" /\ ~ c.keep) \/ RowToken = None
         THEN UNCHANGED vars /\ End(k)
         ELSE /\ \E x \in ExecutionIds : NextExecution(x)
              /\ Tx(k, BeginOf(RowToken, e, c.kind, c.r, c.p, c.ctx),
                    task' = [task EXCEPT ![k].pc = "gate", ![k].e = e, ![k].t = RowToken,
                       ![k].b = CHOOSE b \in ActiveBindings : TRUE,
                       ![k].keep = c.keep \/ (c.kind = "report" /\ room.activeRoundId # None)])

\* A pause that landed while the anchor was written gives the slot back; a report
\* that closed the open Round, or was asked for, goes on.
Gate(k) ==
  /\ At(k, "gate")
  /\ IF room.runState = "paused" /\ ~ task[k].keep
     THEN Tx(k, FailExecution(task[k].t, task[k].e, "interrupted", FALSE), End(k)) /\ OnlyStore
     ELSE Go(k, "execute") /\ OnlyTask

\* The Host runs the turn, refuses it, or the page never hears which.
Execute(k) ==
  LET c   == task[k]
      run == turns' = [turns EXCEPT ![c.e].state = "running", ![c.e].b = c.b]
  IN  /\ At(k, "execute")
      /\ \/ Executable(c.page, c.b, c.t, c.p) /\ run /\ Go(k, "mark") /\ UNCHANGED spent
         \/ Executable(c.page, c.b, c.t, c.p) /\ run /\ Go(k, "refused") /\ Lose
         \/ Executable(c.page, c.b, c.t, c.p) /\ UNCHANGED turns /\ Go(k, "refused") /\ Lose
         \/ ~ Executable(c.page, c.b, c.t, c.p) /\ UNCHANGED <<turns, spent>> /\ Go(k, "refused")
      /\ UNCHANGED <<vars, scopes, instance, issued, origin, pages>>

MarkDispatched(k) ==
  LET e == task[k].e
  IN  /\ At(k, "mark")
      /\ IF executions[e].state = "prepared"
         THEN /\ MarkExecutionDispatched(e)
              /\ origin' = [origin EXCEPT ![e] = [b |-> task[k].b, inst |-> view[task[k].page].inst]]
              /\ Go(k, "follow")
         ELSE UNCHANGED <<vars, origin>> /\ Go(k, "refused")
      /\ UNCHANGED <<host, pages, spent>>

\* Mutant: the Host is not told that the turn is given up.
GiveUp_NoCancel(k, kind) ==
  /\ Tx(k, FailExecution(task[k].t, task[k].e, kind, TRUE), End(k))
  /\ UNCHANGED <<host, origin, pages>>

\* The turn is given up: one cancel request, then the row becomes terminal whatever
\* became of the request.
GiveUp(k, kind) ==
  LET c == task[k]
  IN  /\ Cancel(c.page, c.b, c.e, c.t)
      /\ Tx(k, FailExecution(c.t, c.e, kind, TRUE), End(k))
      /\ UNCHANGED <<scopes, instance, issued, origin, pages>>

Refused(k) == At(k, "refused") /\ GiveUp(k, "failed") /\ UNCHANGED spent

\* driveToTerminal without a terminal: the record is gone, the session is refused, or
\* the stream or the status failed twice.
LoseTurn(k) ==
  /\ At(k, "follow")
  /\ IF Known(task[k].e) /\ Answers(task[k].page) THEN Lose ELSE UNCHANGED spent
  /\ GiveUp(k, "interrupted")

-----------------------------------------------------------------------------
(* The terminal event.                                                     *)

Ended(k, states) ==
  /\ At(k, "follow")
  /\ Answers(task[k].page) /\ Known(task[k].e)
  /\ turns[task[k].e].state \in states

Succeeded(k) ==
  LET e == task[k].e
  IN  /\ Ended(k, {"completed"})
      /\ IF executions[e].state = "running"
         THEN MarkExecutionSucceededUncommitted(e) ELSE UNCHANGED vars
      /\ Go(k, "commit")
      /\ OnlyStore

CommitOf(t, e) ==
  \/ CommitModelMessage(t, e) \/ CommitFocusMessage(t, e)
  \/ CommitSummary(t, e) \/ CommitReport(t, e)

\* Mutant: the Host is told "committed" before the transaction has decided.
Persist_AfterAck(k) ==
  LET c == task[k]
  IN  /\ At(k, "commit")
      /\ IF Answers(c.page) /\ Fenced(c.b, c.t)
         THEN turns' = [turns EXCEPT ![c.e].ack = "committed"] ELSE UNCHANGED turns
      /\ Tx(k, CommitOf(c.t, c.e), Go(k, "ack"))
      /\ UNCHANGED <<scopes, instance, issued, origin, pages, spent>>

\* Persist first: the commit, or the discard of an output that is not usable.
PersistResult(k) ==
  LET c == task[k]
  IN  /\ At(k, "commit")
      /\ \/ Tx(k, CommitOf(c.t, c.e), Go(k, "ack"))
         \/ Tx(k, DiscardExecution(c.t, c.e), Go(k, "ack"))
      /\ OnlyStore

\* What follows the ACK of a result.
AfterAck(k) ==
  LET c == task[k]
  IN  IF executions[c.e].state = "discarded" \/ c.kind = "report" THEN End(k)
      ELSE IF c.kind = "summary"
           THEN \/ End(k)
                \/ rounds[c.r].phase = "completed" /\ room.status # "concluded"
                   /\ Turn(k, "begin", "report", c.r, Facilitator, FALSE)
           ELSE Continue(k, "loop")

MarkIfPending(Transaction, e) ==
  IF executions[e].ackState = "pending" THEN Transaction ELSE UNCHANGED vars

\* ACK second: recorded by the Host and in the row, converged to expired, or left
\* pending for the next startup audit.
Ack(k) ==
  LET c        == task[k]
      answers  == Answers(c.page) /\ Fenced(c.b, c.t) /\ turns[c.e].b = c.b
      recorded == turns' = [turns EXCEPT ![c.e].ack = executions[c.e].state]
  IN  /\ At(k, "ack")
      /\ AfterAck(k)
      /\ \/ /\ origin[c.e].inst # view[c.page].inst \/ (Answers(c.page) /\ Unknown(c.b))
            /\ MarkIfPending(MarkAckExpired(c.e), c.e) /\ UNCHANGED <<turns, spent>>
         \/ /\ answers /\ recorded
            /\ MarkIfPending(MarkAcknowledged(c.e), c.e) /\ UNCHANGED spent
         \/ answers /\ recorded /\ Lose /\ UNCHANGED vars
         \/ /\ ~ answers /\ ~ (Answers(c.page) /\ Unknown(c.b))
            /\ UNCHANGED <<vars, turns, spent>>
      /\ UNCHANGED <<scopes, instance, issued, origin, pages>>

\* A turn the user cancelled is discarded on purpose, and not acknowledged.
UserCancelled(k) ==
  /\ Ended(k, {"cancelled"})
  /\ Tx(k, DiscardExecution(task[k].t, task[k].e), End(k))
  /\ OnlyStore

\* A failure before the model was reached frees the slot and runs the turn once more,
\* against the same copy of the Room.
RetryOnce(k) ==
  /\ Ended(k, {"not_dispatched"})
  /\ ~ task[k].retry
  /\ Tx(k, FailExecution(task[k].t, task[k].e, "failed", FALSE),
        task' = [task EXCEPT ![k].pc = "begin", ![k].retry = TRUE, ![k].e = None,
                           ![k].keep = FALSE])
  /\ OnlyStore

FailTurn(k) ==
  /\ \/ Ended(k, {"failed"})
     \/ Ended(k, {"not_dispatched"}) /\ task[k].retry
  /\ Tx(k, FailExecution(task[k].t, task[k].e, "failed", TRUE), End(k))
  /\ OnlyStore

-----------------------------------------------------------------------------
(* The user's intents.                                                     *)

ActiveRound == IF room.activeRoundId = None THEN NoRound ELSE rounds[room.activeRoundId]

PauseRoom(k, p) ==
  /\ Intent(k, p) /\ RowToken # None
  /\ SetRoomRunState(RowToken, "paused")
  /\ Started(k, p, "cancel")
  /\ UNCHANGED <<host, origin, pages>>

CancelActiveExecution(k, p) ==
  /\ Intent(k, p) /\ RowToken # None
  /\ Started(k, p, "cancel")
  /\ UNCHANGED <<vars, host, origin, pages>>

\* The target is the Scope in the execution's own row, which is empty until the row
\* is marked dispatched; the token is the one on that Scope's binding.
CancelTurn(k) ==
  LET e == ActiveRound.activeExecutionId
  IN  /\ At(k, "cancel")
      /\ IF e # None /\ origin[e] # None
         THEN Cancel(task[k].page, origin[e].b, e, bindings[origin[e].b].token)
         ELSE UNCHANGED turns
      /\ End(k)
      /\ UNCHANGED <<vars, scopes, instance, issued, origin, pages, spent>>

ResumeRoom(k, p) ==
  /\ Intent(k, p) /\ RowToken # None
  /\ SetRoomRunState(RowToken, "running")
  /\ Started(k, p, "loop")
  /\ UNCHANGED <<host, origin, pages>>

SendUserMessage(k, p) ==
  /\ Intent(k, p) /\ RowToken # None /\ room.activeRoundId # None
  /\ \A j \in Tasks : ~ At(j, "seed")
  /\ AppendUserMessage(RowToken, room.activeRoundId)
  /\ UNCHANGED <<host, origin, pages, task>>

\* "paused" is read before the transaction, which accepts other phases too.
EndPausedRound(k, p, pc) ==
  /\ Intent(k, p) /\ RowToken # None
  /\ ActiveRound.phase = "paused"
  /\ task' = [task EXCEPT ![k] = [Idle EXCEPT !.pc = pc, !.page = p, !.t = RowToken,
                                               !.r = room.activeRoundId]]
  /\ UNCHANGED <<vars, host, origin, pages>>

AbortPausedRound(k, p) == EndPausedRound(k, p, "abort")

\* Offered on a pause that asks for a new session; the gate must be open.
RotateScope(k, p) == room.runState # "paused" /\ EndPausedRound(k, p, "rotate")

AbortStep(k) ==
  /\ At(k, "abort") \/ At(k, "rotate")
  /\ Tx(k, AbortRound(task[k].t, task[k].r),
        IF At(k, "abort") THEN End(k) ELSE Continue(k, "rotateClose"))
  /\ OnlyStore

\* The old Scope is closed as well as that goes, its row in any case; then a new Round.
RotateClose(k) ==
  /\ At(k, "rotateClose")
  /\ IF ActiveBindings = {}
     THEN UNCHANGED <<vars, host, spent>>
     ELSE \E b \in ActiveBindings :
            /\ MarkBindingClosed(b)
            /\ \/ CloseScope(task[k].page, b, bindings[b].token) /\ UNCHANGED spent
               \/ Lose /\ UNCHANGED host
  /\ Continue(k, "start")
  /\ UNCHANGED <<origin, pages>>

StartAgain(k) ==
  /\ At(k, "start")
  /\ IF room.status = "concluded" THEN End(k) ELSE BeginRound(k, task[k].page)
  /\ OnlyTask

RetryParticipant(k, p) ==
  /\ Intent(k, p) /\ RowToken # None
  /\ room.runState # "paused" /\ room.activeRoundId # None
  /\ ActiveRound.phase = "paused" /\ ActiveRound.pauseReason # None
  /\ LET failed == executions[ActiveRound.pauseReason.executionId]
     IN  /\ RetryFailedParticipant(RowToken, room.activeRoundId)
         /\ failed.state \in FailureStates
         /\ task' = [task EXCEPT ![k] =
              [Idle EXCEPT !.pc = "begin", !.page = p, !.kind = failed.resultKind,
                           !.r = room.activeRoundId, !.p = failed.participantId,
                           !.ctx = RoomContext, !.retry = TRUE]]
  /\ UNCHANGED <<host, origin, pages>>

SkipFailedParticipant(k, p) ==
  /\ Intent(k, p) /\ RowToken # None
  /\ room.runState # "paused" /\ room.activeRoundId # None
  /\ SkipParticipant(RowToken, room.activeRoundId)
  /\ Started(k, p, "loop")
  /\ UNCHANGED <<host, origin, pages>>

\* The guards and the row's closure are one transaction; the Host is told after it.
ReleaseRoom(k, p) ==
  /\ Intent(k, p)
  /\ \E b \in ActiveBindings :
       /\ ReleaseRuntime(b)
       /\ task' = [task EXCEPT ![k] = [Idle EXCEPT !.pc = "close", !.page = p, !.b = b,
                                                   !.t = bindings[b].token]]
  /\ UNCHANGED <<host, origin, pages>>

CloseReleased(k) ==
  /\ At(k, "close")
  /\ \/ CloseScope(task[k].page, task[k].b, task[k].t) /\ UNCHANGED spent
     \/ Lose /\ UNCHANGED host
  /\ End(k)
  /\ UNCHANGED <<vars, origin, pages>>

\* concludeRoom warms a cold Room first.
ConcludeRoom(k, p) ==
  /\ Intent(k, p)
  /\ room.status # "concluded"
  /\ task' = [task EXCEPT ![k] = [Idle EXCEPT !.page = p, !.ret = "conclude",
                                  !.pc = IF RowToken = None THEN "ensure" ELSE "conclude"]]
  /\ UNCHANGED <<vars, host, origin, pages>>

\* The report anchors on the latest completed Round, paused gate or not.
Conclude(k) ==
  LET done == {r \in RoundIds : rounds[r].phase = "completed"}
  IN  /\ At(k, "conclude")
      /\ OnlyTask
      /\ IF ActiveRound.activeExecutionId # None \/ done = {} THEN End(k)
         ELSE task' = [task EXCEPT ![k] =
                [Idle EXCEPT !.pc = "begin", !.page = task[k].page, !.kind = "report",
                             !.r = CHOOSE r \in done : \A q \in done : q <= r,
                             !.p = Facilitator, !.ctx = RoomContext, !.keep = TRUE]]

-----------------------------------------------------------------------------
(* controlRoom: the Web Lock, then the Host, then the row.                 *)

\* A row of the view with some of its fields changed.
Changed(row, changes) ==
  [f \in DOMAIN row |-> IF f \in DOMAIN changes THEN changes[f] ELSE row[f]]

See(p, changes) == view' = [view EXCEPT ![p] = Changed(@, changes)]
OnlyView == UNCHANGED <<vars, host, origin, task>>

\* A page that still holds the lock from an earlier visit does not take over again.
OpenRoom(p) ==
  /\ view[p].ctl = "off"
  /\ IF view[p].holds THEN See(p, [ctl |-> "controlling"]) /\ UNCHANGED lock
     ELSE IF lock = None THEN See(p, [ctl |-> "locked", holds |-> TRUE]) /\ lock' = p
     ELSE See(p, [ctl |-> "observing"]) /\ UNCHANGED lock
  /\ OnlyView /\ UNCHANGED spent

GetLock(p) ==
  /\ view[p].ctl = "observing" /\ lock = None
  /\ See(p, [ctl |-> "locked", holds |-> TRUE]) /\ lock' = p
  /\ OnlyView /\ UNCHANGED spent

TakingOver(p) == view[p].ctl \in {"adopt", "lost"}

\* takeoverScope, in the page's Room chain: not while its audit settles a row.
TakeOver(p) ==
  /\ view[p].ctl = "locked"
  /\ view[p].probe = None
  /\ IF ActiveBindings = {}
     THEN See(p, [ctl |-> "controlling"]) /\ UNCHANGED <<host, spent>>
     ELSE LET b == CHOOSE c \in ActiveBindings : TRUE
          IN  \/ /\ Answers(p) /\ scopes[b].state = "active"
                 /\ \E t \in Tokens :
                      /\ NextToken(t) /\ issued' = t
                      /\ scopes' = [scopes EXCEPT ![b].token = t]
                      /\ \/ See(p, [ctl |-> "adopt", b |-> b, t |-> t]) /\ UNCHANGED spent
                         \/ See(p, [ctl |-> "failed"]) /\ Lose
                 /\ UNCHANGED <<turns, instance>>
              \/ /\ Answers(p) /\ Unknown(b)
                 /\ See(p, [ctl |-> "lost", b |-> b, todo |-> LiveRows])
                 /\ UNCHANGED <<host, spent>>
              \/ /\ ~ Answers(p) \/ scopes[b].state = "closed"
                 /\ See(p, [ctl |-> "failed"])
                 /\ UNCHANGED <<host, spent>>
  /\ UNCHANGED <<vars, origin, lock, task>>

\* The row takes whatever token this page was given: no epoch is compared.
Adopt(p) ==
  /\ view[p].ctl = "adopt"
  /\ IF ENABLED TakeoverRuntimeBinding(view[p].b, view[p].t)
     THEN /\ TakeoverRuntimeBinding(view[p].b, view[p].t)
          /\ See(p, [ctl |-> "controlling", b |-> None, t |-> None])
     ELSE UNCHANGED vars /\ See(p, [ctl |-> "failed", b |-> None, t |-> None])
  /\ UNCHANGED <<host, origin, lock, task, spent>>

MarkIfOpen(b) == IF bindings[b].state = "closed" THEN UNCHANGED vars ELSE MarkBindingClosed(b)

\* failLostExecution: with the token it has, the current one, or none at all, the row
\* becomes terminal; a result that was persisted first makes it throw.
FailLost(e) ==
  IF Live(e)
  THEN RecordExecutionFailure(e, IF executions[e].state = "prepared" THEN "failed"
                                 ELSE "interrupted", TRUE)
  ELSE UNCHANGED vars

\* interruptRoomLostWithHost after a 404, then the row of the vanished Scope is closed.
SettleLost(p) ==
  /\ view[p].ctl = "lost"
  /\ \/ \E e \in view[p].todo :
          /\ FailLost(e)
          /\ IF executions[e].state \in {"committed", "discarded"}
             THEN See(p, [ctl |-> "failed", b |-> None, todo |-> {}])
             ELSE See(p, [todo |-> view[p].todo \ {e}])
     \/ /\ view[p].todo = {}
        /\ MarkIfOpen(view[p].b)
        /\ See(p, [ctl |-> "controlling", b |-> None])
  /\ UNCHANGED <<host, origin, lock, task, spent>>

-----------------------------------------------------------------------------
(* startupAudit: once per page load, only under the Room's lock.           *)

CanAudit(p) == view[p].holds \/ view[p].auditLock \/ lock = None

\* changes to the page's view, and the lock taken for the audit when it has none
Audit(p, changes) ==
  IF view[p].holds \/ view[p].auditLock
  THEN See(p, changes) /\ UNCHANGED lock
  ELSE /\ view' = [view EXCEPT ![p] = [Changed(@, changes) EXCEPT !.auditLock = TRUE]]
       /\ lock' = p

\* The audit ends, or a request it needs an answer to throws: its lock is released.
EndAudit(p, outcome) ==
  /\ See(p, [audit |-> outcome, list |-> {}, probe |-> None, auditLock |-> FALSE])
  /\ lock' = IF view[p].auditLock /\ lock = p THEN None ELSE lock

PendingAcks == {e \in ExecutionIds : executions[e].ackState = "pending"}

\* The next scan that finds something to do.
NextScan(rows) ==
  IF rows # {} THEN [audit |-> "rows", list |-> rows]
  ELSE IF PendingAcks # {} THEN [audit |-> "acks", list |-> PendingAcks]
  ELSE [audit |-> "done", list |-> {}]

\* A creating binding is a crash's leftover; the rows to look at are listed after it.
AuditStart(p) ==
  /\ view[p].audit = "start"
  /\ IF ~ Answers(p)
     THEN EndAudit(p, "aborted") /\ UNCHANGED vars
     ELSE /\ See(p, NextScan(LiveRows))
          /\ UNCHANGED lock
          /\ \/ \E b \in BindingIds : /\ bindings[b].state = "creating" /\ CanAudit(p)
                                      /\ MarkBindingClosed(b)
             \/ /\ \A b \in BindingIds : bindings[b].state = "creating" => ~ CanAudit(p)
                /\ UNCHANGED vars
  /\ UNCHANGED <<host, origin, task, spent>>

\* A listed row that is still live, under the lock: the Host is asked about the turn,
\* and asked to stop it when it runs.
AuditQuery(p) ==
  /\ view[p].audit = "rows" /\ view[p].probe = None /\ ~ TakingOver(p)
  /\ \E e \in view[p].list :
       IF ~ CanAudit(p)
       THEN See(p, [list |-> view[p].list \ {e}]) /\ UNCHANGED <<turns, lock>>
       ELSE IF ~ Live(e)
       THEN Audit(p, [list |-> view[p].list \ {e}]) /\ UNCHANGED turns
       ELSE IF RowToken = None \/ origin[e] = None \/ origin[e].inst # view[p].inst
       THEN Audit(p, [probe |-> e]) /\ UNCHANGED turns
       ELSE IF Answers(p)
       THEN Audit(p, [probe |-> e]) /\ Cancel(p, origin[e].b, e, RowToken)
       ELSE EndAudit(p, "aborted") /\ UNCHANGED turns
  /\ UNCHANGED <<vars, scopes, instance, issued, origin, task, spent>>

AuditSettle(p) ==
  LET e == view[p].probe
  IN  /\ e # None
      /\ FailLost(e)
      /\ IF executions[e].state \in {"committed", "discarded"} THEN EndAudit(p, "aborted")
         ELSE See(p, [list |-> view[p].list \ {e}, probe |-> None]) /\ UNCHANGED lock
      /\ UNCHANGED <<host, origin, task, spent>>

AuditRowsDone(p) ==
  /\ view[p].audit = "rows" /\ view[p].list = {}
  /\ IF PendingAcks = {} THEN EndAudit(p, "done") ELSE See(p, NextScan({})) /\ UNCHANGED lock
  /\ UNCHANGED <<vars, host, origin, task, spent>>

ResendAck(p) ==
  /\ view[p].audit = "acks"
  /\ \E e \in view[p].list :
       /\ IF CanAudit(p) THEN Audit(p, [list |-> view[p].list \ {e}])
          ELSE See(p, [list |-> view[p].list \ {e}]) /\ UNCHANGED lock
       /\ LET b    == origin[e].b
              same == origin[e].inst = view[p].inst
              sent == same /\ RowToken # None /\ Answers(p)
          IN  IF ~ CanAudit(p) THEN UNCHANGED <<vars, turns>>
              ELSE IF ~ same \/ (sent /\ Unknown(b))
              THEN MarkIfPending(MarkAckExpired(e), e) /\ UNCHANGED turns
              ELSE IF sent /\ Fenced(b, RowToken)
              THEN /\ turns' = [turns EXCEPT ![e].ack = executions[e].state]
                   /\ MarkIfPending(MarkAcknowledged(e), e)
              ELSE UNCHANGED <<vars, turns>>
  /\ UNCHANGED <<scopes, instance, issued, origin, task, spent>>

AuditDone(p) ==
  /\ view[p].audit = "acks" /\ view[p].list = {}
  /\ EndAudit(p, "done")
  /\ UNCHANGED <<vars, host, origin, task, spent>>

-----------------------------------------------------------------------------
(* What pages do without asking the orchestrator.                          *)

\* The page is reloaded, or dies and is opened again: its tasks and locks are gone.
Reload(p) ==
  /\ Spend("reloads", MaxReloads)
  /\ view' = [view EXCEPT ![p] = Loaded]
  /\ lock' = IF lock = p THEN None ELSE lock
  /\ task' = [k \in Tasks |-> IF task[k].page = p THEN Idle ELSE task[k]]
  /\ UNCHANGED <<vars, host, origin>>

\* The user leaves the Room's page: a handle that controlRoom returned is released,
\* the lock of a takeover that failed is not.  Tasks go on.
LeaveRoom(p) ==
  /\ view[p].ctl \in {"controlling", "observing", "failed"}
  /\ Spend("handovers", MaxHandovers)
  /\ IF view[p].ctl = "controlling"
     THEN See(p, [ctl |-> "off", holds |-> FALSE])
          /\ lock' = IF lock = p THEN None ELSE lock
     ELSE See(p, [ctl |-> "off"]) /\ UNCHANGED lock
  /\ OnlyView

\* Forced takeover: the lock is taken from its holder, who is not told, and let go;
\* then controlRoom runs as usual.
StealLock(p) ==
  /\ view[p].ctl = "observing" /\ lock # None
  /\ Spend("handovers", MaxHandovers)
  /\ See(p, [ctl |-> "observing"])
  /\ lock' = None
  /\ OnlyView

-----------------------------------------------------------------------------
ScopeStep(k) == EnsureScope(k) \/ BindScope(k) \/ OpenScope(k) \/ ActivateScope(k)

StartStep(k) ==
  \/ StartAgain(k) \/ CreateRoundStep(k) \/ SeedRound(k) \/ Prewarm(k)
  \/ Probe(k) \/ PausePrewarm(k) \/ RunRound(k)

TurnStep(k) ==
  \/ RunLoop(k) \/ BeginTurn(k) \/ Gate(k) \/ Execute(k) \/ MarkDispatched(k) \/ Refused(k)

TerminalStep(k) ==
  \/ Succeeded(k) \/ PersistResult(k) \/ Ack(k)
  \/ UserCancelled(k) \/ RetryOnce(k) \/ FailTurn(k)

IntentStep(k) ==
  \/ CancelTurn(k) \/ AbortStep(k) \/ RotateClose(k) \/ CloseReleased(k) \/ Conclude(k)

TaskStep(k) ==
  ScopeStep(k) \/ StartStep(k) \/ TurnStep(k) \/ LoseTurn(k) \/ TerminalStep(k) \/ IntentStep(k)

UserStep(k, p) ==
  \/ StartRound(k, p) \/ PauseRoom(k, p) \/ ResumeRoom(k, p) \/ CancelActiveExecution(k, p)
  \/ AbortPausedRound(k, p) \/ RotateScope(k, p) \/ RetryParticipant(k, p)
  \/ SkipFailedParticipant(k, p) \/ SendUserMessage(k, p)
  \/ ReleaseRoom(k, p) \/ ConcludeRoom(k, p)

PageStep(p) ==
  \/ OpenRoom(p) \/ GetLock(p) \/ TakeOver(p) \/ Adopt(p) \/ SettleLost(p)
  \/ AuditStart(p) \/ AuditQuery(p) \/ AuditSettle(p) \/ AuditRowsDone(p)
  \/ ResendAck(p) \/ AuditDone(p)

HostStep ==
  \/ \E e \in ExecutionIds : TurnEnds(e)
  \/ \E b \in BindingIds : ReapScope(b)
  \/ RestartHost

OrchestratorNext ==
  \/ \E k \in Tasks : TaskStep(k) \/ \E p \in Pages : UserStep(k, p)
  \/ \E p \in Pages : PageStep(p) \/ Reload(p) \/ LeaveRoom(p) \/ StealLock(p)
  \/ HostStep

\* A task that can go on does, a page finishes taking control and its audit, and a
\* turn ends.  Nothing is assumed of the user, nor of faults.
OrchestratorFairness ==
  /\ \A k \in Tasks : WF_orchestratorVars(TaskStep(k))
  /\ \A p \in Pages : WF_orchestratorVars(PageStep(p))
  /\ \A e \in ExecutionIds : WF_orchestratorVars(TurnEnds(e))

OrchestratorSpec ==
  OrchestratorInit /\ [][OrchestratorNext]_orchestratorVars /\ OrchestratorFairness

=============================================================================
