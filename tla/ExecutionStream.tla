--------------------------- MODULE ExecutionStream ---------------------------
(***************************************************************************)
(* One page follows one execution to its terminal: driveToTerminal in      *)
(* src/orchestrator/discussion-orchestrator.ts, over followExecutionEvents *)
(* (src/runtime/event-stream.ts), decideFollowAfterClose                   *)
(* (shared/runtime/follow-reconnect.ts) and the page's preview text        *)
(* (src/stores/runtime-discussion.ts), composed with the Host's registry.  *)
(*                                                                         *)
(* Around it: the driver emits, the network breaks a connection at any     *)
(* moment, a status request or a new connection may fail (refused, 401,    *)
(* 429), another page may acknowledge a terminal it has seen, the Host may *)
(* release the scope once its turn is settled, or restart.                 *)
(***************************************************************************)
EXTENDS ExecutionRegistry

CONSTANTS Execution, Scope, Connection  \* the one turn, its scope and the page's connection

ASSUME FollowerAssumption ==
  /\ Execution \in ExecutionIds /\ Scope \in ScopeIds /\ Connection \in Connections
  /\ MaxEventConnections > 0

VARIABLES page,       \* the loop of driveToTerminal
          preview,    \* previewByExecution of this turn
          cancelled   \* a cancel request reached the Host

streamVars == <<records, listeners, streams, page, preview, cancelled>>

Outcomes == {"terminal", "abandoned", "exhausted", "lost"}

ASSUME OutcomeAssumption == None \notin Outcomes

\* pc: "connect" opens a connection, "read" reads it, "check" asks for the status.
Pages == [pc             : {"connect", "read", "check", "done"},
          resumeAt       : 0 .. MaxSeq,
          lastSeq        : 0 .. MaxSeq,
          read           : Nat,
          progressed     : BOOLEAN,
          streamFailures : 0 .. 3,
          statusFailures : 0 .. 2,
          catchUpSpent   : BOOLEAN,
          outcome        : Outcomes \cup {None}]

StreamTypeOK == /\ TypeOK
                /\ page \in Pages
                /\ preview \in Seq(1 .. MaxSeq)
                /\ cancelled \in BOOLEAN

stream == streams[Connection]
record == records[Execution]

-----------------------------------------------------------------------------
(* The preview reducer: a delta is appended, a snapshot replaces the text, *)
(* a terminal clears it.                                                   *)

\* Mutant: a delta replaces the text too.
applyPreview_Replaces(event) == IF IsTerminal(event) THEN <<>> ELSE event.text

applyPreview(event) ==
  CASE event.type = "output.delta"    -> preview \o event.text
    [] event.type = "output.snapshot" -> event.text
    [] IsTerminal(event)              -> <<>>
    [] OTHER                          -> preview

\* decideFollowAfterClose: may another connection still deliver the terminal?
Ahead == record.lastSeq > page.resumeAt

\* Mutant: a connection that delivered nothing is the last one.
decideFollowAfterClose_NoCatchUp ==
  IF record.state = "running" THEN [action |-> "reconnect", catchUpSpent |-> FALSE]
  ELSE IF Ahead /\ page.progressed THEN [action |-> "reconnect", catchUpSpent |-> FALSE]
  ELSE [action |-> "stop", catchUpSpent |-> page.catchUpSpent]

\* Mutant: the one empty catch-up is never spent.
decideFollowAfterClose_HotLoop ==
  [action |-> IF record.state = "running" \/ Ahead THEN "reconnect" ELSE "stop",
   catchUpSpent |-> FALSE]

decideFollowAfterClose ==
  IF record.state = "running" THEN [action |-> "reconnect", catchUpSpent |-> FALSE]
  ELSE IF Ahead /\ page.progressed THEN [action |-> "reconnect", catchUpSpent |-> FALSE]
  ELSE IF Ahead /\ ~ page.catchUpSpent THEN [action |-> "reconnect", catchUpSpent |-> TRUE]
  ELSE [action |-> "stop", catchUpSpent |-> page.catchUpSpent]

\* The connection is over: the Host's side forgets it.
Disconnected ==
  /\ streams' = [streams EXCEPT ![Connection] = NoStream]
  /\ listeners' = [e \in ExecutionIds |-> listeners[e] \ {Connection}]

\* followExecutionEvents throws EventStreamError: the cursor stays where it was.
StreamFailed == [page EXCEPT !.pc = "check", !.progressed = FALSE, !.read = 0,
                             !.streamFailures = @ + 1]

Done(outcome) == [page EXCEPT !.pc = "done", !.outcome = outcome]

-----------------------------------------------------------------------------
(* followExecutionEvents.                                                  *)

Connect ==
  /\ page.pc = "connect"
  /\ follow(Connection, Execution, Scope, page.resumeAt)
  /\ page' = [page EXCEPT !.pc = "read", !.read = 0, !.lastSeq = page.resumeAt]
  /\ UNCHANGED <<preview, cancelled>>

ConnectFails ==
  /\ page.pc = "connect"
  /\ page' = StreamFailed
  /\ UNCHANGED <<records, listeners, streams, preview, cancelled>>

ReadEvent ==
  /\ page.pc = "read"
  /\ page.read < Len(stream.sent)
  /\ LET event == stream.sent[page.read + 1]
     IN  /\ page' = [page EXCEPT !.read = @ + 1,
                                 !.lastSeq = IF event.seq > @ THEN event.seq ELSE @]
         /\ preview' = applyPreview(event)
  /\ UNCHANGED <<records, listeners, streams, cancelled>>

\* The body is over.  What was read with a terminal ends the loop.
StreamEnds ==
  /\ page.pc = "read"
  /\ stream.state = "ended" /\ page.read = Len(stream.sent)
  /\ page' = IF stream.sent # <<>> /\ IsTerminal(Last(stream.sent))
             THEN Done("terminal")
             ELSE [page EXCEPT !.pc = "check", !.read = 0, !.streamFailures = 0,
                               !.progressed = page.lastSeq > page.resumeAt,
                               !.resumeAt = page.lastSeq]
  /\ Disconnected
  /\ UNCHANGED <<records, preview, cancelled>>

\* The connection breaks, at the latest when the page sees that its peer is gone.
StreamBreaks ==
  /\ page.pc = "read"
  /\ page' = StreamFailed
  /\ Disconnected
  /\ UNCHANGED <<records, preview, cancelled>>

SeeBroken == stream.state = "left" /\ StreamBreaks

-----------------------------------------------------------------------------
(* The status request after a connection without a terminal.               *)

\* cancelAbandonedExecution: best effort, the request may be lost.
CancelAbandoned == cancelled' \in {TRUE, cancelled}

CheckStatus ==
  /\ page.pc = "check"
  /\ Has(Execution) /\ record.scopeId = Scope
  /\ IF page.streamFailures >= 2
     THEN /\ page' = [Done("abandoned") EXCEPT !.statusFailures = 0]
          /\ IF record.state = "running" THEN CancelAbandoned ELSE UNCHANGED cancelled
     ELSE LET decision == decideFollowAfterClose
          IN  /\ page' = IF decision.action = "reconnect"
                         THEN [page EXCEPT !.pc = "connect", !.statusFailures = 0,
                                           !.catchUpSpent = decision.catchUpSpent]
                         ELSE [Done("exhausted") EXCEPT !.statusFailures = 0]
              /\ UNCHANGED cancelled
  /\ UNCHANGED <<records, listeners, streams, preview>>

StatusNotFound ==
  /\ page.pc = "check"
  /\ ~ (Has(Execution) /\ record.scopeId = Scope)
  /\ page' = Done("lost")
  /\ UNCHANGED <<records, listeners, streams, preview, cancelled>>

StatusFails ==
  /\ page.pc = "check"
  /\ IF page.statusFailures = 0
     THEN /\ page' = [page EXCEPT !.pc = "connect", !.statusFailures = 1]
          /\ UNCHANGED cancelled
     ELSE /\ page' = [Done("abandoned") EXCEPT !.statusFailures = 2]
          /\ CancelAbandoned
  /\ UNCHANGED <<records, listeners, streams, preview>>

-----------------------------------------------------------------------------
(* The Host and the other pages.                                           *)

Unchanged == UNCHANGED <<page, preview, cancelled>>

DriverEmits == \E type \in DriverTypes : emit(Execution, type) /\ Unchanged

OthersAck == \E disposition \in Dispositions :
               record.terminal # None /\ ack(Execution, record.terminal.seq, disposition)
               /\ Unchanged

\* closeScopeInternal awaits driver.close, which settles the turn, before it releases.
CloseScope == Finished(record) /\ releaseScope(Scope) /\ Unchanged

\* A restarted Host knows nothing and every connection to the old one is broken.
HostRestarts ==
  /\ Has(Execution)
  /\ records' = [e \in ExecutionIds |-> NoRecord]
  /\ listeners' = [e \in ExecutionIds |-> {}]
  /\ streams' = [c \in Connections |->
                   IF streams[c].state = "open" THEN [streams[c] EXCEPT !.state = "left"]
                   ELSE streams[c]]
  /\ Unchanged

Follow  == Connect \/ ConnectFails \/ ReadEvent \/ StreamEnds \/ SeeBroken
Status  == CheckStatus \/ StatusNotFound \/ StatusFails
Host    == DriverEmits \/ OthersAck \/ CloseScope \/ HostRestarts

\* The turn exists: the page follows what client.execute has begun.
StreamInit ==
  /\ records = [e \in ExecutionIds |->
                  IF e = Execution THEN [NoRecord EXCEPT !.state = "running", !.scopeId = Scope]
                  ELSE NoRecord]
  /\ listeners = [e \in ExecutionIds |-> {}]
  /\ streams = [c \in Connections |-> NoStream]
  /\ page = [pc |-> "connect", resumeAt |-> 0, lastSeq |-> 0, read |-> 0,
             progressed |-> FALSE, streamFailures |-> 0, statusFailures |-> 0,
             catchUpSpent |-> FALSE, outcome |-> None]
  /\ preview = <<>>
  /\ cancelled = FALSE

StreamNext == Follow \/ StreamBreaks \/ Status \/ Host

\* The page's event loop runs its callbacks and the Host writes what it sends;
\* nothing is assumed of the driver, of the network or of other pages.
StreamFairness == WF_streamVars(Follow) /\ WF_streamVars(Status)

StreamSpec == StreamInit /\ [][StreamNext]_streamVars /\ StreamFairness
==============================================================================
