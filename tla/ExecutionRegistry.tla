-------------------------- MODULE ExecutionRegistry --------------------------
(***************************************************************************)
(* The Host's in-memory store of Model Executions                          *)
(* (runtime-host/executions/execution-registry.ts) together with the event *)
(* stream route that serves it (runtime-host/routes/scopes.ts).  Every     *)
(* operation is synchronous code of one Node process, hence one action.    *)
(*                                                                         *)
(* Data abstraction.  The text of a delta is one chunk, named by the seq   *)
(* it was emitted with; the text of a snapshot is the sequence of chunks   *)
(* it merges.  An event costs one byte and one more for each chunk.  The   *)
(* payload of a terminal is left out.                                      *)
(***************************************************************************)
EXTENDS Naturals, Sequences, SequencesExt

CONSTANTS ExecutionIds,
          ScopeIds,
          Connections,           \* event-stream requests, each made at most once
          ExecutionBufferBytes,  \* LIMITS.executionBufferBytes
          MaxEventConnections,   \* QUOTAS.maxEventConnections
          MaxSeq,                \* bound: events a driver emits in one execution
          None

ASSUME ExecutionBufferAssumption == ExecutionBufferBytes \in Nat
ASSUME ConnectionQuotaAssumption == MaxEventConnections \in Nat
ASSUME MaxSeqAssumption          == MaxSeq \in Nat

VARIABLES records,    \* records: executionId -> ExecutionRecord, "absent" when there is none
          listeners,  \* listeners: executionId -> connections that follow it live
          streams     \* what the Host wrote to each event connection

registryVars == <<records, listeners, streams>>

TerminalTypes  == {"completed", "failed", "interrupted"}
EventTypes     == {"activity", "output.delta", "output.snapshot"} \cup TerminalTypes
\* What a driver passes to emit; "invalid" is an event the schema rejects.
DriverTypes    == {"activity", "output.delta", "invalid"} \cup TerminalTypes
Dispositions   == {"committed", "discarded"}

Events  == [seq : 1 .. MaxSeq, type : EventTypes, text : Seq(1 .. MaxSeq)]
Records == [state         : {"absent", "running"} \cup TerminalTypes,
            scopeId       : ScopeIds \cup {None},
            events        : Seq(Events),
            lastSeq       : 0 .. MaxSeq,
            bufferedBytes : Nat,
            disposition   : Dispositions \cup {None},
            tombstone     : BOOLEAN,
            terminal      : Events \cup {None}]
\* "unused" before the request, "open", then "ended" by the Host or "left" by the client.
\* openedAt is the record's lastSeq when the request came.
Streams == [state    : {"unused", "open", "ended", "left"},
            of       : ExecutionIds \cup {None},
            known    : BOOLEAN,
            afterSeq : 0 .. MaxSeq,
            openedAt : 0 .. MaxSeq,
            sent     : Seq(Events)]

ASSUME NoneAssumption ==
  None \notin ScopeIds \cup ExecutionIds \cup Events \cup Dispositions \cup TerminalTypes \cup {"running"}

TypeOK == /\ records \in [ExecutionIds -> Records]
          /\ listeners \in [ExecutionIds -> SUBSET Connections]
          /\ streams \in [Connections -> Streams]

-----------------------------------------------------------------------------
IsTerminal(event) == event.type \in TerminalTypes
IsPreview(event)  == event.type \in {"output.delta", "output.snapshot"}

eventBytes(event)  == 1 + Len(event.text)
BytesOf(events)    == FoldSeq(LAMBDA event, n : eventBytes(event) + n, 0, events)
TextOf(events)     == FlattenSeq([i \in DOMAIN events |->
                                    IF IsPreview(events[i]) THEN events[i].text ELSE <<>>])

Previews(events)   == {i \in DOMAIN events : IsPreview(events[i])}

\* A snapshot for all previews, at the place of one of them.
Replaced(events, place, snapshot) ==
  FlattenSeq([i \in DOMAIN events |-> IF i = place THEN <<snapshot>>
                                      ELSE IF IsPreview(events[i]) THEN <<>> ELSE <<events[i]>>])

snapshotOf(events, text) == [seq  |-> events[Min(Previews(events))].seq,
                             type |-> "output.snapshot", text |-> text]

\* Mutant: the snapshot is put behind what it precedes.
Merged_AtEnd(events) ==
  IF Previews(events) = {} THEN events
  ELSE Replaced(events, Max(Previews(events)), snapshotOf(events, TextOf(events)))

\* Mutant: the snapshot keeps the latest preview only.
Merged_LatestOnly(events) ==
  IF Previews(events) = {} THEN events
  ELSE Replaced(events, Min(Previews(events)),
                snapshotOf(events, events[Max(Previews(events))].text))

\* The one snapshot that stands for all buffered previews, at the place of the first.
Merged(events) ==
  IF Previews(events) = {} THEN events
  ELSE Replaced(events, Min(Previews(events)), snapshotOf(events, TextOf(events)))

Coalesce(record) ==
  LET merged == Merged(record.events)
  IN  [record EXCEPT !.events = merged, !.bufferedBytes = BytesOf(merged)]

Fits(record, event) == record.bufferedBytes + eventBytes(event) <= ExecutionBufferBytes

Store(record, event) ==
  [record EXCEPT !.events        = Append(@, event),
                 !.bufferedBytes = @ + eventBytes(event),
                 !.lastSeq       = event.seq]

\* bufferEvent: coalesce under pressure, then drop what still does not fit; a
\* dropped event has used its seq up.
bufferEvent(record, event) ==
  IF IsTerminal(event) \/ Fits(record, event) THEN Store(record, event)
  ELSE IF Fits(Coalesce(record), event) THEN Store(Coalesce(record), event)
  ELSE [Coalesce(record) EXCEPT !.lastSeq = event.seq]

NoRecord  == [state |-> "absent", scopeId |-> None, events |-> <<>>, lastSeq |-> 0,
              bufferedBytes |-> 0, disposition |-> None, tombstone |-> FALSE,
              terminal |-> None]
NoStream  == [state |-> "unused", of |-> None, known |-> FALSE, afterSeq |-> 0,
              openedAt |-> 0, sent |-> <<>>]

Init == /\ records = [e \in ExecutionIds |-> NoRecord]
        /\ listeners = [e \in ExecutionIds |-> {}]
        /\ streams = [c \in Connections |-> NoStream]

Has(e) == records[e].state # "absent"

-----------------------------------------------------------------------------
(* begin: an id that has a record keeps it (a stuttering step).            *)

begin(e, s) ==
  /\ ~ Has(e)
  /\ records' = [records EXCEPT ![e] = [NoRecord EXCEPT !.state = "running", !.scopeId = s]]
  /\ UNCHANGED <<listeners, streams>>

(* emit: stamp, buffer, then write to every follower; a terminal ends the  *)
(* response of each (the listener of the route calls endStream).           *)

Stamp(record, type) ==
  LET seq == record.lastSeq + 1
  IN  [seq  |-> seq,
       type |-> IF type = "invalid" THEN "failed" ELSE type,
       text |-> IF type = "output.delta" THEN <<seq>> ELSE <<>>]

Settled(record, event) ==
  IF IsTerminal(event) THEN [record EXCEPT !.state = event.type, !.terminal = event]
  ELSE record

Notified(e, event) ==
  [c \in Connections |->
     IF c \in listeners[e]
     THEN [streams[c] EXCEPT !.sent  = Append(@, event),
                             !.state = IF IsTerminal(event) THEN "ended" ELSE @]
     ELSE streams[c]]

\* Mutant: a driver may still emit after its terminal.
CanEmit_AfterTerminal(record) == record.state # "absent" /\ ~ record.tombstone

CanEmit(record) == record.state # "absent" /\ ~ record.tombstone /\ record.terminal = None

\* Mutant: an event that was dropped from the buffer is not sent either.
emit_DropIsSilent(e, type) ==
  /\ CanEmit(records[e])
  /\ records[e].lastSeq < MaxSeq
  /\ LET event == Stamp(records[e], type)
         after == bufferEvent(Settled(records[e], event), event)
     IN  /\ records' = [records EXCEPT ![e] = after]
         /\ streams' = IF event \in ToSet(after.events) THEN Notified(e, event) ELSE streams
         /\ listeners' = [listeners EXCEPT ![e] = IF IsTerminal(event) THEN {} ELSE @]

emit(e, type) ==
  /\ CanEmit(records[e])
  /\ records[e].lastSeq < MaxSeq
  /\ LET event == Stamp(records[e], type)
     IN  /\ records' = [records EXCEPT ![e] = bufferEvent(Settled(@, event), event)]
         /\ streams' = Notified(e, event)
         /\ listeners' = [listeners EXCEPT ![e] = IF IsTerminal(event) THEN {} ELSE @]

-----------------------------------------------------------------------------
(* GET .../events?afterSeq=n: replay what is buffered past n, then follow, *)
(* or end the response when nothing can follow.                            *)

eventConnectionCount == Cardinality(UNION {listeners[e] : e \in ExecutionIds})

Finished(record) == record.tombstone \/ record.terminal # None

\* What follow replays: the buffered events past the cursor, in storage order.
Replay(events, afterSeq) ==
  FlattenSeq([i \in DOMAIN events |->
                IF events[i].seq > afterSeq THEN <<events[i]>> ELSE <<>>])

\* Mutant: the response ends after a replay, finished or not.
follow_EndsAfterReplay(c, e, s, afterSeq) ==
  LET record == records[e]
      known  == Has(e) /\ record.scopeId = s
      replay == Replay(record.events, afterSeq)
      live   == known /\ replay = <<>>
  IN  /\ streams[c].state = "unused"
      /\ eventConnectionCount < MaxEventConnections
      /\ streams' = [streams EXCEPT ![c] =
                       [state    |-> IF live THEN "open" ELSE "ended",
                        of       |-> e,
                        known    |-> known,
                        afterSeq |-> afterSeq,
                        openedAt |-> record.lastSeq,
                        sent     |-> IF known THEN replay ELSE <<>>]]
      /\ listeners' = [listeners EXCEPT ![e] = IF live THEN @ \cup {c} ELSE @]
      /\ UNCHANGED records

follow(c, e, s, afterSeq) ==
  LET record == records[e]
      known  == Has(e) /\ record.scopeId = s
      replay == Replay(record.events, afterSeq)
      live   == known /\ ~ Finished(record)
  IN  /\ streams[c].state = "unused"
      /\ eventConnectionCount < MaxEventConnections
      /\ streams' = [streams EXCEPT ![c] =
                       [state    |-> IF live THEN "open" ELSE "ended",
                        of       |-> e,
                        known    |-> known,
                        afterSeq |-> afterSeq,
                        openedAt |-> record.lastSeq,
                        sent     |-> IF known THEN replay ELSE <<>>]]
      /\ listeners' = [listeners EXCEPT ![e] = IF live THEN @ \cup {c} ELSE @]
      /\ UNCHANGED records

(* req.on("close"): the client is gone; the listener is removed.           *)

unfollow(c) ==
  /\ streams[c].state = "open"
  /\ streams' = [streams EXCEPT ![c].state = "left"]
  /\ listeners' = [e \in ExecutionIds |-> listeners[e] \ {c}]
  /\ UNCHANGED records

-----------------------------------------------------------------------------
(* ack: only the first one with the seq of the terminal changes anything;  *)
(* a repeat, a conflict and an unknown id answer from what is stored.      *)

AckOutcome(e, finalSeq, disposition) ==
  LET record == records[e]
  IN  IF ~ Has(e) THEN "expired"
      ELSE IF record.tombstone
           THEN IF record.disposition = disposition THEN "acknowledged" ELSE "conflict"
      ELSE IF record.terminal = None \/ record.terminal.seq # finalSeq THEN "conflict"
      ELSE "acknowledged"

ack(e, finalSeq, disposition) ==
  /\ AckOutcome(e, finalSeq, disposition) = "acknowledged"
  /\ ~ records[e].tombstone
  /\ records' = [records EXCEPT ![e].disposition   = disposition,
                                ![e].events        = <<>>,
                                ![e].bufferedBytes = 0,
                                ![e].tombstone     = TRUE]
  /\ listeners' = [listeners EXCEPT ![e] = {}]
  /\ UNCHANGED streams

(* releaseScope: records and listeners go; open responses are not ended.   *)

releaseScope(s) ==
  LET gone == {e \in ExecutionIds : records[e].scopeId = s}
  IN  /\ gone # {}
      /\ records' = [e \in ExecutionIds |-> IF e \in gone THEN NoRecord ELSE records[e]]
      /\ listeners' = [e \in ExecutionIds |-> IF e \in gone THEN {} ELSE listeners[e]]
      /\ UNCHANGED streams

-----------------------------------------------------------------------------
Next ==
  \/ \E e \in ExecutionIds, s \in ScopeIds : begin(e, s)
  \/ \E e \in ExecutionIds, type \in DriverTypes : emit(e, type)
  \/ \E c \in Connections, e \in ExecutionIds, s \in ScopeIds, afterSeq \in 0 .. MaxSeq :
       follow(c, e, s, afterSeq)
  \/ \E c \in Connections : unfollow(c)
  \/ \E e \in ExecutionIds, finalSeq \in 1 .. MaxSeq, disposition \in Dispositions :
       ack(e, finalSeq, disposition)
  \/ \E s \in ScopeIds : releaseScope(s)

Spec == Init /\ [][Next]_registryVars
==============================================================================
