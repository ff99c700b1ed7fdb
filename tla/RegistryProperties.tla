-------------------------- MODULE RegistryProperties --------------------------
(***************************************************************************)
(* What the Host's execution store must guarantee.                         *)
(***************************************************************************)
EXTENDS ExecutionRegistry

Increasing(s) == \A i \in 1 .. Len(s) - 1 : s[i] < s[i + 1]
SeqsOf(events) == [i \in DOMAIN events |-> events[i].seq]

(* The buffer stays in seq order and its text stays in the order it was    *)
(* produced, each chunk once, however often deltas were merged into a      *)
(* snapshot: follow() replays in storage order (the invariant the code     *)
(* checks after coalescing, and the splice position it relies on).         *)
BufferIsInOrder ==
  \A e \in ExecutionIds : /\ Increasing(SeqsOf(records[e].events))
                          /\ Increasing(TextOf(records[e].events))

(* A connection that follows live has been sent every event emitted since  *)
(* it was opened, once and in seq order, those dropped from the buffer     *)
(* included: nothing slips between the replay and the registration of the  *)
(* listener, and nothing comes twice.                                      *)
NothingMissedLive ==
  \A e \in ExecutionIds : \A c \in listeners[e] :
    /\ streams[c].state = "open" /\ streams[c].of = e
    /\ ~ Finished(records[e])
    /\ Increasing(SeqsOf(streams[c].sent))
    /\ streams[c].openedAt + 1 .. records[e].lastSeq
         \subseteq {streams[c].sent[i].seq : i \in DOMAIN streams[c].sent}

(* The Host ends a response only when the client can learn nothing more    *)
(* from it: the execution is unknown there, or it is finished and its      *)
(* terminal was sent, lies behind the client's cursor, or was released     *)
(* (a response left open pins a follower that has no deadline).            *)
EndedMeansNothingLeft ==
  [][\A c \in Connections :
       streams'[c].state = "ended" /\ streams[c].state # "ended" /\ streams'[c].known =>
         LET record == records'[streams'[c].of]
             sent   == streams'[c].sent
         IN  /\ Finished(record)
             /\ \/ record.tombstone
                \/ streams'[c].afterSeq >= record.lastSeq
                \/ sent # <<>> /\ Last(sent) = record.terminal]_registryVars

(* Merging deltas never loses text that was buffered: only an ACK or the   *)
(* end of the scope releases it.                                           *)
CoalescingKeepsText ==
  [][\A e \in ExecutionIds :
       Has(e) /\ records'[e].state # "absent" /\ ~ records'[e].tombstone =>
         \A chunk \in ToSet(TextOf(records[e].events)) :
           chunk \in ToSet(TextOf(records'[e].events))]_registryVars

(* The registry implements the lifecycle: one terminal for each begun id,  *)
(* one disposition after it.                                               *)
Lifecycle ==
  INSTANCE ExecutionLifecycle WITH
    Results     <- TerminalTypes,
    result      <- [e \in ExecutionIds |->
                      IF records[e].state = "absent" THEN None ELSE records[e].state],
    disposition <- [e \in ExecutionIds |-> records[e].disposition]

ImplementsLifecycle == Lifecycle!Spec
===============================================================================
