--------------------------- MODULE StreamProperties ---------------------------
(***************************************************************************)
(* What following one execution to its terminal must guarantee.            *)
(***************************************************************************)
EXTENDS ExecutionStream

(* The page stops for a reason: it gives a turn up as exhausted only if    *)
(* the terminal it has not seen was released by an ACK, and as lost only   *)
(* when the Host no longer knows it.  A terminal still buffered is always  *)
(* worth one more connection (decideFollowAfterClose).  A terminal taken   *)
(* from the stream is the one the Host holds, so what the page commits is  *)
(* the execution's one result and its seq the one an ACK must name.        *)
StopsForCause ==
  /\ page.outcome = "exhausted" => record.tombstone \/ ~ Has(Execution)
  /\ page.outcome = "lost" => ~ Has(Execution)
  /\ page.outcome = "terminal" /\ Has(Execution) =>
       Finished(record) /\ page.lastSeq = record.terminal.seq

(* No hot loop and no pinned follower: once the execution is finished or   *)
(* forgotten, the loop ends, whatever the network does (the discussion     *)
(* driver has no deadline of its own).                                     *)
FollowerSettles == Finished(record) \/ ~ Has(Execution) ~> page.pc = "done"

(* Until its terminal comes, the preview of a turn shows every chunk the   *)
(* Host still buffers up to the page's cursor, however its connections     *)
(* broke and its deltas were merged: a snapshot that replaces the preview  *)
(* never takes text away (applyPreview against bufferEvent).               *)
PreviewShowsTheBuffer ==
  ~ (Finished(record) /\ page.lastSeq >= record.lastSeq) =>
    \A chunk \in ToSet(TextOf(record.events)) :
      chunk <= page.lastSeq => chunk \in ToSet(preview)
===============================================================================
