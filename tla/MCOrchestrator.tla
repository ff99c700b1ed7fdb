---------------------------- MODULE MCOrchestrator ----------------------------
(***************************************************************************)
(* A small instance of the orchestrator for TLC, the union of two          *)
(* scenarios: one page whose user has two intents at once, and two pages   *)
(* of one Room with one intent.                                            *)
(***************************************************************************)
EXTENDS OrchestratorProperties, TLC

MCOrders == {<<CHOOSE p \in Participants : p # Facilitator>>}

Interchangeable == Permutations(Tasks) \cup Permutations(Pages)

Used == {e \in ExecutionIds : executions[e].state # "none"}

Missed == {e \in ExecutionIds : turns[e].missed}

TwoIntents ==
  /\ \E p \in Pages : \A q \in Pages \ {p} : view[q] = Loaded
  /\ spent.reloads = 0 /\ spent.handovers = 0
  /\ issued <= 2
  /\ UserWrites + (IF Missed = {} THEN spent.lost ELSE 1) <= 1
  /\ spent.lost > 0 \/ Missed # {} => Cardinality(Used) <= 2
  /\ Missed # {} => issued <= 1

TwoPages ==
  /\ spent.intents <= 1 /\ spent.lost = 0 /\ UserWrites = 0 /\ Missed = {}
  /\ Cardinality(Used) <= IF spent.reloads + spent.handovers > 0 THEN 1 ELSE 2

Bounded == TwoIntents \/ TwoPages
=============================================================================
