----------------------------- MODULE MCDiscussion -----------------------------
(***************************************************************************)
(* A small instance of one Room for TLC, the union of two scenarios:       *)
(*   one Round of a participant and the facilitator, with a user write;    *)
(*   two Rounds of the facilitator alone and the report, with a second     *)
(*   token and a second binding.                                           *)
(***************************************************************************)
EXTENDS DiscussionProperties

CONSTANTS p, f,            \* a speaker and the facilitator
          MaxFailures,     \* bound: executions that end without an entity
          MaxSettledAcks   \* bound: ACKs that are settled

MCOrders == {<<p, f>>, <<f>>}

Few(S, n) == Cardinality(S) <= n

Used(e) == executions[e].state # "none"

\* Topics, bindings and tokens have no order of their own: take the first one first.
FirstFirst ==
  /\ UserWrites = 0 => room.topic = "a"
  /\ "t2" \in granted => "t1" \in granted
  /\ bindings["b2"].state # "none" => bindings["b1"].state # "none"

OneController == granted \subseteq {"t1"} /\ bindings["b2"].state = "none"

OneRound ==
  /\ \A r \in RoundIds : rounds[r].phase # "none" => r = 1 /\ Len(rounds[r].participantOrder) = 2
  /\ OneController

TwoRounds ==
  /\ \A r \in RoundIds : rounds[r].phase # "none" => Len(rounds[r].participantOrder) = 1
  /\ UserWrites = 0
  /\ Few({e \in ExecutionIds : Used(e)}, IF OneController THEN 5 ELSE 4)

Bounded ==
  /\ FirstFirst
  /\ OneRound \/ TwoRounds
  /\ Few({e \in ExecutionIds : Failed(e)}, MaxFailures)
  /\ Few({e \in ExecutionIds : executions[e].ackState \in {"acknowledged", "expired"}},
         MaxSettledAcks)
=============================================================================
