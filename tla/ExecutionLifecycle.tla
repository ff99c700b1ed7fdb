-------------------------- MODULE ExecutionLifecycle --------------------------
(***************************************************************************)
(* What the Host promises about one Model Execution, without its events:   *)
(* an id is begun once, reaches one terminal, is acknowledged once with a  *)
(* disposition that never changes, and may be forgotten (with its scope)   *)
(* at any time.  ExecutionRegistry is shown to implement it.               *)
(***************************************************************************)
CONSTANTS ExecutionIds, Results, Dispositions, None

VARIABLES result,       \* None until begun, then "running", then the terminal
          disposition   \* None until acknowledged

vars == <<result, disposition>>

Init == /\ result = [e \in ExecutionIds |-> None]
        /\ disposition = [e \in ExecutionIds |-> None]

Begin(e) == /\ result[e] = None
            /\ result' = [result EXCEPT ![e] = "running"]
            /\ UNCHANGED disposition

Finish(e, r) == /\ result[e] = "running"
                /\ result' = [result EXCEPT ![e] = r]
                /\ UNCHANGED disposition

Acknowledge(e, d) == /\ result[e] \in Results
                     /\ disposition[e] = None
                     /\ disposition' = [disposition EXCEPT ![e] = d]
                     /\ UNCHANGED result

Forget(E) == /\ result' = [e \in ExecutionIds |-> IF e \in E THEN None ELSE result[e]]
             /\ disposition' = [e \in ExecutionIds |->
                                  IF e \in E THEN None ELSE disposition[e]]

Next == \/ \E e \in ExecutionIds : Begin(e)
        \/ \E e \in ExecutionIds, r \in Results : Finish(e, r)
        \/ \E e \in ExecutionIds, d \in Dispositions : Acknowledge(e, d)
        \/ \E E \in SUBSET ExecutionIds : Forget(E)

Spec == Init /\ [][Next]_vars
===============================================================================
