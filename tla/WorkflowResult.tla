--------------------------- MODULE WorkflowResult ---------------------------
(***************************************************************************)
(* What a workflow promises, whatever its layers, its parallelism and its  *)
(* retries: every step gets one final result, never before all the steps   *)
(* it depends on have theirs; with fail_fast a step is skipped exactly if  *)
(* one of them failed or was skipped.  The next workflow begins when no    *)
(* step of this one has a result yet, or every step has.                   *)
(***************************************************************************)
CONSTANT Steps

VARIABLES deps, failFast, result

Bad == {"FAILED", "SKIPPED"}

Blocked(s) == failFast /\ \E d \in deps[s] : result[d] \in Bad

Init ==
    /\ deps \in [Steps -> SUBSET Steps] /\ failFast \in BOOLEAN
    /\ result = [s \in Steps |-> "PENDING"]

Settle(s) ==
    /\ result[s] = "PENDING"
    /\ \A d \in deps[s] : result[d] # "PENDING"
    /\ \E r \in IF Blocked(s) THEN {"SKIPPED"} ELSE {"COMPLETED", "FAILED"} :
          result' = [result EXCEPT ![s] = r]
    /\ UNCHANGED <<deps, failFast>>

NextWorkflow ==
    /\ \/ \A s \in Steps : result[s] = "PENDING"
       \/ \A s \in Steps : result[s] # "PENDING"
    /\ deps' \in [Steps -> SUBSET Steps] /\ failFast' \in BOOLEAN
    /\ result' = [s \in Steps |-> "PENDING"]

Next == NextWorkflow \/ \E s \in Steps : Settle(s)

Spec == Init /\ [][Next]_<<deps, failFast, result>>
=============================================================================
