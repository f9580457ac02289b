--------------------------- MODULE TaskLifecycle ---------------------------
(***************************************************************************)
(* What the task gateway promises about one task, whatever happens to the  *)
(* queue, the workers, the registry and the subscribers: a task is         *)
(* submitted once, started at most once, and once it is finished its       *)
(* outcome never changes.  It is the state machine of                      *)
(* youmi/gateway/models.py TaskStatus (CANCELLED is reserved and never     *)
(* assigned by the code).                                                  *)
(***************************************************************************)
CONSTANT Tasks

VARIABLE status

Statuses == {"new", "queued", "running", "completed", "failed"}

\* TaskStatus.finished: the terminal statuses.
Finished == {"completed", "failed"}

Init == status = [t \in Tasks |-> "new"]

Submit(t) ==
    /\ status[t] = "new"
    /\ status' = [status EXCEPT ![t] = "queued"]

Start(t) ==
    /\ status[t] = "queued"
    /\ status' = [status EXCEPT ![t] = "running"]

Finish(t) ==
    /\ status[t] = "running"
    /\ \E o \in Finished : status' = [status EXCEPT ![t] = o]

Next == \E t \in Tasks : Submit(t) \/ Start(t) \/ Finish(t)

Spec == Init /\ [][Next]_status
=============================================================================
