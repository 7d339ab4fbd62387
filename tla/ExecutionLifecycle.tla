------------------------- MODULE ExecutionLifecycle -------------------------
(***************************************************************************)
(* What the job scheduler promises about executions, whatever happens to   *)
(* queues, leases, workers and the scheduler: the life of one execution    *)
(* row, and the chain of the executions of a recurring job.  JobScheduler  *)
(* implements it (LifecycleRefinement).                                    *)
(***************************************************************************)
CONSTANT Executions

VARIABLES
    status,            \* status[e], "ABSENT" before the row exists
    next               \* next[e]: the executions made because e completed

Init ==
    /\ status = [e \in Executions |-> "ABSENT"]
    /\ next = [e \in Executions |-> {}]

Move(e, from, to) ==
    /\ status[e] \in from
    /\ status' = [status EXCEPT ![e] = to]
    /\ UNCHANGED next

Create(e) == Move(e, {"ABSENT"}, "PENDING")
Start(e) == Move(e, {"PENDING", "RETRYING"}, "IN_PROGRESS")
Retry(e) == Move(e, {"IN_PROGRESS"}, "RETRYING")
Fail(e) == Move(e, {"IN_PROGRESS", "RETRYING"}, "FAILED")
Complete(e) == Move(e, {"IN_PROGRESS"}, "COMPLETED")

(* A completed execution begets one further execution, once. *)
Beget(e, f) ==
    /\ status[e] = "COMPLETED"
    /\ next[e] = {}
    /\ status[f] = "ABSENT"
    /\ status' = [status EXCEPT ![f] = "PENDING"]
    /\ next' = [next EXCEPT ![e] = {f}]

Next ==
    \/ \E e \in Executions : Create(e) \/ Start(e) \/ Retry(e) \/ Fail(e) \/ Complete(e)
    \/ \E e, f \in Executions : Beget(e, f)

Spec == Init /\ [][Next]_<<status, next>>
=============================================================================
