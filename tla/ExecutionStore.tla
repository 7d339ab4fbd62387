--------------------------- MODULE ExecutionStore ---------------------------
(***************************************************************************)
(* The executions table of the job scheduler (DynamoJobStore).  A row is   *)
(* an execution of a job; what the conditional updates look at and change  *)
(* is its status and its attempt counter.  Every operation below is one    *)
(* DynamoDB request, hence one atomic step.  The conditional update tests  *)
(* the stored status only: the attempt it writes is computed from a row    *)
(* the caller read earlier.                                                *)
(***************************************************************************)
EXTENDS JobModels

VARIABLES
    status,            \* status[e]: the row's status, "ABSENT" before put_execution
    attempt            \* attempt[e]: the row's attempt counter

storeVars == <<status, attempt>>

StoreTypeOK ==
    /\ status \in [Executions -> ExecutionStatus \cup {Absent}]
    /\ attempt \in [Executions -> Nat]

StoreInit ==
    /\ status = [e \in Executions |-> Absent]
    /\ attempt = [e \in Executions |-> 0]

Stored == {e \in Executions : status[e] # Absent}

(* put_execution: the key holds a fresh uuid, so the condition that the    *)
(* row does not exist always holds.                                        *)
PutExecution(e) ==
    /\ status[e] = Absent
    /\ status' = [status EXCEPT ![e] = "PENDING"]
    /\ attempt' = [attempt EXCEPT ![e] = 0]

-----------------------------------------------------------------------------
(* Mutants: a status too many among those a mark_* call allows. *)
InProgressFromRunning == {"PENDING", "RETRYING", "IN_PROGRESS"}
CompletedFromCompleted == {"IN_PROGRESS", "COMPLETED"}
CompletedFromRetrying == {"IN_PROGRESS", "RETRYING"}

(* The statuses each mark_* call passes as allowed_statuses.               *)
InProgressFrom == {"PENDING", "RETRYING"}
CompletedFrom == {"IN_PROGRESS"}
RetryingFrom == {"IN_PROGRESS"}
FailedFrom == {"IN_PROGRESS", "RETRYING"}

(* _transition: the update goes through when the stored status is one of   *)
(* the allowed ones; otherwise DynamoDB refuses it and ConflictError is    *)
(* raised, which the callers test with Conflict.                           *)
Conflict(e, allowed) == status[e] \notin allowed

Transition(e, new, allowed) ==
    /\ ~Conflict(e, allowed)
    /\ status' = [status EXCEPT ![e] = new]

(* mark_in_progress writes one more than the attempt the caller has read.  *)
MarkInProgress(e, read) ==
    /\ Transition(e, "IN_PROGRESS", InProgressFrom)
    /\ attempt' = [attempt EXCEPT ![e] = read + 1]

MarkCompleted(e) == Transition(e, "COMPLETED", CompletedFrom) /\ UNCHANGED attempt
MarkRetrying(e) == Transition(e, "RETRYING", RetryingFrom) /\ UNCHANGED attempt
MarkFailed(e) == Transition(e, "FAILED", FailedFrom) /\ UNCHANGED attempt
=============================================================================
