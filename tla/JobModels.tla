----------------------------- MODULE JobModels ------------------------------
(***************************************************************************)
(* The records the job scheduler's processes share (models.py): the status *)
(* of an execution row and the entry of the Redis sorted sets.             *)
(***************************************************************************)
EXTENDS Naturals

CONSTANTS
    Executions,        \* identifiers execution rows can have (uuid4 in the code)
    MaxStamp           \* bound: how many different due_at values an entry takes

ExecutionStatus == {"PENDING", "IN_PROGRESS", "COMPLETED", "RETRYING", "FAILED"}
Absent == "ABSENT"
Terminal == {"COMPLETED", "FAILED"}

(* due_at: None for an entry made from the execution row, otherwise the    *)
(* second that a recovery or a retry wrote into it.                        *)
NoDueAt == 0
Stamps == 1..MaxStamp

(* A member of a sorted set is the JSON text of this record: two entries   *)
(* of one execution are different members exactly when due_at differs.     *)
QueuedExecution == [exec : Executions, dueAt : {NoDueAt} \cup Stamps]

(* What a recovery or a retry can write: it happens after the entry was    *)
(* due, a visibility timeout or a retry delay later.                       *)
LaterThan(m) == {t \in Stamps : t > m.dueAt}

(* The entry the service makes from an execution row. *)
FirstEntry(e) == [exec |-> e, dueAt |-> NoDueAt]
=============================================================================
