----------------------------- MODULE DelayQueue -----------------------------
(***************************************************************************)
(* RedisDelayQueue: the sorted set of due executions and the sorted set of *)
(* leased ones.                                                            *)
(*                                                                         *)
(* Scores are abstracted to what the operations ask of them: whether a     *)
(* lease has run out (lapsed).  Every operator is one Redis command or one *)
(* MULTI pipeline, hence atomic.                                           *)
(***************************************************************************)
EXTENDS JobModels

VARIABLES
    due,               \* members of job_scheduler:due
    processing,        \* members of job_scheduler:processing
    lapsed             \* those of processing whose score is not after now

queueVars == <<due, processing, lapsed>>

QueueTypeOK ==
    /\ due \subseteq QueuedExecution
    /\ processing \subseteq QueuedExecution
    /\ lapsed \subseteq processing

QueueInit == due = {} /\ processing = {} /\ lapsed = {}

(* enqueue: ZADD NX, so an equal member already there is left alone. *)
Enqueue(m) ==
    /\ due' = due \cup {m}
    /\ UNCHANGED <<processing, lapsed>>

(* The two commands pop_due issues for each entry: ZREM from due, then     *)
(* ZADD to processing with a new lease.                                    *)
RemoveDue(m) ==
    /\ due' = due \ {m}
    /\ UNCHANGED <<processing, lapsed>>

GrantLease(m) ==
    /\ processing' = processing \cup {m}
    /\ lapsed' = lapsed \ {m}
    /\ UNCHANGED due

Ack(m) ==
    /\ processing' = processing \ {m}
    /\ lapsed' = lapsed \ {m}
    /\ UNCHANGED due

Release(m, dueAt) ==
    /\ processing' = processing \ {m}
    /\ lapsed' = lapsed \ {m}
    /\ due' = due \cup {[m EXCEPT !.dueAt = dueAt]}

(* extend_lease: ZADD XX renews a member that is still there. *)
ExtendLease(m) ==
    /\ lapsed' = lapsed \ {m}
    /\ UNCHANGED <<due, processing>>

(* Mutant: the ZREM results are not looked at. *)
ReclaimedAll(scanned) == scanned

(* reclaim_expired, second half: the pipelined ZREM of what was scanned.   *)
(* ZREM reports the members it found, Reclaimed(scanned).                  *)
Reclaimed(scanned) == scanned \cap processing

RemoveExpired(scanned) ==
    /\ processing' = processing \ scanned
    /\ lapsed' = lapsed \ scanned
    /\ UNCHANGED due

(* The clock passes the score of a lease. *)
Lapse(m) ==
    /\ m \in processing \ lapsed
    /\ lapsed' = lapsed \cup {m}
    /\ UNCHANGED <<due, processing>>
=============================================================================
