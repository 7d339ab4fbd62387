---------------------------- MODULE JobScheduler ----------------------------
(***************************************************************************)
(* The job scheduler: the API process that creates jobs, the scheduler     *)
(* process that looks ahead for pending executions, and the worker         *)
(* processes that pop, run, retry and recover executions, over the         *)
(* executions table (ExecutionStore) and the Redis queues (DelayQueue).    *)
(*                                                                         *)
(* Each step is one request to DynamoDB or Redis together with the local   *)
(* code up to the next request, so everything another process can do       *)
(* between two requests is here.  A worker crash loses what the process    *)
(* had in memory: the entries it was holding and the rows it had read.     *)
(*                                                                         *)
(* Time is abstracted to what the code compares it with: an execution is   *)
(* beyond the scheduler's window (far), inside it (near), due, or older    *)
(* than the lookback (aged); a lease is valid or lapsed; an entry with a   *)
(* due_at can be popped at any moment.                                     *)
(***************************************************************************)
EXTENDS ExecutionStore, DelayQueue, FiniteSetsExt

CONSTANTS
    Workers,           \* worker processes
    Jobs,              \* jobs users create
    CronJobs,          \* those with a CRON schedule
    None,              \* no job, no execution
    MaxAttempts,       \* settings.max_attempts
    BatchSize,         \* settings.worker_batch_size
    MaxCrashes,        \* bound: worker, scheduler or API crashes in a behaviour
    MaxRuns,           \* bound: claims of executions in a behaviour
    StartPhases,       \* bound: where scheduled_at of a new row may lie
    Stalls,            \* may the lease of a live worker run out before a heartbeat?
    Outages            \* may an execution age while it waits for the scheduler?

ASSUME ConstantsAssumption ==
    /\ CronJobs \subseteq Jobs
    /\ None \notin Jobs \cup Executions
    /\ MaxAttempts \in Nat \ {0}
    /\ BatchSize \in Nat \ {0}
    /\ MaxCrashes \in Nat
    /\ MaxRuns \in Nat
    /\ StartPhases \subseteq {"far", "near", "due", "aged"}
    /\ MaxStamp \in Nat \ {0}
    /\ Stalls \in BOOLEAN
    /\ Outages \in BOOLEAN

VARIABLES
    phase,             \* phase[e]: where scheduled_at lies relative to now
    jobOf,             \* jobOf[e]: the row's job_id
    api,               \* api[j]: progress of the create_job request of job j
    first,             \* first[j]: the execution that request has made
    pendingScan,       \* rows the scheduler has read and not yet enqueued
    pc,                \* pc[w]: where the loop of worker w is
    batch,             \* batch[w]: entries that loop has still to handle
    step,              \* step[w][m]: progress of worker w on entry m
    seen,              \* seen[w][m]: the attempt in the row w read for m
    crashes,           \* crashes so far
    runs,              \* runs[e]: how often e was claimed (history)
    successors         \* successors[e]: next executions made for e (history)

serviceVars == <<phase, jobOf, api, first>>
workerVars == <<pc, batch, step, seen>>
historyVars == <<runs, successors>>
vars == <<storeVars, queueVars, serviceVars, pendingScan, workerVars, crashes,
          historyVars>>

Phases == {"far", "near", "due", "aged"}

ApiSteps == {"none", "job", "row", "done"}

(* Where run_forever is: at the top of the loop, between the scan and the  *)
(* removal of expired leases, handling the reclaimed entries, about to     *)
(* pop, popping, in gather, or not running.                                *)
LoopSteps == {"idle", "reclaiming", "recovering", "polling", "popping",
              "gather", "down"}

(* Where process (popped .. announcing), pop_due (removed) and             *)
(* recover_expired_leases (failing, retrying, requeue) are with an entry.  *)
EntrySteps == {"none", "removed", "popped", "read", "running", "releasing",
               "acking", "completed", "chaining", "announcing",
               "failing", "retrying", "requeue"}

(* A create_job request that is about to enqueue has stored its row. *)
FirstMade == \A j \in Jobs : api[j] = "row" => first[j] \in Stored

TypeOK ==
    /\ FirstMade
    /\ StoreTypeOK
    /\ QueueTypeOK
    /\ phase \in [Executions -> Phases]
    /\ jobOf \in [Executions -> Jobs \cup {None}]
    /\ api \in [Jobs -> ApiSteps]
    /\ first \in [Jobs -> Executions \cup {None}]
    /\ pendingScan \subseteq Executions
    /\ pc \in [Workers -> LoopSteps]
    /\ batch \in [Workers -> SUBSET QueuedExecution]
    /\ step \in [Workers -> [QueuedExecution -> EntrySteps]]
    /\ seen \in [Workers -> [QueuedExecution -> Nat]]
    /\ crashes \in Nat
    /\ runs \in [Executions -> Nat]
    /\ successors \in [Executions -> SUBSET Executions]

Idle == [m \in QueuedExecution |-> "none"]
Unread == [m \in QueuedExecution |-> 0]

Init ==
    /\ StoreInit
    /\ QueueInit
    /\ phase = [e \in Executions |-> "far"]
    /\ jobOf = [e \in Executions |-> None]
    /\ api = [j \in Jobs |-> "none"]
    /\ first = [j \in Jobs |-> None]
    /\ pendingScan = {}
    /\ pc = [w \in Workers |-> "idle"]
    /\ batch = [w \in Workers |-> {}]
    /\ step = [w \in Workers |-> Idle]
    /\ seen = [w \in Workers |-> Unread]
    /\ crashes = 0
    /\ runs = [e \in Executions |-> 0]
    /\ successors = [e \in Executions |-> {}]

-----------------------------------------------------------------------------
(* Creating a job, and the near-term rule shared with recurring jobs.      *)

(* A row for e is stored with a scheduled_at in phase p. *)
NewExecution(e, j, p) ==
    /\ PutExecution(e)
    /\ phase' = [phase EXCEPT ![e] = p]
    /\ jobOf' = [jobOf EXCEPT ![e] = j]

(* enqueue_if_near_term *)
EnqueueIfNearTerm(e) ==
    IF phase[e] = "far" THEN UNCHANGED queueVars ELSE Enqueue(FirstEntry(e))

PutJob(j) ==
    /\ api[j] = "none"
    /\ api' = [api EXCEPT ![j] = "job"]
    /\ UNCHANGED <<storeVars, queueVars, phase, jobOf, first, pendingScan,
                   workerVars, crashes, historyVars>>

(* Mutant: the request goes on although its row was not stored. *)
PutFirstUnstored(j) ==
    /\ api[j] = "job"
    /\ \E e \in Executions, p \in StartPhases :
          /\ phase' = [phase EXCEPT ![e] = p]
          /\ jobOf' = [jobOf EXCEPT ![e] = j]
          /\ first' = [first EXCEPT ![j] = e]
    /\ api' = [api EXCEPT ![j] = "row"]
    /\ UNCHANGED <<storeVars, queueVars, pendingScan, workerVars, crashes, historyVars>>

PutFirstExecution(j) ==
    /\ api[j] = "job"
    /\ \E e \in Executions, p \in StartPhases :
          /\ NewExecution(e, j, p)
          /\ first' = [first EXCEPT ![j] = e]
    /\ api' = [api EXCEPT ![j] = "row"]
    /\ UNCHANGED <<queueVars, pendingScan, workerVars, crashes, historyVars>>

EnqueueFirst(j) ==
    /\ api[j] = "row"
    /\ EnqueueIfNearTerm(first[j])
    /\ api' = [api EXCEPT ![j] = "done"]
    /\ UNCHANGED <<storeVars, phase, jobOf, first, pendingScan, workerVars,
                   crashes, historyVars>>

-----------------------------------------------------------------------------
(* The scheduler process: enqueue_pending_window.                          *)

(* Mutants: rows to retry instead of pending ones; no lookback. *)
RetryingExecutions == {e \in Executions : status[e] = "RETRYING" /\ phase[e] \in {"near", "due"}}
NearExecutions == {e \in Executions : status[e] = "PENDING" /\ phase[e] = "near"}

DueExecutions == {e \in Executions : status[e] = "PENDING" /\ phase[e] \in {"near", "due"}}

SchedulerScan ==
    /\ pendingScan = {}
    /\ pendingScan' = DueExecutions
    /\ UNCHANGED <<storeVars, queueVars, serviceVars, workerVars, crashes, historyVars>>

SchedulerEnqueue(e) ==
    /\ e \in pendingScan
    /\ Enqueue(FirstEntry(e))
    /\ pendingScan' = pendingScan \ {e}
    /\ UNCHANGED <<storeVars, serviceVars, workerVars, crashes, historyVars>>

-----------------------------------------------------------------------------
(* The worker loop, first half: recover_expired_leases.                    *)

SetStep(w, m, s) == step' = [step EXCEPT ![w][m] = s]

(* The row read for the entry is no longer of use. *)
Forget(w, m) == seen' = [seen EXCEPT ![w][m] = 0]

(* The entry of its batch worker w is in the middle of, if any. *)
InHand(w) == {m \in QueuedExecution : step[w][m] # "none"}

(* reclaim_expired reads up to a batch of lapsed members and removes them  *)
(* in a second request; a heartbeat in between changes nothing for it.     *)
ReclaimScan(w) ==
    /\ pc[w] = "idle"
    /\ \E S \in SUBSET lapsed :
          /\ Cardinality(S) <= BatchSize
          /\ S # lapsed => Cardinality(S) = BatchSize
          /\ batch' = [batch EXCEPT ![w] = S]
          /\ pc' = [pc EXCEPT ![w] = IF S = {} THEN "polling" ELSE "reclaiming"]
    /\ UNCHANGED <<storeVars, queueVars, serviceVars, pendingScan, step, seen,
                   crashes, historyVars>>

ReclaimRemove(w) ==
    /\ pc[w] = "reclaiming"
    /\ RemoveExpired(batch[w])
    /\ batch' = [batch EXCEPT ![w] = Reclaimed(batch[w])]
    /\ pc' = [pc EXCEPT ![w] = "recovering"]
    /\ UNCHANGED <<storeVars, serviceVars, pendingScan, step, seen, crashes, historyVars>>

(* Mutant: one attempt too many after a lost lease. *)
RecoveryStepLate(e) ==
    IF attempt[e] > MaxAttempts THEN "failing"
    ELSE IF status[e] = "IN_PROGRESS" THEN "retrying" ELSE "requeue"

(* What the row read for a reclaimed entry asks for. *)
RecoveryStep(e) ==
    IF attempt[e] >= MaxAttempts THEN "failing"
    ELSE IF status[e] = "IN_PROGRESS" THEN "retrying" ELSE "requeue"

RecoverRead(w, m) ==
    /\ pc[w] = "recovering"
    /\ InHand(w) = {}
    /\ m \in batch[w]
    /\ batch' = [batch EXCEPT ![w] = @ \ {m}]
    /\ SetStep(w, m, IF status[m.exec] \in Terminal THEN "none" ELSE RecoveryStep(m.exec))
    /\ UNCHANGED <<storeVars, queueVars, serviceVars, pendingScan, pc, seen,
                   crashes, historyVars>>

(* mark_failed, or nothing when the row has moved on. *)
RecoverFail(w, m) ==
    /\ step[w][m] = "failing"
    /\ IF Conflict(m.exec, FailedFrom) THEN UNCHANGED storeVars ELSE MarkFailed(m.exec)
    /\ SetStep(w, m, "none")
    /\ UNCHANGED <<queueVars, serviceVars, pendingScan, pc, batch, seen, crashes, historyVars>>

(* mark_retrying, or drop the entry when the row has moved on. *)
RecoverRetry(w, m) ==
    /\ step[w][m] = "retrying"
    /\ IF Conflict(m.exec, RetryingFrom)
       THEN UNCHANGED storeVars /\ SetStep(w, m, "none")
       ELSE MarkRetrying(m.exec) /\ SetStep(w, m, "requeue")
    /\ UNCHANGED <<queueVars, serviceVars, pendingScan, pc, batch, seen, crashes, historyVars>>

RecoverEnqueue(w, m) ==
    /\ step[w][m] = "requeue"
    /\ \E now \in LaterThan(m) : Enqueue([m EXCEPT !.dueAt = now])
    /\ SetStep(w, m, "none")
    /\ UNCHANGED <<storeVars, serviceVars, pendingScan, pc, batch, seen, crashes, historyVars>>

RecoverDone(w) ==
    /\ pc[w] = "recovering"
    /\ batch[w] = {} /\ InHand(w) = {}
    /\ pc' = [pc EXCEPT ![w] = "polling"]
    /\ UNCHANGED <<storeVars, queueVars, serviceVars, pendingScan, batch, step,
                   seen, crashes, historyVars>>

-----------------------------------------------------------------------------
(* The worker loop, second half: pop_due, then gather over the popped.     *)

(* Members whose score may have been reached: a first entry is scored by   *)
(* scheduled_at, a stamped one by its due_at.                              *)
Ripe == {m \in due : m.dueAt = NoDueAt => phase[m.exec] \in {"due", "aged"}}

PopScan(w) ==
    /\ pc[w] = "polling"
    /\ \E S \in SUBSET Ripe :
          /\ Cardinality(S) <= BatchSize
          /\ batch' = [batch EXCEPT ![w] = S]
          /\ pc' = [pc EXCEPT ![w] = IF S = {} THEN "idle" ELSE "popping"]
    /\ UNCHANGED <<storeVars, queueVars, serviceVars, pendingScan, step, seen,
                   crashes, historyVars>>

(* One ZREM per scanned member: whoever removes it owns it. *)
PopRemove(w, m) ==
    /\ pc[w] = "popping"
    /\ \A n \in QueuedExecution : step[w][n] # "removed"
    /\ m \in batch[w]
    /\ batch' = [batch EXCEPT ![w] = @ \ {m}]
    /\ RemoveDue(m)
    /\ SetStep(w, m, IF m \in due THEN "removed" ELSE "none")
    /\ UNCHANGED <<storeVars, serviceVars, pendingScan, pc, seen, crashes, historyVars>>

PopLease(w, m) ==
    /\ step[w][m] = "removed"
    /\ GrantLease(m)
    /\ SetStep(w, m, "popped")
    /\ UNCHANGED <<storeVars, serviceVars, pendingScan, pc, batch, seen, crashes, historyVars>>

StartGather(w) ==
    /\ pc[w] = "popping"
    /\ batch[w] = {}
    /\ \A m \in QueuedExecution : step[w][m] # "removed"
    /\ pc' = [pc EXCEPT ![w] = IF InHand(w) = {} THEN "idle" ELSE "gather"]
    /\ UNCHANGED <<storeVars, queueVars, serviceVars, pendingScan, batch, step,
                   seen, crashes, historyVars>>

GatherDone(w) ==
    /\ pc[w] = "gather"
    /\ InHand(w) = {}
    /\ pc' = [pc EXCEPT ![w] = "idle"]
    /\ UNCHANGED <<storeVars, queueVars, serviceVars, pendingScan, batch, step,
                   seen, crashes, historyVars>>

-----------------------------------------------------------------------------
(* Worker.process.                                                         *)

(* Worker w stops: what it held in memory is gone. *)
Die(w) ==
    /\ pc' = [pc EXCEPT ![w] = "down"]
    /\ batch' = [batch EXCEPT ![w] = {}]
    /\ step' = [step EXCEPT ![w] = Idle]
    /\ seen' = [seen EXCEPT ![w] = Unread]

(* The coroutines gather runs share one thread, and process awaits only    *)
(* the task: no other one is past its start and outside its task.          *)
Turn(w, m) == \A n \in QueuedExecution \ {m} : step[w][n] \in {"none", "popped", "running"}

ReadExecution(w, m) ==
    /\ pc[w] = "gather"
    /\ Turn(w, m)
    /\ step[w][m] = "popped"
    /\ SetStep(w, m, "read")
    /\ seen' = [seen EXCEPT ![w][m] = attempt[m.exec]]
    /\ UNCHANGED <<storeVars, queueVars, serviceVars, pendingScan, pc, batch,
                   crashes, historyVars>>

Claims == MapThenSumSet(LAMBDA e : runs[e], Executions)

(* mark_in_progress; a ConflictError means the entry is only acknowledged. *)
Claim(w, m) ==
    /\ step[w][m] = "read"
    /\ ~Conflict(m.exec, InProgressFrom)
    /\ Claims < MaxRuns
    /\ MarkInProgress(m.exec, seen[w][m])
    /\ seen' = [seen EXCEPT ![w][m] = @ + 1]
    /\ SetStep(w, m, "running")
    /\ runs' = [runs EXCEPT ![m.exec] = @ + 1]
    /\ UNCHANGED <<queueVars, serviceVars, pendingScan, pc, batch, crashes, successors>>

NotClaimable(w, m) ==
    /\ step[w][m] = "read"
    /\ Conflict(m.exec, InProgressFrom)
    /\ SetStep(w, m, "acking")
    /\ Forget(w, m)
    /\ UNCHANGED <<storeVars, queueVars, serviceVars, pendingScan, pc, batch,
                   crashes, historyVars>>

(* _heartbeat runs while the task does. *)
Heartbeat(w, m) ==
    /\ step[w][m] = "running"
    /\ Turn(w, m)
    /\ m \in lapsed
    /\ ExtendLease(m)
    /\ UNCHANGED <<storeVars, serviceVars, pendingScan, workerVars, crashes, historyVars>>

(* The task raised.  A ConflictError of mark_failed or mark_retrying is    *)
(* not caught: it leaves gather and ends the worker process.               *)
TaskFails(w, m) ==
    LET last == seen[w][m] >= MaxAttempts IN
    /\ step[w][m] = "running"
    /\ Turn(w, m)
    /\ IF Conflict(m.exec, IF last THEN FailedFrom ELSE RetryingFrom)
       THEN UNCHANGED storeVars /\ Die(w)
       ELSE /\ IF last THEN MarkFailed(m.exec) ELSE MarkRetrying(m.exec)
            /\ SetStep(w, m, IF last THEN "acking" ELSE "releasing")
            /\ Forget(w, m)
            /\ UNCHANGED <<pc, batch>>
    /\ UNCHANGED <<queueVars, serviceVars, pendingScan, crashes, historyVars>>

(* release, after a retry delay. *)
ReleaseEntry(w, m) ==
    /\ step[w][m] = "releasing"
    /\ \E dueAt \in LaterThan(m) : Release(m, dueAt)
    /\ SetStep(w, m, "none")
    /\ UNCHANGED <<storeVars, serviceVars, pendingScan, pc, batch, seen, crashes, historyVars>>

AckEntry(w, m) ==
    /\ step[w][m] = "acking"
    /\ Ack(m)
    /\ SetStep(w, m, "none")
    /\ UNCHANGED <<storeVars, serviceVars, pendingScan, pc, batch, seen, crashes, historyVars>>

(* The task returned; mark_completed may raise ConflictError as above. *)
TaskReturns(w, m) ==
    /\ step[w][m] = "running"
    /\ Turn(w, m)
    /\ IF Conflict(m.exec, CompletedFrom)
       THEN UNCHANGED storeVars /\ Die(w)
       ELSE /\ MarkCompleted(m.exec)
            /\ SetStep(w, m, "completed")
            /\ Forget(w, m)
            /\ UNCHANGED <<pc, batch>>
    /\ UNCHANGED <<queueVars, serviceVars, pendingScan, crashes, historyVars>>

(* Mutant: process returns after the acknowledgement. *)
AckCompletedOnly(w, m) ==
    /\ step[w][m] = "completed"
    /\ Ack(m)
    /\ SetStep(w, m, "none")
    /\ UNCHANGED <<storeVars, serviceVars, pendingScan, pc, batch, seen, crashes, historyVars>>

AckCompleted(w, m) ==
    /\ step[w][m] = "completed"
    /\ Ack(m)
    /\ SetStep(w, m, "chaining")
    /\ UNCHANGED <<storeVars, serviceVars, pendingScan, pc, batch, seen, crashes, historyVars>>

(* create_next_recurring_execution: the next row of a cron job, unless the *)
(* bound on rows is reached, and then its entry.                           *)
PutNextExecution(w, m) ==
    /\ step[w][m] = "chaining"
    /\ IF jobOf[m.exec] \in CronJobs /\ Stored # Executions
       THEN /\ \E e \in Executions, p \in StartPhases :
                  /\ NewExecution(e, jobOf[m.exec], p)
                  /\ successors' = [successors EXCEPT ![m.exec] = @ \cup {e}]
            /\ SetStep(w, m, "announcing")
       ELSE /\ SetStep(w, m, "none")
            /\ UNCHANGED <<storeVars, phase, jobOf, successors>>
    /\ UNCHANGED <<queueVars, api, first, pendingScan, pc, batch, seen, crashes, runs>>

EnqueueNext(w, m) ==
    /\ step[w][m] = "announcing"
    /\ \E e \in successors[m.exec] : EnqueueIfNearTerm(e)
    /\ SetStep(w, m, "none")
    /\ UNCHANGED <<storeVars, serviceVars, pendingScan, pc, batch, seen, crashes, historyVars>>

-----------------------------------------------------------------------------
(* The environment: the clock, crashes and restarts.                       *)

(* scheduled_at comes nearer and passes. *)
Advance(e) ==
    /\ status[e] # Absent
    /\ \/ phase[e] = "far" /\ phase' = [phase EXCEPT ![e] = "near"]
       \/ phase[e] = "near" /\ phase' = [phase EXCEPT ![e] = "due"]
    /\ UNCHANGED <<storeVars, queueVars, jobOf, api, first, pendingScan,
                   workerVars, crashes, historyVars>>

(* A pending execution grows older than the lookback only when the         *)
(* scheduler is out for that long; of others nobody asks the age.          *)
Age(e) ==
    /\ Outages
    /\ status[e] = "PENDING"
    /\ phase[e] = "due"
    /\ phase' = [phase EXCEPT ![e] = "aged"]
    /\ UNCHANGED <<storeVars, queueVars, jobOf, api, first, pendingScan,
                   workerVars, crashes, historyVars>>

(* A lease runs out.  The heartbeat comes every half visibility timeout,   *)
(* so unless workers stall only a lease no live worker holds does.         *)
LeaseLapses(m) ==
    /\ Stalls \/ \A w \in Workers : step[w][m] = "none"
    /\ Lapse(m)
    /\ UNCHANGED <<storeVars, serviceVars, pendingScan, workerVars, crashes, historyVars>>

CrashWorker(w) ==
    /\ pc[w] # "down"
    /\ crashes < MaxCrashes
    /\ crashes' = crashes + 1
    /\ Die(w)
    /\ UNCHANGED <<storeVars, queueVars, serviceVars, pendingScan, historyVars>>

RestartWorker(w) ==
    /\ pc[w] = "down"
    /\ pc' = [pc EXCEPT ![w] = "idle"]
    /\ UNCHANGED <<storeVars, queueVars, serviceVars, pendingScan, batch, step,
                   seen, crashes, historyVars>>

CrashScheduler ==
    /\ pendingScan # {}
    /\ crashes < MaxCrashes
    /\ crashes' = crashes + 1
    /\ pendingScan' = {}
    /\ UNCHANGED <<storeVars, queueVars, serviceVars, workerVars, historyVars>>

(* The API process dies in the middle of a create_job request. *)
CrashApi(j) ==
    /\ api[j] \in {"job", "row"}
    /\ crashes < MaxCrashes
    /\ crashes' = crashes + 1
    /\ api' = [api EXCEPT ![j] = "done"]
    /\ UNCHANGED <<storeVars, queueVars, phase, jobOf, first, pendingScan,
                   workerVars, historyVars>>

-----------------------------------------------------------------------------
Api == \E j \in Jobs : PutJob(j) \/ PutFirstExecution(j) \/ EnqueueFirst(j)

Scheduler == SchedulerScan \/ \E e \in Executions : SchedulerEnqueue(e)

Recovery(w) ==
    \/ ReclaimScan(w) \/ ReclaimRemove(w) \/ RecoverDone(w)
    \/ \E m \in QueuedExecution :
          RecoverRead(w, m) \/ RecoverFail(w, m) \/ RecoverRetry(w, m) \/ RecoverEnqueue(w, m)

Pop(w) ==
    \/ PopScan(w) \/ StartGather(w) \/ GatherDone(w)
    \/ \E m \in QueuedExecution : PopRemove(w, m) \/ PopLease(w, m)

Process(w, m) ==
    \/ ReadExecution(w, m) \/ Claim(w, m) \/ NotClaimable(w, m)
    \/ TaskFails(w, m) \/ ReleaseEntry(w, m) \/ AckEntry(w, m)
    \/ TaskReturns(w, m) \/ AckCompleted(w, m)
    \/ PutNextExecution(w, m) \/ EnqueueNext(w, m)

Environment ==
    \/ \E e \in Executions : Advance(e) \/ Age(e)
    \/ \E m \in QueuedExecution : LeaseLapses(m)
    \/ \E w \in Workers : CrashWorker(w) \/ RestartWorker(w)
    \/ CrashScheduler
    \/ \E j \in Jobs : CrashApi(j)

Next ==
    \/ Api
    \/ Scheduler
    \/ \E w \in Workers : Recovery(w) \/ Pop(w)
    \/ \E w \in Workers, m \in QueuedExecution : Process(w, m) \/ Heartbeat(w, m)
    \/ Environment

Spec == Init /\ [][Next]_vars

-----------------------------------------------------------------------------
(* Properties.                                                             *)

(* A status of COMPLETED or FAILED is never left, whichever stale worker   *)
(* or recovery writes next: each conditional update excludes both.         *)
TerminalIsFinal == [][\A e \in Executions : status[e] \in Terminal => status'[e] = status[e]]_vars

(* Recurring executions form a chain: whatever is retried, recovered or    *)
(* run twice, an execution gets at most one next execution, only once it   *)
(* is COMPLETED, and no row is the next one of two.                        *)
ChainIsLinear ==
    \A e \in Executions :
        /\ successors[e] # {} => status[e] = "COMPLETED"
        /\ \A a, b \in successors[e] : a = b
        /\ \A f \in Executions : f # e => successors[e] \cap successors[f] = {}

(* Two workers never run the task of one execution at the same time.       *)
OneRunner ==
    \A v, w \in Workers : \A m, n \in QueuedExecution :
        /\ step[v][m] = "running"
        /\ step[w][n] = "running"
        /\ m.exec = n.exec
        => v = w /\ m = n

(* No execution is claimed, and its task run, more than max_attempts times.*)
RunsBounded == \A e \in Executions : runs[e] <= MaxAttempts

(* Something still knows of e: an entry of it is queued or leased, or a    *)
(* live worker holds one.                                                  *)
Tracked(e) ==
    \/ \E m \in due \cup processing : m.exec = e
    \/ \E w \in Workers :
          \/ \E m \in batch[w] : m.exec = e
          \/ \E m \in QueuedExecution : step[w][m] # "none" /\ m.exec = e

(* An execution that a worker has claimed and not finished can be found    *)
(* again: through its lease, its retry entry or the worker itself.  Only   *)
(* PENDING rows are ever read back from the table.                         *)
NoneStranded ==
    \A e \in Executions : status[e] \in {"IN_PROGRESS", "RETRYING"} => Tracked(e)

(* Until a process crashes, a completed execution of a cron job has its    *)
(* next one or its worker is about to make it, also when that worker's     *)
(* lease has lapsed or it finds its row changed by a recovery.  A crash    *)
(* after mark_completed ends the job for good: nothing reads the row again.*)
ChainUnbroken ==
    \A e \in Executions :
        /\ crashes = 0
        /\ status[e] = "COMPLETED"
        /\ jobOf[e] \in CronJobs
        /\ Stored # Executions
        => \/ successors[e] # {}
           \/ \E w \in Workers, m \in QueuedExecution :
                 m.exec = e /\ step[w][m] \in {"completed", "chaining"}

(* The rows live as ExecutionLifecycle says, and next executions are made  *)
(* as it says, in spite of crashes, stalls and duplicate entries.          *)
Lifecycle == INSTANCE ExecutionLifecycle WITH next <- successors
LifecycleRefinement == Lifecycle!Spec
=============================================================================
