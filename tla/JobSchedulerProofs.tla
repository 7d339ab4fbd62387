------------------------- MODULE JobSchedulerProofs -------------------------
(***************************************************************************)
(* Theorems about JobScheduler, for any number of executions, workers and  *)
(* jobs, any batch size, any number of crashes, with or without stalls and *)
(* outages.                                                                *)
(***************************************************************************)
EXTENDS JobScheduler, TLAPS

-----------------------------------------------------------------------------
(* Entries of the sorted sets. *)

LEMMA FirstEntryType ==
    ASSUME NEW e \in Executions
    PROVE  FirstEntry(e) \in QueuedExecution /\ FirstEntry(e).exec = e
BY DEF FirstEntry, QueuedExecution

LEMMA LaterEntryType ==
    ASSUME NEW m \in QueuedExecution, NEW t \in LaterThan(m)
    PROVE  [m EXCEPT !.dueAt = t] \in QueuedExecution
BY DEF LaterThan, QueuedExecution

LEMMA ExecOfEntry == \A m \in QueuedExecution : m.exec \in Executions
BY DEF QueuedExecution

LEMMA SetStepType ==
    ASSUME TypeOK, NEW w \in Workers, NEW m \in QueuedExecution,
           NEW s \in EntrySteps, SetStep(w, m, s)
    PROVE  step' \in [Workers -> [QueuedExecution -> EntrySteps]]
BY DEF TypeOK, SetStep

(* A mark_* call moves one row that is stored, and stores none.            *)
LEMMA TransitionType ==
    ASSUME TypeOK, NEW e \in Executions, NEW new \in ExecutionStatus,
           NEW allowed, Absent \notin allowed, Transition(e, new, allowed)
    PROVE  /\ status' \in [Executions -> ExecutionStatus \cup {Absent}]
           /\ Stored' = Stored
BY DEF TypeOK, StoreTypeOK, Transition, Conflict, Stored, ExecutionStatus, Absent

LEMMA FromStored ==
    /\ Absent \notin InProgressFrom /\ Absent \notin CompletedFrom
    /\ Absent \notin RetryingFrom /\ Absent \notin FailedFrom
BY DEF InProgressFrom, CompletedFrom, RetryingFrom, FailedFrom, Absent

LEMMA MarkType ==
    ASSUME TypeOK, NEW e \in Executions, NEW read \in Nat,
           MarkInProgress(e, read) \/ MarkCompleted(e) \/ MarkRetrying(e) \/ MarkFailed(e)
    PROVE  StoreTypeOK' /\ Stored' = Stored
<1>1. PICK new, allowed : /\ new \in ExecutionStatus /\ Absent \notin allowed
                          /\ Transition(e, new, allowed)
    BY FromStored DEF MarkInProgress, MarkCompleted, MarkRetrying, MarkFailed, ExecutionStatus
<1>2. attempt' \in [Executions -> Nat]
    BY DEF MarkInProgress, MarkCompleted, MarkRetrying, MarkFailed, TypeOK, StoreTypeOK
<1> QED
    BY <1>1, <1>2, TransitionType DEF StoreTypeOK

LEMMA FirstStays ==
    ASSUME TypeOK, Stored' = Stored, UNCHANGED <<api, first>>
    PROVE  FirstMade'
BY DEF TypeOK, FirstMade

-----------------------------------------------------------------------------
(* Every step keeps the types.  The actions are grouped by process.        *)

LEMMA ApiType == TypeOK /\ Api => TypeOK'
<1> SUFFICES ASSUME TypeOK, NEW j \in Jobs,
                    PutJob(j) \/ PutFirstExecution(j) \/ EnqueueFirst(j)
             PROVE  TypeOK'
    BY DEF Api
<1> USE DEF TypeOK, FirstMade, Stored, Absent, StoreTypeOK, QueueTypeOK, ApiSteps,
            storeVars, queueVars, serviceVars, workerVars, historyVars
<1>1. CASE PutJob(j)
    BY <1>1 DEF PutJob
<1>2. CASE PutFirstExecution(j)
    <2>1. PICK e \in Executions, p \in StartPhases :
              NewExecution(e, j, p) /\ first' = [first EXCEPT ![j] = e]
        BY <1>2 DEF PutFirstExecution
    <2>2. p \in Phases
        BY ConstantsAssumption DEF Phases
    <2>3. StoreTypeOK' /\ phase' \in [Executions -> Phases]
          /\ jobOf' \in [Executions -> Jobs \cup {None}]
        BY <2>1, <2>2 DEF NewExecution, PutExecution, ExecutionStatus
    <2>4. \A f \in Executions : f = e \/ status[f] # Absent => status'[f] # Absent
        BY <2>1 DEF NewExecution, PutExecution
    <2>5. FirstMade'
        BY <1>2, <2>1, <2>4 DEF PutFirstExecution
    <2> QED
        BY <1>2, <2>1, <2>3, <2>5 DEF PutFirstExecution
<1>3. CASE EnqueueFirst(j)
    <2>1. first[j] \in Executions
        BY <1>3 DEF EnqueueFirst
    <2>2. QueueTypeOK'
        BY <1>3, <2>1, FirstEntryType DEF EnqueueFirst, EnqueueIfNearTerm, Enqueue
    <2> QED
        BY <1>3, <2>2 DEF EnqueueFirst
<1> QED
    BY <1>1, <1>2, <1>3

LEMMA SchedulerType == TypeOK /\ Scheduler => TypeOK'
<1> SUFFICES ASSUME TypeOK, Scheduler PROVE TypeOK'
    OBVIOUS
<1> USE DEF TypeOK, FirstMade, Stored, Absent, StoreTypeOK, QueueTypeOK,
            storeVars, queueVars, serviceVars, workerVars, historyVars
<1>1. CASE SchedulerScan
    BY <1>1 DEF SchedulerScan, DueExecutions
<1>2. ASSUME NEW e \in Executions, SchedulerEnqueue(e) PROVE TypeOK'
    BY <1>2, FirstEntryType DEF SchedulerEnqueue, Enqueue
<1> QED
    BY <1>1, <1>2 DEF Scheduler

LEMMA RecoveryType ==
    ASSUME TypeOK, NEW w \in Workers, Recovery(w)
    PROVE  TypeOK'
<1> USE DEF TypeOK, FirstMade, Stored, Absent, StoreTypeOK, QueueTypeOK,
            storeVars, queueVars, serviceVars, workerVars, historyVars
<1>1. CASE ReclaimScan(w)
    BY <1>1 DEF ReclaimScan, LoopSteps
<1>2. CASE ReclaimRemove(w)
    BY <1>2 DEF ReclaimRemove, RemoveExpired, Reclaimed, LoopSteps
<1>3. CASE RecoverDone(w)
    BY <1>3 DEF RecoverDone, LoopSteps
<1>4. ASSUME NEW m \in QueuedExecution, RecoverRead(w, m) PROVE TypeOK'
    BY <1>4 DEF RecoverRead, RecoveryStep, SetStep, EntrySteps
<1>5. ASSUME NEW m \in QueuedExecution, RecoverFail(w, m) PROVE TypeOK'
    <2>1. StoreTypeOK' /\ Stored' = Stored
        BY <1>5, ExecOfEntry, MarkType DEF RecoverFail
    <2>2. FirstMade'
        BY <1>5, <2>1, FirstStays DEF RecoverFail
    <2> QED
        BY <1>5, <2>1, <2>2 DEF RecoverFail, SetStep, EntrySteps
<1>6. ASSUME NEW m \in QueuedExecution, RecoverRetry(w, m) PROVE TypeOK'
    <2>1. step' \in [Workers -> [QueuedExecution -> EntrySteps]]
        <3>1. SetStep(w, m, "none") \/ SetStep(w, m, "requeue")
            BY <1>6 DEF RecoverRetry
        <3> QED
            BY <3>1, SetStepType DEF EntrySteps
    <2>2. StoreTypeOK' /\ Stored' = Stored
        BY <1>6, ExecOfEntry, MarkType DEF RecoverRetry
    <2>3. FirstMade'
        BY <1>6, <2>2, FirstStays DEF RecoverRetry
    <2> QED
        BY <1>6, <2>1, <2>2, <2>3 DEF RecoverRetry
<1>7. ASSUME NEW m \in QueuedExecution, RecoverEnqueue(w, m) PROVE TypeOK'
    BY <1>7, LaterEntryType DEF RecoverEnqueue, Enqueue, SetStep, EntrySteps
<1> QED
    BY <1>1, <1>2, <1>3, <1>4, <1>5, <1>6, <1>7 DEF Recovery

LEMMA PopType ==
    ASSUME TypeOK, NEW w \in Workers, Pop(w)
    PROVE  TypeOK'
<1> USE DEF TypeOK, FirstMade, Stored, Absent, StoreTypeOK, QueueTypeOK,
            storeVars, queueVars, serviceVars, workerVars, historyVars
<1>1. CASE PopScan(w)
    BY <1>1 DEF PopScan, Ripe, LoopSteps
<1>2. CASE StartGather(w)
    BY <1>2 DEF StartGather, LoopSteps
<1>3. CASE GatherDone(w)
    BY <1>3 DEF GatherDone, LoopSteps
<1>4. ASSUME NEW m \in QueuedExecution, PopRemove(w, m) PROVE TypeOK'
    BY <1>4 DEF PopRemove, RemoveDue, SetStep, EntrySteps
<1>5. ASSUME NEW m \in QueuedExecution, PopLease(w, m) PROVE TypeOK'
    BY <1>5 DEF PopLease, GrantLease, SetStep, EntrySteps
<1> QED
    BY <1>1, <1>2, <1>3, <1>4, <1>5 DEF Pop

(* What a dead worker leaves behind is well typed. *)
LEMMA DieType ==
    ASSUME TypeOK, NEW w \in Workers, Die(w)
    PROVE  /\ pc' \in [Workers -> LoopSteps]
           /\ batch' \in [Workers -> SUBSET QueuedExecution]
           /\ step' \in [Workers -> [QueuedExecution -> EntrySteps]]
           /\ seen' \in [Workers -> [QueuedExecution -> Nat]]
BY DEF TypeOK, Die, Idle, Unread, LoopSteps, EntrySteps

LEMMA ProcessType ==
    ASSUME TypeOK, NEW w \in Workers, NEW m \in QueuedExecution, Process(w, m)
    PROVE  TypeOK'
<1> USE ExecOfEntry
    DEF TypeOK, FirstMade, Stored, Absent, StoreTypeOK, QueueTypeOK,
        storeVars, queueVars, serviceVars, workerVars, historyVars
<1>1. CASE ReadExecution(w, m)
    BY <1>1 DEF ReadExecution, SetStep, EntrySteps
<1>2. CASE Claim(w, m)
    <2>1. StoreTypeOK' /\ Stored' = Stored
        BY <1>2, MarkType DEF Claim
    <2>2. step' \in [Workers -> [QueuedExecution -> EntrySteps]]
        BY <1>2 DEF Claim, SetStep, EntrySteps
    <2>3. /\ seen' \in [Workers -> [QueuedExecution -> Nat]]
          /\ runs' \in [Executions -> Nat]
        BY <1>2 DEF Claim
    <2>4. FirstMade'
        BY <1>2, <2>1, FirstStays DEF Claim
    <2> QED
        BY <1>2, <2>1, <2>2, <2>3, <2>4 DEF Claim
<1>3. CASE NotClaimable(w, m)
    BY <1>3 DEF NotClaimable, SetStep, Forget, EntrySteps
<1>4. CASE TaskFails(w, m)
    <2>1. StoreTypeOK' /\ Stored' = Stored
        BY <1>4, MarkType DEF TaskFails
    <2>4. FirstMade'
        BY <1>4, <2>1, FirstStays DEF TaskFails
    <2>2. CASE Die(w)
        BY <1>4, <2>1, <2>2, <2>4, DieType DEF TaskFails
    <2>3. CASE ~Die(w)
        <3>1. /\ SetStep(w, m, "acking") \/ SetStep(w, m, "releasing")
              /\ Forget(w, m)
              /\ UNCHANGED <<pc, batch>>
            BY <1>4, <2>3 DEF TaskFails
        <3>2. /\ step' \in [Workers -> [QueuedExecution -> EntrySteps]]
              /\ seen' \in [Workers -> [QueuedExecution -> Nat]]
            BY <3>1, SetStepType DEF Forget, EntrySteps
        <3> QED
            BY <1>4, <2>1, <2>4, <3>1, <3>2 DEF TaskFails
    <2> QED
        BY <2>2, <2>3
<1>5. CASE ReleaseEntry(w, m)
    BY <1>5, LaterEntryType DEF ReleaseEntry, Release, SetStep, EntrySteps
<1>6. CASE AckEntry(w, m)
    BY <1>6 DEF AckEntry, Ack, SetStep, EntrySteps
<1>7. CASE TaskReturns(w, m)
    <2>1. StoreTypeOK' /\ Stored' = Stored
        BY <1>7, MarkType DEF TaskReturns
    <2>4. FirstMade'
        BY <1>7, <2>1, FirstStays DEF TaskReturns
    <2>2. CASE Die(w)
        BY <1>7, <2>1, <2>2, <2>4, DieType DEF TaskReturns
    <2>3. CASE ~Die(w)
        <3>1. /\ SetStep(w, m, "completed")
              /\ Forget(w, m)
              /\ UNCHANGED <<pc, batch>>
            BY <1>7, <2>3 DEF TaskReturns
        <3>2. /\ step' \in [Workers -> [QueuedExecution -> EntrySteps]]
              /\ seen' \in [Workers -> [QueuedExecution -> Nat]]
            BY <3>1, SetStepType DEF Forget, EntrySteps
        <3> QED
            BY <1>7, <2>1, <2>4, <3>1, <3>2 DEF TaskReturns
    <2> QED
        BY <2>2, <2>3
<1>8. CASE AckCompleted(w, m)
    BY <1>8 DEF AckCompleted, Ack, SetStep, EntrySteps
<1>9. CASE PutNextExecution(w, m)
    <2>1. step' \in [Workers -> [QueuedExecution -> EntrySteps]]
        <3>1. SetStep(w, m, "announcing") \/ SetStep(w, m, "none")
            BY <1>9 DEF PutNextExecution
        <3> QED
            BY <3>1, SetStepType DEF EntrySteps
    <2>2. CASE UNCHANGED <<storeVars, phase, jobOf, successors>>
        BY <1>9, <2>1, <2>2 DEF PutNextExecution
    <2>3. CASE jobOf[m.exec] \in CronJobs /\ Stored # Executions
        <3>1. PICK e \in Executions, p \in StartPhases :
                 /\ NewExecution(e, jobOf[m.exec], p)
                 /\ successors' = [successors EXCEPT ![m.exec] = @ \cup {e}]
            BY <1>9, <2>3 DEF PutNextExecution
        <3>2. p \in Phases /\ jobOf[m.exec] \in Jobs \cup {None}
            BY ConstantsAssumption DEF Phases
        <3>3. /\ StoreTypeOK'
              /\ phase' \in [Executions -> Phases]
              /\ jobOf' \in [Executions -> Jobs \cup {None}]
            BY <3>1, <3>2 DEF NewExecution, PutExecution, ExecutionStatus
        <3>4. successors' \in [Executions -> SUBSET Executions]
            BY <3>1
        <3>5. \A f \in Executions : status[f] # Absent => status'[f] # Absent
            BY <3>1 DEF NewExecution, PutExecution
        <3>6. FirstMade'
            BY <1>9, <3>5 DEF PutNextExecution
        <3> QED
            BY <1>9, <2>1, <3>3, <3>4, <3>6 DEF PutNextExecution
    <2> QED
        BY <1>9, <2>2, <2>3 DEF PutNextExecution
<1>10. CASE EnqueueNext(w, m)
    BY <1>10, FirstEntryType DEF EnqueueNext, EnqueueIfNearTerm, Enqueue, SetStep, EntrySteps
<1> QED
    BY <1>1, <1>2, <1>3, <1>4, <1>5, <1>6, <1>7, <1>8, <1>9, <1>10 DEF Process

LEMMA HeartbeatType ==
    ASSUME TypeOK, NEW w \in Workers, NEW m \in QueuedExecution, Heartbeat(w, m)
    PROVE  TypeOK'
BY DEF TypeOK, FirstMade, Stored, Absent, StoreTypeOK, QueueTypeOK, Heartbeat, ExtendLease,
       storeVars, queueVars, serviceVars, workerVars, historyVars

LEMMA EnvironmentType == TypeOK /\ Environment => TypeOK'
<1> SUFFICES ASSUME TypeOK, Environment PROVE TypeOK'
    OBVIOUS
<1> USE DEF TypeOK, FirstMade, Stored, Absent, StoreTypeOK, QueueTypeOK,
            storeVars, queueVars, serviceVars, workerVars, historyVars
<1>1. ASSUME NEW e \in Executions, Advance(e) \/ Age(e) PROVE TypeOK'
    BY <1>1 DEF Advance, Age, Phases
<1>2. ASSUME NEW m \in QueuedExecution, LeaseLapses(m) PROVE TypeOK'
    BY <1>2 DEF LeaseLapses, Lapse
<1>3. ASSUME NEW w \in Workers, CrashWorker(w) PROVE TypeOK'
    BY <1>3, DieType DEF CrashWorker
<1>4. ASSUME NEW w \in Workers, RestartWorker(w) PROVE TypeOK'
    BY <1>4 DEF RestartWorker, LoopSteps
<1>5. CASE CrashScheduler
    BY <1>5 DEF CrashScheduler
<1>6. ASSUME NEW j \in Jobs, CrashApi(j) PROVE TypeOK'
    BY <1>6 DEF CrashApi, ApiSteps
<1> QED
    BY <1>1, <1>2, <1>3, <1>4, <1>5, <1>6 DEF Environment

LEMMA TypeInit == Init => TypeOK
BY DEF Init, TypeOK, FirstMade, Stored, Absent, StoreTypeOK, QueueTypeOK, StoreInit, QueueInit,
       Phases, ApiSteps, LoopSteps, EntrySteps, Idle, Unread

LEMMA TypeStep == TypeOK /\ [Next]_vars => TypeOK'
<1> SUFFICES ASSUME TypeOK, [Next]_vars PROVE TypeOK'
    OBVIOUS
<1>1. CASE UNCHANGED vars
    BY <1>1 DEF TypeOK, FirstMade, Stored, Absent, StoreTypeOK, QueueTypeOK, vars,
                storeVars, queueVars, serviceVars, workerVars, historyVars
<1>2. CASE Next
    BY <1>2, ApiType, SchedulerType, RecoveryType, PopType, ProcessType,
       HeartbeatType, EnvironmentType DEF Next
<1> QED
    BY <1>1, <1>2

(* Rows, sorted sets, requests, scheduler and workers keep their types,    *)
(* and a request that is about to enqueue has stored its row, for any      *)
(* number of them and of crashes.                                          *)
THEOREM TypeCorrect == Spec => []TypeOK
BY TypeInit, TypeStep, PTL DEF Spec

-----------------------------------------------------------------------------
(* The chain of recurring executions.                                      *)

(* Worker w has completed the execution of m and is about to make the next *)
(* one.                                                                    *)
Owes(w, m) == step[w][m] \in {"completed", "chaining"}

(* ChainIsLinear is not inductive: it does not say why a second next       *)
(* execution cannot come.  The right to make it is held by one entry of    *)
(* one worker, and only between mark_completed and put_execution.          *)
Owed ==
    \A w \in Workers, m \in QueuedExecution :
        Owes(w, m) => status[m.exec] = "COMPLETED" /\ successors[m.exec] = {}

OwedOnce ==
    \A v, w \in Workers : \A m, n \in QueuedExecution :
        Owes(v, m) /\ Owes(w, n) /\ m.exec = n.exec => v = w /\ m = n

SuccessorsStored ==
    \A e \in Executions : \A f \in successors[e] : status[f] # Absent

ChainInv == ChainIsLinear /\ Owed /\ OwedOnce /\ SuccessorsStored

(* A step that changes no row and no chain, and after which nothing is     *)
(* owed that was not owed before, keeps the chain invariant.               *)
LEMMA ChainUntouched ==
    ASSUME ChainInv,
           UNCHANGED <<status, successors>>,
           \A w \in Workers, m \in QueuedExecution : Owes(w, m)' => Owes(w, m)
    PROVE  ChainInv'
BY DEF ChainInv, ChainIsLinear, Owed, OwedOnce, SuccessorsStored

(* A step that moves an unfinished row keeps it as well.                   *)
LEMMA ChainMoved ==
    ASSUME TypeOK, ChainInv,
           NEW e \in Executions, NEW s \in ExecutionStatus,
           status[e] # "COMPLETED",
           status' = [status EXCEPT ![e] = s],
           UNCHANGED successors,
           \A w \in Workers, m \in QueuedExecution : Owes(w, m)' => Owes(w, m)
    PROVE  ChainInv'
<1> USE ExecOfEntry DEF TypeOK, StoreTypeOK
<1>1. ChainIsLinear'
    BY DEF ChainInv, ChainIsLinear
<1>2. Owed' /\ OwedOnce'
    BY DEF ChainInv, Owed, OwedOnce
<1>3. SuccessorsStored'
    BY DEF ChainInv, SuccessorsStored, ExecutionStatus, Absent
<1> QED
    BY <1>1, <1>2, <1>3 DEF ChainInv

(* Setting the step of an entry to anything that owes nothing. *)
LEMMA OwesLess ==
    ASSUME TypeOK, NEW w \in Workers, NEW m \in QueuedExecution,
           NEW s \in EntrySteps, SetStep(w, m, s),
           s \notin {"completed", "chaining"} \/ Owes(w, m)
    PROVE  \A v \in Workers, n \in QueuedExecution : Owes(v, n)' => Owes(v, n)
BY DEF TypeOK, SetStep, Owes

LEMMA DieOwesLess ==
    ASSUME TypeOK, NEW w \in Workers, Die(w)
    PROVE  \A v \in Workers, n \in QueuedExecution : Owes(v, n)' => Owes(v, n)
BY DEF TypeOK, Die, Idle, Owes

LEMMA ApiChain == TypeOK /\ ChainInv /\ Api => ChainInv'
<1> SUFFICES ASSUME TypeOK, ChainInv, NEW j \in Jobs,
                    PutJob(j) \/ PutFirstExecution(j) \/ EnqueueFirst(j)
             PROVE  ChainInv'
    BY DEF Api
<1>0. \A w \in Workers, m \in QueuedExecution : Owes(w, m)' => Owes(w, m)
    BY DEF PutJob, PutFirstExecution, EnqueueFirst, workerVars, Owes
<1>1. CASE PutJob(j) \/ EnqueueFirst(j)
    BY <1>0, <1>1, ChainUntouched DEF PutJob, EnqueueFirst, storeVars, historyVars
<1>2. CASE PutFirstExecution(j)
    <2>1. PICK e \in Executions : PutExecution(e)
        BY <1>2 DEF PutFirstExecution, NewExecution
    <2> QED
        BY <1>0, <1>2, <2>1, ChainMoved
           DEF PutFirstExecution, PutExecution, ExecutionStatus, Absent, historyVars
<1> QED
    BY <1>1, <1>2

LEMMA RecoveryChain ==
    ASSUME TypeOK, ChainInv, NEW w \in Workers, Recovery(w)
    PROVE  ChainInv'
<1>1. CASE ReclaimScan(w) \/ ReclaimRemove(w) \/ RecoverDone(w)
    BY <1>1, ChainUntouched
       DEF ReclaimScan, ReclaimRemove, RecoverDone, storeVars, historyVars, Owes
<1>2. ASSUME NEW m \in QueuedExecution,
             RecoverRead(w, m) \/ RecoverEnqueue(w, m)
      PROVE  ChainInv'
    <2>1. PICK s \in {"none", "failing", "retrying", "requeue"} : SetStep(w, m, s)
        BY <1>2 DEF RecoverRead, RecoverEnqueue, RecoveryStep
    <2>2. \A v \in Workers, n \in QueuedExecution : Owes(v, n)' => Owes(v, n)
        BY <2>1, OwesLess DEF EntrySteps
    <2> QED
        BY <1>2, <2>2, ChainUntouched DEF RecoverRead, RecoverEnqueue, storeVars, historyVars
<1>3. ASSUME NEW m \in QueuedExecution,
             RecoverFail(w, m) \/ RecoverRetry(w, m)
      PROVE  ChainInv'
    <2>1. PICK s \in {"none", "requeue"} : SetStep(w, m, s)
        BY <1>3 DEF RecoverFail, RecoverRetry
    <2>2. \A v \in Workers, n \in QueuedExecution : Owes(v, n)' => Owes(v, n)
        BY <2>1, OwesLess DEF EntrySteps
    <2>3. CASE UNCHANGED storeVars
        BY <1>3, <2>2, <2>3, ChainUntouched DEF RecoverFail, RecoverRetry, storeVars, historyVars
    <2>4. CASE MarkFailed(m.exec) \/ MarkRetrying(m.exec)
        BY <1>3, <2>2, <2>4, ChainMoved, ExecOfEntry
           DEF RecoverFail, RecoverRetry, MarkFailed, MarkRetrying, Transition, Conflict,
               FailedFrom, RetryingFrom, ExecutionStatus, historyVars
    <2> QED
        BY <1>3, <2>3, <2>4 DEF RecoverFail, RecoverRetry
<1> QED
    BY <1>1, <1>2, <1>3 DEF Recovery

LEMMA PopChain ==
    ASSUME TypeOK, ChainInv, NEW w \in Workers, Pop(w)
    PROVE  ChainInv'
<1>1. CASE PopScan(w) \/ StartGather(w) \/ GatherDone(w)
    BY <1>1, ChainUntouched
       DEF PopScan, StartGather, GatherDone, storeVars, historyVars, Owes
<1>2. ASSUME NEW m \in QueuedExecution, PopRemove(w, m) \/ PopLease(w, m)
      PROVE  ChainInv'
    <2>1. PICK s \in {"none", "removed", "popped"} : SetStep(w, m, s)
        BY <1>2 DEF PopRemove, PopLease
    <2>2. \A v \in Workers, n \in QueuedExecution : Owes(v, n)' => Owes(v, n)
        BY <2>1, OwesLess DEF EntrySteps
    <2> QED
        BY <1>2, <2>2, ChainUntouched DEF PopRemove, PopLease, storeVars, historyVars
<1> QED
    BY <1>1, <1>2 DEF Pop

(* TaskReturns is the only step that comes to owe a next execution: its    *)
(* row was IN_PROGRESS, so nobody owed for it before.                      *)
LEMMA TaskReturnsChain ==
    ASSUME TypeOK, ChainInv, NEW w \in Workers, NEW m \in QueuedExecution,
           step[w][m] = "running",
           MarkCompleted(m.exec), SetStep(w, m, "completed"), UNCHANGED successors
    PROVE  ChainInv'
<1> USE ExecOfEntry DEF TypeOK, StoreTypeOK
<1>1. /\ status[m.exec] = "IN_PROGRESS"
      /\ status' = [status EXCEPT ![m.exec] = "COMPLETED"]
    BY DEF MarkCompleted, Transition, Conflict, CompletedFrom
<1>2. successors[m.exec] = {}
    BY <1>1 DEF ChainInv, ChainIsLinear
<1>3. \A v \in Workers, n \in QueuedExecution :
          Owes(v, n)' <=> Owes(v, n) \/ (v = w /\ n = m)
    BY DEF SetStep, Owes
<1>4. \A v \in Workers, n \in QueuedExecution : Owes(v, n) => n.exec # m.exec
    BY <1>1 DEF ChainInv, Owed
<1>5. ChainIsLinear'
    BY <1>1 DEF ChainInv, ChainIsLinear
<1>6. Owed'
    BY <1>1, <1>2, <1>3 DEF ChainInv, Owed
<1>7. OwedOnce'
    BY SMTT(30), <1>3, <1>4 DEF ChainInv, OwedOnce
<1>8. SuccessorsStored'
    BY <1>1 DEF ChainInv, SuccessorsStored, Absent
<1> QED
    BY <1>5, <1>6, <1>7, <1>8 DEF ChainInv

(* Making the next execution uses the right up. *)
LEMMA PutNextChain ==
    ASSUME TypeOK, ChainInv, NEW w \in Workers, NEW m \in QueuedExecution,
           NEW e \in Executions,
           step[w][m] = "chaining", PutExecution(e), SetStep(w, m, "announcing"),
           successors' = [successors EXCEPT ![m.exec] = @ \cup {e}]
    PROVE  ChainInv'
<1> USE ExecOfEntry DEF TypeOK, StoreTypeOK
<1>1. Owes(w, m) /\ status[m.exec] = "COMPLETED" /\ successors[m.exec] = {}
    BY DEF ChainInv, Owed, Owes
<1>2. /\ status[e] = Absent
      /\ status' = [status EXCEPT ![e] = "PENDING"]
    BY DEF PutExecution
<1>3. \A v \in Workers, n \in QueuedExecution :
          Owes(v, n)' => Owes(v, n) /\ (v # w \/ n # m)
    BY DEF SetStep, Owes
<1>4. successors' = [successors EXCEPT ![m.exec] = {e}]
    BY <1>1
<1>5. successors[e] = {} /\ \A f \in Executions : e \notin successors[f]
    BY <1>2 DEF ChainInv, ChainIsLinear, SuccessorsStored, Absent
<1>6. m.exec # e
    BY <1>1, <1>2 DEF Absent
<1>7. ChainIsLinear'
    BY <1>1, <1>2, <1>4, <1>5, <1>6 DEF ChainInv, ChainIsLinear, Absent
<1>8. Owed'
    <2> SUFFICES ASSUME NEW v \in Workers, NEW n \in QueuedExecution, Owes(v, n)'
                 PROVE  status'[n.exec] = "COMPLETED" /\ successors'[n.exec] = {}
        BY DEF Owed
    <2>1. Owes(v, n) /\ status[n.exec] = "COMPLETED" /\ successors[n.exec] = {}
        BY <1>3 DEF ChainInv, Owed
    <2>2. n.exec # m.exec
        BY <1>1, <1>3, <2>1 DEF ChainInv, OwedOnce
    <2> QED
        BY <1>2, <1>4, <2>1, <2>2 DEF Absent
<1>9. OwedOnce'
    BY <1>3 DEF ChainInv, OwedOnce
<1>10. SuccessorsStored'
    BY <1>2, <1>4 DEF ChainInv, SuccessorsStored, Absent
<1> QED
    BY <1>7, <1>8, <1>9, <1>10 DEF ChainInv

LEMMA ProcessChain ==
    ASSUME TypeOK, ChainInv, NEW w \in Workers, NEW m \in QueuedExecution, Process(w, m)
    PROVE  ChainInv'
<1>1. CASE \/ ReadExecution(w, m) \/ NotClaimable(w, m) \/ ReleaseEntry(w, m)
           \/ AckEntry(w, m) \/ AckCompleted(w, m) \/ EnqueueNext(w, m)
    <2>1. \/ \E s \in {"read", "acking", "none"} : SetStep(w, m, s)
          \/ step[w][m] = "completed" /\ SetStep(w, m, "chaining")
        BY <1>1 DEF ReadExecution, NotClaimable, ReleaseEntry, AckEntry, AckCompleted, EnqueueNext
    <2>2. \A v \in Workers, n \in QueuedExecution : Owes(v, n)' => Owes(v, n)
        BY <2>1, OwesLess DEF EntrySteps, Owes
    <2> QED
        BY <1>1, <2>2, ChainUntouched
           DEF ReadExecution, NotClaimable, ReleaseEntry, AckEntry, AckCompleted, EnqueueNext,
               storeVars, historyVars
<1>2. CASE Claim(w, m)
    <2>1. \A v \in Workers, n \in QueuedExecution : Owes(v, n)' => Owes(v, n)
        BY <1>2, OwesLess DEF Claim, EntrySteps
    <2> QED
        BY <1>2, <2>1, ChainMoved, ExecOfEntry
           DEF Claim, MarkInProgress, Transition, Conflict, InProgressFrom, ExecutionStatus
<1>3. CASE TaskFails(w, m)
    <2>1. Die(w) \/ \E s \in {"acking", "releasing"} : SetStep(w, m, s)
        BY <1>3 DEF TaskFails
    <2>2. \A v \in Workers, n \in QueuedExecution : Owes(v, n)' => Owes(v, n)
        BY <2>1, OwesLess, DieOwesLess DEF EntrySteps
    <2>3. UNCHANGED storeVars \/ MarkFailed(m.exec) \/ MarkRetrying(m.exec)
        BY <1>3 DEF TaskFails
    <2>4. UNCHANGED successors
        BY <1>3 DEF TaskFails, historyVars
    <2>5. CASE UNCHANGED storeVars
        BY <2>2, <2>4, <2>5, ChainUntouched DEF storeVars
    <2>6. CASE MarkFailed(m.exec) \/ MarkRetrying(m.exec)
        BY <2>2, <2>4, <2>6, ChainMoved, ExecOfEntry
           DEF MarkFailed, MarkRetrying, Transition, Conflict, FailedFrom, RetryingFrom,
               ExecutionStatus
    <2> QED
        BY <2>3, <2>5, <2>6
<1>4. CASE TaskReturns(w, m)
    <2>1. CASE UNCHANGED storeVars /\ Die(w)
        BY <1>4, <2>1, DieOwesLess, ChainUntouched DEF TaskReturns, storeVars, historyVars
    <2>2. CASE MarkCompleted(m.exec) /\ SetStep(w, m, "completed")
        BY <1>4, <2>2, TaskReturnsChain DEF TaskReturns, historyVars
    <2> QED
        BY <1>4, <2>1, <2>2 DEF TaskReturns
<1>5. CASE PutNextExecution(w, m)
    <2>1. CASE SetStep(w, m, "none") /\ UNCHANGED <<storeVars, successors>>
        <3>1. \A v \in Workers, n \in QueuedExecution : Owes(v, n)' => Owes(v, n)
            BY <2>1, OwesLess DEF EntrySteps
        <3> QED
            BY <2>1, <3>1, ChainUntouched DEF storeVars
    <2>2. CASE /\ SetStep(w, m, "announcing")
               /\ \E e \in Executions :
                     /\ PutExecution(e)
                     /\ successors' = [successors EXCEPT ![m.exec] = @ \cup {e}]
        BY <1>5, <2>2, PutNextChain DEF PutNextExecution
    <2> QED
        BY <1>5, <2>1, <2>2 DEF PutNextExecution, NewExecution
<1> QED
    BY <1>1, <1>2, <1>3, <1>4, <1>5 DEF Process

LEMMA OtherChain ==
    ASSUME TypeOK, ChainInv,
           \/ Scheduler
           \/ \E w \in Workers, m \in QueuedExecution : Heartbeat(w, m)
           \/ Environment
    PROVE  ChainInv'
<1>1. UNCHANGED <<status, successors>>
    BY DEF Scheduler, SchedulerScan, SchedulerEnqueue, Heartbeat, Environment, Advance, Age,
           LeaseLapses, CrashWorker, RestartWorker, CrashScheduler, CrashApi, storeVars,
           historyVars
<1>2. UNCHANGED step \/ \E w \in Workers : Die(w)
    BY DEF Scheduler, SchedulerScan, SchedulerEnqueue, Heartbeat, Environment, Advance, Age,
           LeaseLapses, CrashWorker, RestartWorker, CrashScheduler, CrashApi, workerVars
<1>3. \A v \in Workers, n \in QueuedExecution : Owes(v, n)' => Owes(v, n)
    BY <1>2, DieOwesLess DEF Owes
<1> QED
    BY <1>1, <1>3, ChainUntouched

LEMMA ChainInit == Init => ChainInv
BY DEF Init, ChainInv, ChainIsLinear, Owed, OwedOnce, SuccessorsStored, Owes, Idle

LEMMA ChainStep == TypeOK /\ ChainInv /\ [Next]_vars => ChainInv'
<1> SUFFICES ASSUME TypeOK, ChainInv, [Next]_vars PROVE ChainInv'
    OBVIOUS
<1>1. CASE UNCHANGED vars
    BY <1>1, ChainUntouched DEF vars, storeVars, workerVars, historyVars, Owes
<1>2. CASE Next
    BY <1>2, ApiChain, RecoveryChain, PopChain, ProcessChain, OtherChain DEF Next
<1> QED
    BY <1>1, <1>2

(* Nothing owed is owed twice or to a row that is not COMPLETED, whatever  *)
(* crashes, stalls and duplicate entries there are.                        *)
THEOREM ChainInvariant == Spec => [](TypeOK /\ ChainInv)
BY ChainInit, ChainStep, TypeCorrect, PTL DEF Spec

(* Each execution has at most one next execution, only once COMPLETED, and *)
(* no row is the next one of two, for every run of any number of workers.  *)
THEOREM ChainCorrect == Spec => []ChainIsLinear
<1>1. ChainInv => ChainIsLinear
    BY DEF ChainInv
<1> QED
    BY <1>1, ChainInvariant, PTL

-----------------------------------------------------------------------------
(* The scheduler implements ExecutionLifecycle.                            *)

lifecycleVars == <<status, successors>>

(* The conditional updates are the moves of the lifecycle. *)
LEMMA MarkIsMove ==
    ASSUME NEW e \in Executions, UNCHANGED successors,
           \/ PutExecution(e)
           \/ \E read \in Nat : MarkInProgress(e, read)
           \/ MarkCompleted(e) \/ MarkRetrying(e) \/ MarkFailed(e)
    PROVE  Lifecycle!Next
<1>1. \/ Lifecycle!Create(e) \/ Lifecycle!Start(e) \/ Lifecycle!Retry(e)
      \/ Lifecycle!Fail(e) \/ Lifecycle!Complete(e)
    BY DEF PutExecution, MarkInProgress, MarkCompleted, MarkRetrying, MarkFailed,
           Transition, Conflict, InProgressFrom, CompletedFrom, RetryingFrom, FailedFrom, Absent,
           Lifecycle!Create, Lifecycle!Start, Lifecycle!Retry, Lifecycle!Fail,
           Lifecycle!Complete, Lifecycle!Move
<1> QED
    BY <1>1 DEF Lifecycle!Next

LEMMA ApiStep == Api => [Lifecycle!Next]_lifecycleVars
<1> SUFFICES ASSUME NEW j \in Jobs,
                    PutJob(j) \/ PutFirstExecution(j) \/ EnqueueFirst(j)
             PROVE  [Lifecycle!Next]_lifecycleVars
    BY DEF Api
<1>1. CASE PutJob(j) \/ EnqueueFirst(j)
    BY <1>1 DEF PutJob, EnqueueFirst, lifecycleVars, storeVars, historyVars
<1>2. CASE PutFirstExecution(j)
    BY <1>2, MarkIsMove DEF PutFirstExecution, NewExecution, historyVars
<1> QED
    BY <1>1, <1>2

LEMMA RecoveryStepRefines ==
    ASSUME NEW w \in Workers, Recovery(w)
    PROVE  [Lifecycle!Next]_lifecycleVars
<1>1. CASE \/ ReclaimScan(w) \/ ReclaimRemove(w) \/ RecoverDone(w)
           \/ \E m \in QueuedExecution : RecoverRead(w, m) \/ RecoverEnqueue(w, m)
    BY <1>1 DEF ReclaimScan, ReclaimRemove, RecoverDone, RecoverRead, RecoverEnqueue,
                lifecycleVars, storeVars, historyVars
<1>2. ASSUME NEW m \in QueuedExecution, RecoverFail(w, m) \/ RecoverRetry(w, m)
      PROVE  [Lifecycle!Next]_lifecycleVars
    <2>1. UNCHANGED successors
        BY <1>2 DEF RecoverFail, RecoverRetry, historyVars
    <2>2. UNCHANGED storeVars \/ MarkFailed(m.exec) \/ MarkRetrying(m.exec)
        BY <1>2 DEF RecoverFail, RecoverRetry
    <2> QED
        BY <2>1, <2>2, MarkIsMove, ExecOfEntry DEF storeVars, lifecycleVars
<1> QED
    BY <1>1, <1>2 DEF Recovery

(* A next execution is made for a COMPLETED row that has none, so it is a  *)
(* Beget; without the chain invariant it might be a second one.            *)
LEMMA ProcessStepRefines ==
    ASSUME TypeOK, ChainInv, NEW w \in Workers, NEW m \in QueuedExecution, Process(w, m)
    PROVE  [Lifecycle!Next]_lifecycleVars
<1> USE ExecOfEntry
<1>1. CASE \/ ReadExecution(w, m) \/ NotClaimable(w, m) \/ ReleaseEntry(w, m)
           \/ AckEntry(w, m) \/ AckCompleted(w, m) \/ EnqueueNext(w, m)
    BY <1>1 DEF ReadExecution, NotClaimable, ReleaseEntry, AckEntry, AckCompleted, EnqueueNext,
                lifecycleVars, storeVars, historyVars
<1>2. CASE Claim(w, m)
    <2>1. seen[w][m] \in Nat
        BY DEF TypeOK
    <2> QED
        BY <1>2, <2>1, MarkIsMove DEF Claim
<1>3. CASE TaskFails(w, m) \/ TaskReturns(w, m)
    <2>1. UNCHANGED successors
        BY <1>3 DEF TaskFails, TaskReturns, historyVars
    <2>2. \/ UNCHANGED storeVars
          \/ MarkFailed(m.exec) \/ MarkRetrying(m.exec) \/ MarkCompleted(m.exec)
        BY <1>3 DEF TaskFails, TaskReturns
    <2> QED
        BY <2>1, <2>2, MarkIsMove DEF storeVars, lifecycleVars
<1>4. CASE PutNextExecution(w, m)
    <2>1. CASE UNCHANGED <<storeVars, successors>>
        BY <2>1 DEF storeVars, lifecycleVars
    <2>2. ASSUME NEW e \in Executions, PutExecution(e),
                 successors' = [successors EXCEPT ![m.exec] = @ \cup {e}]
          PROVE  Lifecycle!Next
        <3>1. status[m.exec] = "COMPLETED" /\ successors[m.exec] = {}
            BY <1>4 DEF PutNextExecution, ChainInv, Owed, Owes
        <3>2. successors' = [successors EXCEPT ![m.exec] = {e}]
            BY <2>2, <3>1 DEF TypeOK
        <3>3. Lifecycle!Beget(m.exec, e)
            BY <2>2, <3>1, <3>2 DEF PutExecution, Absent, Lifecycle!Beget
        <3> QED
            BY <3>3 DEF Lifecycle!Next
    <2> QED
        BY <1>4, <2>1, <2>2 DEF PutNextExecution, NewExecution
<1> QED
    BY <1>1, <1>2, <1>3, <1>4 DEF Process

(* The rest leaves rows and chains alone. *)
LEMMA OtherStep ==
    ASSUME \/ Scheduler
           \/ \E w \in Workers : Pop(w)
           \/ \E w \in Workers, m \in QueuedExecution : Heartbeat(w, m)
           \/ Environment
    PROVE  UNCHANGED lifecycleVars
BY DEF Scheduler, SchedulerScan, SchedulerEnqueue, Heartbeat, Environment, Advance, Age,
       LeaseLapses, CrashWorker, RestartWorker, CrashScheduler, CrashApi, Pop, PopScan,
       PopRemove, PopLease, StartGather, GatherDone, storeVars, historyVars, lifecycleVars

LEMMA StepRefines ==
    ASSUME TypeOK, ChainInv, [Next]_vars
    PROVE  [Lifecycle!Next]_lifecycleVars
<1>1. CASE UNCHANGED vars
    BY <1>1 DEF vars, storeVars, historyVars, lifecycleVars
<1>2. CASE Next
    BY <1>2, ApiStep, RecoveryStepRefines, ProcessStepRefines, OtherStep DEF Next
<1> QED
    BY <1>1, <1>2

(* Every behaviour of the scheduler is one of the lifecycle: rows move     *)
(* only as it says, and a completed execution begets at most one other.    *)
THEOREM ImplementsLifecycle == Spec => LifecycleRefinement
<1>1. Init => Lifecycle!Init
    BY DEF Init, StoreInit, Absent, Lifecycle!Init
<1>2. TypeOK /\ ChainInv /\ [Next]_vars => [Lifecycle!Next]_<<status, successors>>
    BY StepRefines DEF lifecycleVars
<1> QED
    BY <1>1, <1>2, ChainInvariant, PTL DEF Spec, LifecycleRefinement, Lifecycle!Spec

(* COMPLETED and FAILED are never left, whichever stale worker or recovery *)
(* writes next: no move of the lifecycle starts from them.                 *)
THEOREM TerminalStays == Spec => TerminalIsFinal
<1>1. ASSUME TypeOK, ChainInv, [Next]_vars
      PROVE  [\A e \in Executions : status[e] \in Terminal => status'[e] = status[e]]_vars
    <2>1. CASE UNCHANGED vars
        BY <2>1
    <2>2. CASE UNCHANGED lifecycleVars
        BY <2>2 DEF lifecycleVars
    <2>3. CASE Lifecycle!Next
        <3>1. PICK f \in Executions, s \in ExecutionStatus :
                 /\ status[f] \notin Terminal
                 /\ status' = [status EXCEPT ![f] = s]
            BY <2>3 DEF Lifecycle!Next, Lifecycle!Create, Lifecycle!Start, Lifecycle!Retry,
                   Lifecycle!Fail, Lifecycle!Complete, Lifecycle!Beget, Lifecycle!Move,
                   ExecutionStatus, Terminal
        <3> QED
            BY <3>1 DEF TypeOK, StoreTypeOK
    <2> QED
        BY <1>1, <2>1, <2>2, <2>3, StepRefines
<1> QED
    BY <1>1, ChainInvariant, PTL DEF Spec, TerminalIsFinal

-----------------------------------------------------------------------------
(* The worker loop.                                                        *)

(* Where worker w can be with an entry, by where its loop is. *)
StepsIn(loop) ==
    CASE loop = "recovering" -> {"none", "failing", "retrying", "requeue"}
      [] loop = "popping"    -> {"none", "removed", "popped"}
      [] loop = "gather"     -> EntrySteps \ {"removed", "failing", "retrying", "requeue"}
      [] OTHER               -> {"none"}

(* Recovery, pop and gather of one worker do not overlap. *)
Discipline == \A w \in Workers, m \in QueuedExecution : step[w][m] \in StepsIn(pc[w])

LEMMA StepChanged ==
    ASSUME TypeOK, NEW w \in Workers, NEW m \in QueuedExecution,
           NEW s \in EntrySteps, SetStep(w, m, s)
    PROVE  /\ step'[w][m] = s
           /\ \A v \in Workers, n \in QueuedExecution :
                 v # w \/ n # m => step'[v][n] = step[v][n]
BY DEF TypeOK, SetStep

LEMMA StepDies ==
    ASSUME TypeOK, NEW w \in Workers, Die(w)
    PROVE  /\ pc'[w] = "down" /\ \A n \in QueuedExecution : step'[w][n] = "none"
           /\ \A v \in Workers \ {w} : step'[v] = step[v] /\ pc'[v] = pc[v]
BY DEF TypeOK, Die, Idle

(* A step of an entry that the loop allows. *)
LEMMA EntryDiscipline ==
    ASSUME TypeOK, Discipline, NEW w \in Workers, NEW m \in QueuedExecution,
           NEW s \in EntrySteps, SetStep(w, m, s), UNCHANGED pc, s \in StepsIn(pc[w])
    PROVE  Discipline'
BY StepChanged DEF Discipline

(* The loop moves on when no entry is where it may not be. *)
LEMMA LoopDiscipline ==
    ASSUME TypeOK, Discipline, NEW w \in Workers, NEW p \in LoopSteps,
           pc' = [pc EXCEPT ![w] = p], UNCHANGED step,
           \A m \in QueuedExecution : step[w][m] \in StepsIn(p)
    PROVE  Discipline'
BY DEF Discipline, TypeOK

LEMMA DieDiscipline ==
    ASSUME TypeOK, Discipline, NEW w \in Workers, Die(w)
    PROVE  Discipline'
BY StepDies DEF Discipline, StepsIn

LEMMA RecoveryDiscipline ==
    ASSUME TypeOK, Discipline, NEW w \in Workers, Recovery(w)
    PROVE  Discipline'
<1>1. CASE ReclaimScan(w)
    <2>1. PICK p \in {"polling", "reclaiming"} : pc' = [pc EXCEPT ![w] = p]
        BY <1>1 DEF ReclaimScan
    <2>2. pc[w] = "idle" /\ UNCHANGED step
        BY <1>1 DEF ReclaimScan
    <2>3. \A m \in QueuedExecution : step[w][m] \in StepsIn(p)
        BY <2>2 DEF Discipline, StepsIn
    <2> QED
        BY <2>1, <2>2, <2>3, LoopDiscipline DEF LoopSteps
<1>2. CASE ReclaimRemove(w)
    <2>1. pc[w] = "reclaiming" /\ pc' = [pc EXCEPT ![w] = "recovering"] /\ UNCHANGED step
        BY <1>2 DEF ReclaimRemove
    <2>2. \A m \in QueuedExecution : step[w][m] \in StepsIn("recovering")
        BY <2>1 DEF Discipline, StepsIn
    <2> QED
        BY <2>1, <2>2, LoopDiscipline DEF LoopSteps
<1>3. CASE RecoverDone(w)
    <2>1. InHand(w) = {} /\ pc' = [pc EXCEPT ![w] = "polling"] /\ UNCHANGED step
        BY <1>3 DEF RecoverDone
    <2>2. \A m \in QueuedExecution : step[w][m] \in StepsIn("polling")
        BY <2>1 DEF InHand, StepsIn
    <2> QED
        BY <2>1, <2>2, LoopDiscipline DEF LoopSteps
<1>4. ASSUME NEW m \in QueuedExecution,
             RecoverRead(w, m) \/ RecoverFail(w, m) \/ RecoverRetry(w, m) \/ RecoverEnqueue(w, m)
      PROVE  Discipline'
    <2>1. PICK s \in {"none", "failing", "retrying", "requeue"} : SetStep(w, m, s)
        BY <1>4 DEF RecoverRead, RecoverFail, RecoverRetry, RecoverEnqueue, RecoveryStep
    <2>2. pc[w] = "recovering" /\ UNCHANGED pc
        BY <1>4 DEF RecoverRead, RecoverFail, RecoverRetry, RecoverEnqueue, Discipline,
                    StepsIn, EntrySteps
    <2> QED
        BY <2>1, <2>2, EntryDiscipline DEF StepsIn, EntrySteps
<1> QED
    BY <1>1, <1>2, <1>3, <1>4 DEF Recovery

LEMMA PopDiscipline ==
    ASSUME TypeOK, Discipline, NEW w \in Workers, Pop(w)
    PROVE  Discipline'
<1>1. CASE PopScan(w)
    <2>1. PICK p \in {"idle", "popping"} : pc' = [pc EXCEPT ![w] = p]
        BY <1>1 DEF PopScan
    <2>2. pc[w] = "polling" /\ UNCHANGED step
        BY <1>1 DEF PopScan
    <2>3. \A m \in QueuedExecution : step[w][m] \in StepsIn(p)
        BY <2>2 DEF Discipline, StepsIn
    <2> QED
        BY <2>1, <2>2, <2>3, LoopDiscipline DEF LoopSteps
<1>2. CASE StartGather(w)
    <2>1. PICK p \in {"idle", "gather"} :
              pc' = [pc EXCEPT ![w] = p] /\ (p = "idle" => InHand(w) = {})
        BY <1>2 DEF StartGather
    <2>2. /\ pc[w] = "popping" /\ UNCHANGED step
          /\ \A m \in QueuedExecution : step[w][m] # "removed"
        BY <1>2 DEF StartGather
    <2>3. \A m \in QueuedExecution : step[w][m] \in StepsIn(p)
        BY <2>1, <2>2 DEF Discipline, StepsIn, InHand, EntrySteps
    <2> QED
        BY <2>1, <2>2, <2>3, LoopDiscipline DEF LoopSteps
<1>3. CASE GatherDone(w)
    <2>1. InHand(w) = {} /\ pc' = [pc EXCEPT ![w] = "idle"] /\ UNCHANGED step
        BY <1>3 DEF GatherDone
    <2>2. \A m \in QueuedExecution : step[w][m] \in StepsIn("idle")
        BY <2>1 DEF InHand, StepsIn
    <2> QED
        BY <2>1, <2>2, LoopDiscipline DEF LoopSteps
<1>4. ASSUME NEW m \in QueuedExecution, PopRemove(w, m) \/ PopLease(w, m)
      PROVE  Discipline'
    <2>1. PICK s \in {"none", "removed", "popped"} : SetStep(w, m, s)
        BY <1>4 DEF PopRemove, PopLease
    <2>2. pc[w] = "popping" /\ UNCHANGED pc
        BY <1>4 DEF PopRemove, PopLease, Discipline, StepsIn, EntrySteps
    <2> QED
        BY <2>1, <2>2, EntryDiscipline DEF StepsIn, EntrySteps
<1> QED
    BY <1>1, <1>2, <1>3, <1>4 DEF Pop

LEMMA ProcessDiscipline ==
    ASSUME TypeOK, Discipline, NEW w \in Workers, NEW m \in QueuedExecution, Process(w, m)
    PROVE  Discipline'
<1>1. CASE Die(w)
    BY <1>1, DieDiscipline
<1>2. CASE ~Die(w)
    <2>1. PICK s \in EntrySteps \ {"removed", "failing", "retrying", "requeue"} : SetStep(w, m, s)
        BY <1>2 DEF Process, ReadExecution, Claim, NotClaimable, TaskFails, ReleaseEntry,
               AckEntry, TaskReturns, AckCompleted, PutNextExecution, EnqueueNext, EntrySteps
    <2>2. UNCHANGED pc /\ step[w][m] \in EntrySteps \ {"none", "removed", "failing", "retrying", "requeue"}
          /\ (step[w][m] = "popped" => pc[w] = "gather")
        BY <1>2 DEF Process, ReadExecution, Claim, NotClaimable, TaskFails, ReleaseEntry,
               AckEntry, TaskReturns, AckCompleted, PutNextExecution, EnqueueNext, EntrySteps
    <2>3. pc[w] = "gather"
        BY <2>2 DEF Discipline, StepsIn, EntrySteps
    <2> QED
        BY <2>1, <2>2, <2>3, EntryDiscipline DEF StepsIn
<1> QED
    BY <1>1, <1>2

LEMMA DisciplineStep == TypeOK /\ Discipline /\ [Next]_vars => Discipline'
<1> SUFFICES ASSUME TypeOK, Discipline, [Next]_vars PROVE Discipline'
    OBVIOUS
<1>1. CASE UNCHANGED <<step, pc>>
    BY <1>1 DEF Discipline
<1>2. ASSUME NEW w \in Workers, Die(w) PROVE Discipline'
    BY <1>2, DieDiscipline
<1>3. ASSUME NEW w \in Workers, RestartWorker(w) PROVE Discipline'
    <2>1. pc[w] = "down" /\ pc' = [pc EXCEPT ![w] = "idle"] /\ UNCHANGED step
        BY <1>3 DEF RestartWorker
    <2>2. \A m \in QueuedExecution : step[w][m] \in StepsIn("idle")
        BY <2>1 DEF Discipline, StepsIn
    <2> QED
        BY <2>1, <2>2, LoopDiscipline DEF LoopSteps
<1>4. CASE Api \/ Scheduler \/ \E w \in Workers, m \in QueuedExecution : Heartbeat(w, m)
    BY <1>1, <1>4 DEF Api, PutJob, PutFirstExecution, EnqueueFirst, Scheduler, SchedulerScan,
           SchedulerEnqueue, Heartbeat, workerVars
<1>5. CASE Environment
    BY <1>1, <1>2, <1>3, <1>5 DEF Environment, Advance, Age, LeaseLapses, CrashWorker,
           CrashScheduler, CrashApi, workerVars
<1>6. CASE UNCHANGED vars
    BY <1>1, <1>6 DEF vars, workerVars
<1> QED
    BY <1>4, <1>5, <1>6, RecoveryDiscipline, PopDiscipline, ProcessDiscipline DEF Next

-----------------------------------------------------------------------------
(* The chain is not broken without a crash.                                *)

(* e has its next execution, or the right to make it is in a worker.       *)
Continued(e) ==
    \/ successors[e] # {}
    \/ \E w \in Workers, m \in QueuedExecution : m.exec = e /\ Owes(w, m)

Unbroken == crashes = 0 =>
    \A e \in Executions :
        status[e] = "COMPLETED" /\ jobOf[e] \in CronJobs /\ Stored # Executions => Continued(e)

LEMMA UnbrokenMeans == Unbroken <=> ChainUnbroken
BY DEF Unbroken, ChainUnbroken, Continued, Owes

(* What a worker owed it still owes, or it is made, or nothing was to be   *)
(* made.                                                                   *)
OwedLater ==
    \A w \in Workers, m \in QueuedExecution :
        Owes(w, m) => \/ Owes(w, m)' \/ successors'[m.exec] # {}
                      \/ jobOf[m.exec] \notin CronJobs \/ Stored = Executions

LEMMA UnbrokenKept ==
    ASSUME TypeOK, Unbroken,
           crashes' = 0 => crashes = 0 /\ OwedLater,
           \A e \in Executions :
              /\ status[e] # Absent => status'[e] # Absent /\ jobOf'[e] = jobOf[e]
              /\ successors[e] \subseteq successors'[e]
              /\ status'[e] = "COMPLETED" => status[e] = "COMPLETED" \/ Continued(e)'
    PROVE  Unbroken'
<1> SUFFICES ASSUME crashes' = 0, NEW e \in Executions, status'[e] = "COMPLETED",
                    jobOf'[e] \in CronJobs, Stored' # Executions
             PROVE  Continued(e)'
    BY DEF Unbroken
<1>1. Stored \subseteq Stored' /\ Stored' \subseteq Executions
    BY DEF Stored
<1>2. Stored # Executions
    BY <1>1
<1>3. CASE status[e] = "COMPLETED"
    <2>1. jobOf'[e] = jobOf[e]
        BY <1>3 DEF Absent
    <2>2. Continued(e)
        BY <1>2, <1>3, <2>1 DEF Unbroken
    <2>3. successors[e] # {} => Continued(e)'
        BY DEF Continued
    <2>4. ASSUME NEW w \in Workers, NEW m \in QueuedExecution, m.exec = e, Owes(w, m)
          PROVE  Continued(e)'
        <3>1. Owes(w, m)' \/ successors'[m.exec] # {}
            BY <1>2, <2>1, <2>4 DEF OwedLater
        <3> QED
            BY <2>4, <3>1 DEF Continued
    <2> QED
        BY <2>2, <2>3, <2>4 DEF Continued
<1> QED
    BY <1>3

(* A step that completes no row, and stores none. *)
LEMMA RowsKept ==
    ASSUME TypeOK, UNCHANGED <<jobOf, successors>>,
           \/ UNCHANGED storeVars
           \/ \E e \in Executions : \/ \E read \in Nat : MarkInProgress(e, read)
                                    \/ MarkRetrying(e) \/ MarkFailed(e)
    PROVE  \A e \in Executions :
              /\ status[e] # Absent => status'[e] # Absent /\ jobOf'[e] = jobOf[e]
              /\ successors[e] \subseteq successors'[e]
              /\ status'[e] = "COMPLETED" => status[e] = "COMPLETED"
<1>1. CASE UNCHANGED storeVars
    BY <1>1 DEF storeVars
<1>2. ASSUME NEW e \in Executions, NEW s \in {"IN_PROGRESS", "RETRYING", "FAILED"},
             status' = [status EXCEPT ![e] = s]
      PROVE  \A f \in Executions : /\ status[f] # Absent => status'[f] # Absent
                                   /\ status'[f] = "COMPLETED" => status[f] = "COMPLETED"
    BY <1>2 DEF TypeOK, StoreTypeOK, Absent
<1> QED
    BY <1>1, <1>2 DEF MarkInProgress, MarkRetrying, MarkFailed, Transition

(* A step that stores a new row for e. *)
LEMMA RowStored ==
    ASSUME TypeOK, NEW e \in Executions, NEW j, NEW p, NewExecution(e, j, p)
    PROVE  \A f \in Executions :
              /\ status[f] # Absent => status'[f] # Absent /\ jobOf'[f] = jobOf[f]
              /\ status'[f] = "COMPLETED" => status[f] = "COMPLETED"
<1>1. status[e] = Absent /\ status' = [status EXCEPT ![e] = "PENDING"]
      /\ jobOf' = [jobOf EXCEPT ![e] = j]
    BY DEF NewExecution, PutExecution
<1>2. \A f \in Executions \ {e} : status'[f] = status[f] /\ jobOf'[f] = jobOf[f]
    BY <1>1 DEF TypeOK, StoreTypeOK
<1>3. status'[e] = "PENDING"
    BY <1>1 DEF TypeOK, StoreTypeOK
<1> QED
    BY <1>1, <1>2, <1>3 DEF Absent

(* A worker goes on to another step with an entry it owes nothing for, or  *)
(* still owes.                                                             *)
LEMMA StillOwed ==
    ASSUME TypeOK, NEW w \in Workers, NEW m \in QueuedExecution,
           NEW s \in EntrySteps, SetStep(w, m, s),
           ~Owes(w, m) \/ s \in {"completed", "chaining"}
    PROVE  OwedLater
BY StepChanged DEF OwedLater, Owes

LEMMA StepsUntouched ==
    ASSUME UNCHANGED step PROVE OwedLater
BY DEF OwedLater, Owes

(* A worker that dies of a ConflictError is alone past its start: nothing  *)
(* it owes is lost.                                                        *)
LEMMA DiesOwingNothing ==
    ASSUME TypeOK, NEW w \in Workers, NEW m \in QueuedExecution,
           step[w][m] = "running", Turn(w, m), Die(w)
    PROVE  OwedLater
<1>1. \A n \in QueuedExecution : ~Owes(w, n)
    BY DEF Turn, Owes
<1> QED
    BY <1>1, StepDies DEF OwedLater, Owes

LEMMA RecoveryUnbroken ==
    ASSUME TypeOK, Discipline, Unbroken, NEW w \in Workers, Recovery(w)
    PROVE  Unbroken'
<1>1. UNCHANGED <<crashes, jobOf, successors>>
    BY DEF Recovery, ReclaimScan, ReclaimRemove, RecoverDone, RecoverRead, RecoverFail,
           RecoverRetry, RecoverEnqueue, serviceVars, historyVars
<1>2. \/ UNCHANGED storeVars
      \/ \E e \in Executions : MarkRetrying(e) \/ MarkFailed(e)
    BY ExecOfEntry DEF Recovery, ReclaimScan, ReclaimRemove, RecoverDone, RecoverRead,
           RecoverFail, RecoverRetry, RecoverEnqueue
<1>3. OwedLater
    <2>1. CASE ReclaimScan(w) \/ ReclaimRemove(w) \/ RecoverDone(w)
        BY <2>1, StepsUntouched DEF ReclaimScan, ReclaimRemove, RecoverDone
    <2>2. ASSUME NEW m \in QueuedExecution,
                 RecoverRead(w, m) \/ RecoverFail(w, m) \/ RecoverRetry(w, m) \/ RecoverEnqueue(w, m)
          PROVE  OwedLater
        <3>1. PICK s \in {"none", "failing", "retrying", "requeue"} : SetStep(w, m, s)
            BY <2>2 DEF RecoverRead, RecoverFail, RecoverRetry, RecoverEnqueue, RecoveryStep
        <3>2. ~Owes(w, m)
            BY <2>2 DEF RecoverRead, RecoverFail, RecoverRetry, RecoverEnqueue, InHand, Owes
        <3> QED
            BY <3>1, <3>2, StillOwed DEF EntrySteps
    <2> QED
        BY <2>1, <2>2 DEF Recovery
<1> QED
    BY <1>1, <1>2, <1>3, RowsKept, UnbrokenKept

LEMMA PopUnbroken ==
    ASSUME TypeOK, Discipline, Unbroken, NEW w \in Workers, Pop(w)
    PROVE  Unbroken'
<1>1. UNCHANGED <<crashes, jobOf, successors>> /\ UNCHANGED storeVars
    BY DEF Pop, PopScan, StartGather, GatherDone, PopRemove, PopLease, serviceVars, historyVars
<1>2. OwedLater
    <2>1. CASE PopScan(w) \/ StartGather(w) \/ GatherDone(w)
        BY <2>1, StepsUntouched DEF PopScan, StartGather, GatherDone
    <2>2. ASSUME NEW m \in QueuedExecution, PopRemove(w, m) \/ PopLease(w, m)
          PROVE  OwedLater
        <3>1. PICK s \in {"none", "removed", "popped"} : SetStep(w, m, s)
            BY <2>2 DEF PopRemove, PopLease
        <3>2. ~Owes(w, m)
            BY <2>2 DEF PopRemove, PopLease, Discipline, StepsIn, Owes
        <3> QED
            BY <3>1, <3>2, StillOwed DEF EntrySteps
    <2> QED
        BY <2>1, <2>2 DEF Pop
<1> QED
    BY <1>1, <1>2, RowsKept, UnbrokenKept

LEMMA ProcessUnbroken ==
    ASSUME TypeOK, Unbroken, NEW w \in Workers, NEW m \in QueuedExecution, Process(w, m)
    PROVE  Unbroken'
<1> USE ExecOfEntry
<1>0. crashes' = crashes
    BY DEF Process, ReadExecution, Claim, NotClaimable, TaskFails, ReleaseEntry,
           AckEntry, TaskReturns, AckCompleted, PutNextExecution, EnqueueNext
<1>1. CASE \/ ReadExecution(w, m) \/ Claim(w, m) \/ NotClaimable(w, m) \/ TaskFails(w, m)
           \/ ReleaseEntry(w, m) \/ AckEntry(w, m) \/ AckCompleted(w, m) \/ EnqueueNext(w, m)
    <2>1. UNCHANGED <<jobOf, successors>>
        BY <1>1 DEF ReadExecution, Claim, NotClaimable, TaskFails, ReleaseEntry, AckEntry,
               AckCompleted, EnqueueNext, serviceVars, historyVars
    <2>2. \/ UNCHANGED storeVars
          \/ \E e \in Executions : \/ \E read \in Nat : MarkInProgress(e, read)
                                   \/ MarkRetrying(e) \/ MarkFailed(e)
        <3>1. seen[w][m] \in Nat
            BY DEF TypeOK
        <3> QED
            BY <1>1, <3>1 DEF ReadExecution, Claim, NotClaimable, TaskFails, ReleaseEntry,
                   AckEntry, AckCompleted, EnqueueNext
    <2>3. OwedLater
        <3>1. CASE TaskFails(w, m) /\ Die(w)
            BY <3>1, DiesOwingNothing DEF TaskFails
        <3>2. CASE ~(TaskFails(w, m) /\ Die(w))
            <4>1. PICK s \in {"read", "running", "acking", "releasing", "none", "chaining"} :
                      SetStep(w, m, s) /\ (s # "chaining" => ~Owes(w, m))
                BY <1>1, <3>2 DEF ReadExecution, Claim, NotClaimable, TaskFails, ReleaseEntry,
                       AckEntry, AckCompleted, EnqueueNext, Owes
            <4> QED
                BY <4>1, StillOwed DEF EntrySteps
        <3> QED
            BY <3>1, <3>2
    <2> QED
        BY <1>0, <2>1, <2>2, <2>3, RowsKept, UnbrokenKept
<1>2. CASE TaskReturns(w, m)
    <2>1. UNCHANGED <<jobOf, successors>> /\ step[w][m] = "running" /\ Turn(w, m)
        BY <1>2 DEF TaskReturns, serviceVars, historyVars
    <2>2. CASE UNCHANGED storeVars /\ Die(w)
        BY <1>0, <2>1, <2>2, DiesOwingNothing, RowsKept, UnbrokenKept
    <2>3. CASE MarkCompleted(m.exec) /\ SetStep(w, m, "completed")
        <3>1. OwedLater
            BY <2>3, StillOwed DEF EntrySteps
        <3>2. Continued(m.exec)'
            <4>1. step'[w][m] = "completed"
                BY <2>3, StepChanged DEF EntrySteps
            <4> QED
                BY <4>1 DEF Continued, Owes
        <3>3. \A e \in Executions :
                 /\ status[e] # Absent => status'[e] # Absent
                 /\ status'[e] = "COMPLETED" => status[e] = "COMPLETED" \/ e = m.exec
            BY <2>3 DEF MarkCompleted, Transition, TypeOK, StoreTypeOK, Absent
        <3> QED
            BY <1>0, <2>1, <3>1, <3>2, <3>3, UnbrokenKept
    <2> QED
        BY <1>2, <2>2, <2>3 DEF TaskReturns
<1>3. CASE PutNextExecution(w, m)
    <2>1. CASE jobOf[m.exec] \in CronJobs /\ Stored # Executions
        <3>1. PICK e \in Executions, p \in StartPhases :
                 /\ NewExecution(e, jobOf[m.exec], p)
                 /\ successors' = [successors EXCEPT ![m.exec] = @ \cup {e}]
            BY <1>3, <2>1 DEF PutNextExecution
        <3>2. SetStep(w, m, "announcing")
            BY <1>3, <2>1 DEF PutNextExecution
        <3>3. /\ \A f \in Executions : successors[f] \subseteq successors'[f]
              /\ successors'[m.exec] # {}
            BY <3>1 DEF TypeOK
        <3>4. OwedLater
            BY <3>2, <3>3, StepChanged DEF OwedLater, Owes, EntrySteps
        <3> QED
            BY <1>0, <3>1, <3>3, <3>4, RowStored, UnbrokenKept
    <2>2. CASE ~(jobOf[m.exec] \in CronJobs /\ Stored # Executions)
        <3>1. UNCHANGED <<storeVars, jobOf, successors>> /\ SetStep(w, m, "none")
            BY <1>3, <2>2 DEF PutNextExecution
        <3>2. OwedLater
            BY <2>2, <3>1, StepChanged DEF OwedLater, Owes, EntrySteps
        <3> QED
            BY <1>0, <3>1, <3>2, RowsKept, UnbrokenKept
    <2> QED
        BY <2>1, <2>2
<1> QED
    BY <1>1, <1>2, <1>3 DEF Process

LEMMA ApiUnbroken ==
    ASSUME TypeOK, Unbroken, Api
    PROVE  Unbroken'
<1> SUFFICES ASSUME NEW j \in Jobs,
                    PutJob(j) \/ PutFirstExecution(j) \/ EnqueueFirst(j)
             PROVE  Unbroken'
    BY DEF Api
<1>1. UNCHANGED <<crashes, successors, step>>
    BY DEF PutJob, PutFirstExecution, EnqueueFirst, workerVars, historyVars
<1>2. OwedLater
    BY <1>1, StepsUntouched
<1>3. CASE PutJob(j) \/ EnqueueFirst(j)
    <2>1. UNCHANGED <<storeVars, jobOf>>
        BY <1>3 DEF PutJob, EnqueueFirst
    <2> QED
        BY <1>1, <1>2, <2>1, RowsKept, UnbrokenKept
<1>4. CASE PutFirstExecution(j)
    <2>1. PICK e \in Executions, p \in StartPhases : NewExecution(e, j, p)
        BY <1>4 DEF PutFirstExecution
    <2> QED
        BY <1>1, <1>2, <2>1, RowStored, UnbrokenKept
<1> QED
    BY <1>3, <1>4

LEMMA OtherUnbroken ==
    ASSUME TypeOK, Unbroken,
           \/ Scheduler
           \/ \E w \in Workers, m \in QueuedExecution : Heartbeat(w, m)
           \/ Environment
           \/ UNCHANGED vars
    PROVE  Unbroken'
<1>1. UNCHANGED storeVars /\ UNCHANGED <<jobOf, successors>>
    BY DEF Scheduler, SchedulerScan, SchedulerEnqueue, Heartbeat, Environment, Advance, Age,
           LeaseLapses, CrashWorker, RestartWorker, CrashScheduler, CrashApi, storeVars,
           serviceVars, historyVars, vars
<1>2. crashes' = crashes + 1 \/ (crashes' = crashes /\ UNCHANGED step)
    BY DEF Scheduler, SchedulerScan, SchedulerEnqueue, Heartbeat, Environment, Advance, Age,
           LeaseLapses, CrashWorker, RestartWorker, CrashScheduler, CrashApi, workerVars, vars
<1>3. crashes' = 0 => crashes = 0 /\ OwedLater
    BY <1>2, StepsUntouched DEF TypeOK
<1> QED
    BY <1>1, <1>3, RowsKept, UnbrokenKept

LEMMA UnbrokenStep == TypeOK /\ Discipline /\ Unbroken /\ [Next]_vars => Unbroken'
BY ApiUnbroken, RecoveryUnbroken, PopUnbroken, ProcessUnbroken, OtherUnbroken DEF Next

(* A worker's loop is in one of its halves at a time, and until a crash    *)
(* the right to make the next execution is with a worker.                  *)
THEOREM LoopInvariant == Spec => [](TypeOK /\ Discipline /\ Unbroken)
<1>1. Init => Discipline /\ Unbroken
    BY DEF Init, Discipline, StepsIn, Idle, Unbroken, StoreInit, Absent
<1> QED
    BY <1>1, DisciplineStep, UnbrokenStep, TypeCorrect, PTL DEF Spec

(* Until a process crashes every completed execution of a cron job has its *)
(* next one, or a worker is about to make it: a lapsed lease, a recovery   *)
(* at the wrong moment or a worker that dies of a conflict loses none.     *)
THEOREM ChainStaysUnbroken == Spec => []ChainUnbroken
BY LoopInvariant, UnbrokenMeans, PTL

-----------------------------------------------------------------------------
(* One runner per execution, when leases of live workers do not run out.   *)

(* Workers keep heartbeating and do not crash. *)
Calm == ~Stalls /\ MaxCrashes = 0

(* An entry of a batch has still to be begun. *)
Fresh == \A w \in Workers : \A m \in batch[w] : step[w][m] = "none"

(* Steps of an entry with a lease. *)
Holding == {"popped", "read", "running", "releasing", "acking", "completed"}

(* Without crashes every lease has a live holder, so none runs out ...     *)
NoCrash == crashes = 0 /\ \A w \in Workers : pc[w] # "down"
LeasesHeld == lapsed = {} /\ \A m \in processing : \E w \in Workers : step[w][m] \in Holding

(* ... and there is nothing to recover ...                                 *)
NoRecovery == \A w \in Workers : pc[w] \notin {"reclaiming", "recovering"}

(* ... and the row is IN_PROGRESS for as long as its task runs.            *)
RunnersOwn ==
    \A w \in Workers, m \in QueuedExecution :
        step[w][m] = "running" => status[m.exec] = "IN_PROGRESS"

CalmInv == Fresh /\ NoCrash /\ LeasesHeld /\ NoRecovery /\ RunnersOwn /\ OneRunner

(* A step of an entry: the others stay where they are. *)
LEMMA EntryFresh ==
    ASSUME TypeOK, Fresh, NEW w \in Workers, NEW m \in QueuedExecution,
           NEW s \in EntrySteps, SetStep(w, m, s),
           \/ step[w][m] # "none" /\ UNCHANGED batch
           \/ batch' = [batch EXCEPT ![w] = @ \ {m}]
    PROVE  Fresh'
<1> SUFFICES ASSUME NEW v \in Workers, NEW n \in batch'[v]
             PROVE  step'[v][n] = "none"
    BY DEF Fresh
<1>1. n \in batch[v] /\ n \in QueuedExecution /\ (v # w \/ n # m)
    BY DEF TypeOK, Fresh
<1> QED
    BY <1>1, StepChanged DEF Fresh

(* Nobody starts to run, and whose task runs keeps an IN_PROGRESS row. *)
LEMMA RunnersLess ==
    ASSUME RunnersOwn, OneRunner,
           \A w \in Workers, m \in QueuedExecution :
              step'[w][m] = "running" =>
                 step[w][m] = "running" /\ status'[m.exec] = status[m.exec]
    PROVE  RunnersOwn' /\ OneRunner'
BY DEF RunnersOwn, OneRunner

(* A lease that is kept still has its holder. *)
LEMMA HoldersStay ==
    ASSUME TypeOK, LeasesHeld, NEW w \in Workers, NEW m \in QueuedExecution,
           NEW s \in EntrySteps, SetStep(w, m, s),
           processing' \subseteq processing, lapsed' \subseteq lapsed,
           step[w][m] \notin Holding \/ s \in Holding \/ m \notin processing'
    PROVE  LeasesHeld'
<1> SUFFICES ASSUME NEW n \in processing'
             PROVE  \E v \in Workers : step'[v][n] \in Holding
    BY DEF LeasesHeld
<1>1. n \in processing /\ n \in QueuedExecution
    BY DEF TypeOK, QueueTypeOK
<1>2. PICK v \in Workers : step[v][n] \in Holding
    BY <1>1 DEF LeasesHeld
<1>3. CASE v = w /\ n = m
    BY <1>2, <1>3, StepChanged
<1>4. CASE v # w \/ n # m
    BY <1>1, <1>2, <1>4, StepChanged
<1> QED
    BY <1>3, <1>4

LEMMA ApiCalm ==
    ASSUME TypeOK, CalmInv, Api
    PROVE  CalmInv'
<1> SUFFICES ASSUME NEW j \in Jobs,
                    PutJob(j) \/ PutFirstExecution(j) \/ EnqueueFirst(j)
             PROVE  CalmInv'
    BY DEF Api
<1>1. UNCHANGED <<crashes, step, pc, batch>>
    BY DEF PutJob, PutFirstExecution, EnqueueFirst, workerVars
<1>2. UNCHANGED <<processing, lapsed>>
    BY DEF PutJob, PutFirstExecution, EnqueueFirst, EnqueueIfNearTerm, Enqueue, queueVars
<1>3. \A e \in Executions : status'[e] = status[e] \/ status[e] = Absent
    BY DEF PutJob, PutFirstExecution, EnqueueFirst, NewExecution, PutExecution, storeVars,
           TypeOK, StoreTypeOK
<1>4. RunnersOwn' /\ OneRunner'
    BY <1>1, <1>3, RunnersLess, ExecOfEntry DEF CalmInv, RunnersOwn, Absent
<1> QED
    BY <1>1, <1>2, <1>4 DEF CalmInv, Fresh, NoCrash, LeasesHeld, NoRecovery

LEMMA RecoveryCalm ==
    ASSUME TypeOK, Discipline, CalmInv, NEW w \in Workers, Recovery(w)
    PROVE  CalmInv'
<1>1. \A m \in QueuedExecution : step[w][m] \notin {"failing", "retrying", "requeue"}
    BY DEF Discipline, StepsIn, CalmInv, NoRecovery, EntrySteps
<1>2. ReclaimScan(w)
    BY <1>1 DEF Recovery, ReclaimRemove, RecoverDone, RecoverRead, RecoverFail, RecoverRetry,
           RecoverEnqueue, CalmInv, NoRecovery
<1>3. /\ batch' = [batch EXCEPT ![w] = {}] /\ pc' = [pc EXCEPT ![w] = "polling"]
      /\ UNCHANGED <<crashes, step, processing, lapsed, status>>
    BY <1>2 DEF ReclaimScan, CalmInv, LeasesHeld, queueVars, storeVars
<1>4. RunnersOwn' /\ OneRunner'
    BY <1>3, RunnersLess DEF CalmInv
<1> QED
    BY <1>3, <1>4 DEF CalmInv, Fresh, NoCrash, LeasesHeld, NoRecovery, TypeOK

LEMMA PopCalm ==
    ASSUME TypeOK, Discipline, CalmInv, NEW w \in Workers, Pop(w)
    PROVE  CalmInv'
<1>0. /\ Fresh /\ NoCrash /\ LeasesHeld /\ NoRecovery /\ RunnersOwn /\ OneRunner
      /\ UNCHANGED crashes /\ UNCHANGED status
    BY DEF CalmInv, Pop, PopScan, StartGather, GatherDone, PopRemove, PopLease, storeVars
<1>1. CASE PopScan(w)
    <2>1. PICK p \in {"idle", "popping"} : pc' = [pc EXCEPT ![w] = p]
        BY <1>1 DEF PopScan
    <2>2. /\ pc[w] = "polling" /\ UNCHANGED <<step, processing, lapsed>>
          /\ \E S \in SUBSET Ripe : batch' = [batch EXCEPT ![w] = S]
        BY <1>1 DEF PopScan, queueVars
    <2>3. \A m \in QueuedExecution : step[w][m] = "none"
        BY <2>2 DEF Discipline, StepsIn
    <2>4. Fresh'
        BY <1>0, <2>2, <2>3 DEF Fresh, TypeOK, QueueTypeOK, Ripe
    <2> QED
        BY <1>0, <2>1, <2>2, <2>4, RunnersLess
           DEF CalmInv, NoCrash, LeasesHeld, NoRecovery, TypeOK
<1>2. CASE StartGather(w) \/ GatherDone(w)
    <2>1. PICK p \in {"idle", "gather"} : pc' = [pc EXCEPT ![w] = p]
        BY <1>2 DEF StartGather, GatherDone
    <2>2. UNCHANGED <<step, processing, lapsed, batch>>
        BY <1>2 DEF StartGather, GatherDone, queueVars
    <2> QED
        BY <1>0, <2>1, <2>2, RunnersLess
           DEF CalmInv, Fresh, NoCrash, LeasesHeld, NoRecovery, TypeOK
<1>3. ASSUME NEW m \in QueuedExecution, PopRemove(w, m) \/ PopLease(w, m)
      PROVE  CalmInv'
    <2>1. PICK s \in {"none", "removed", "popped"} : SetStep(w, m, s)
        BY <1>3 DEF PopRemove, PopLease
    <2>2. s \in EntrySteps /\ UNCHANGED pc
        BY <1>3 DEF PopRemove, PopLease, EntrySteps
    <2>3. Fresh'
        BY <1>0, <1>3, <2>1, <2>2, EntryFresh DEF PopRemove, PopLease
    <2>4. RunnersOwn' /\ OneRunner'
        BY <1>0, <2>1, <2>2, StepChanged, RunnersLess
    <2>5. step[w][m] \notin Holding
        BY <1>0, <1>3 DEF PopRemove, PopLease, Fresh, Holding
    <2>6. LeasesHeld'
        <3>1. CASE PopRemove(w, m)
            <4>1. UNCHANGED <<processing, lapsed>>
                BY <3>1 DEF PopRemove, RemoveDue
            <4> QED
                BY <1>0, <2>1, <2>2, <2>5, <4>1, HoldersStay
        <3>2. CASE PopLease(w, m)
            <4>1. processing' = processing \cup {m} /\ lapsed' = lapsed \ {m}
                BY <3>2 DEF PopLease, GrantLease
            <4>2. step'[w][m] = "popped"
                BY <3>2, StepChanged DEF PopLease, EntrySteps
            <4>3. SUFFICES ASSUME NEW n \in processing'
                           PROVE  \E v \in Workers : step'[v][n] \in Holding
                BY <1>0, <4>1 DEF LeasesHeld
            <4>4. CASE n = m
                BY <4>2, <4>4 DEF Holding
            <4>5. CASE n # m
                <5>1. n \in processing /\ n \in QueuedExecution
                    BY <4>1, <4>5 DEF TypeOK, QueueTypeOK
                <5>2. PICK v \in Workers : step[v][n] \in Holding
                    BY <1>0, <5>1 DEF LeasesHeld
                <5>3. step'[v][n] = step[v][n]
                    BY <2>1, <2>2, <4>5, <5>1, StepChanged
                <5> QED
                    BY <5>2, <5>3
            <4> QED
                BY <4>4, <4>5
        <3> QED
            BY <1>3, <3>1, <3>2
    <2> QED
        BY <1>0, <2>2, <2>3, <2>4, <2>6 DEF CalmInv, NoCrash, NoRecovery
<1> QED
    BY <1>1, <1>2, <1>3 DEF Pop

(* A step of the process of an entry that it keeps going. *)
LEMMA EntryCalm ==
    ASSUME TypeOK, CalmInv, NEW w \in Workers, NEW m \in QueuedExecution,
           NEW s \in EntrySteps, SetStep(w, m, s), step[w][m] # "none",
           UNCHANGED <<crashes, pc, batch>>,
           processing' \subseteq processing, lapsed' \subseteq lapsed,
           step[w][m] \notin Holding \/ s \in Holding \/ m \notin processing',
           RunnersOwn', OneRunner'
    PROVE  CalmInv'
<1>1. Fresh'
    BY EntryFresh DEF CalmInv
<1>2. LeasesHeld'
    BY HoldersStay DEF CalmInv
<1> QED
    BY <1>1, <1>2 DEF CalmInv, NoCrash, NoRecovery

(* Nobody else runs the execution: its row can be finished. *)
LEMMA RunnerLeaves ==
    ASSUME TypeOK, CalmInv, NEW w \in Workers, NEW m \in QueuedExecution,
           NEW s \in EntrySteps \ {"running"}, SetStep(w, m, s),
           step[w][m] = "running", NEW t \in ExecutionStatus, status' = [status EXCEPT ![m.exec] = t]
    PROVE  RunnersOwn' /\ OneRunner'
<1>1. SUFFICES ASSUME NEW v \in Workers, NEW n \in QueuedExecution, step'[v][n] = "running"
               PROVE  step[v][n] = "running" /\ status'[n.exec] = status[n.exec]
    BY RunnersLess DEF CalmInv
<1>2. v # w \/ n # m
    BY <1>1, StepChanged
<1>3. step[v][n] = "running"
    BY <1>1, <1>2, StepChanged
<1>4. n.exec # m.exec
    BY <1>2, <1>3 DEF CalmInv, OneRunner
<1> QED
    BY <1>3, <1>4, ExecOfEntry DEF TypeOK, StoreTypeOK

LEMMA ClaimCalm ==
    ASSUME TypeOK, CalmInv, NEW w \in Workers, NEW m \in QueuedExecution, Claim(w, m)
    PROVE  CalmInv'
<1>0. /\ step[w][m] = "read" /\ SetStep(w, m, "running")
      /\ UNCHANGED <<crashes, pc, batch, processing, lapsed>>
    BY DEF Claim, queueVars
<1>1. /\ status[m.exec] \in {"PENDING", "RETRYING"}
      /\ status' = [status EXCEPT ![m.exec] = "IN_PROGRESS"]
    BY DEF Claim, MarkInProgress, Transition, Conflict, InProgressFrom
<1>2. /\ status'[m.exec] = "IN_PROGRESS"
      /\ \A e \in Executions : e # m.exec => status'[e] = status[e]
    BY <1>1, ExecOfEntry DEF TypeOK, StoreTypeOK
<1>3. /\ step'[w][m] = "running"
      /\ \A v \in Workers, n \in QueuedExecution :
            v # w \/ n # m => step'[v][n] = step[v][n]
    BY <1>0, StepChanged DEF EntrySteps
<1>4. ASSUME NEW v \in Workers, NEW n \in QueuedExecution, step[v][n] = "running"
      PROVE  n.exec # m.exec
    BY <1>1, <1>4 DEF CalmInv, RunnersOwn
<1>5. RunnersOwn'
    BY <1>2, <1>3, <1>4, ExecOfEntry DEF CalmInv, RunnersOwn
<1>6. OneRunner'
    BY <1>3, <1>4 DEF CalmInv, OneRunner
<1> QED
    BY <1>0, <1>5, <1>6, EntryCalm DEF Holding, EntrySteps

LEMMA ProcessCalm ==
    ASSUME TypeOK, CalmInv, NEW w \in Workers, NEW m \in QueuedExecution, Process(w, m)
    PROVE  CalmInv'
<1>1. CASE Claim(w, m)
    BY <1>1, ClaimCalm
<1>2. CASE \/ ReadExecution(w, m) \/ NotClaimable(w, m) \/ ReleaseEntry(w, m)
           \/ AckEntry(w, m) \/ AckCompleted(w, m) \/ EnqueueNext(w, m)
    <2>1. PICK s \in {"none", "read", "acking", "chaining"} :
             /\ SetStep(w, m, s)
             /\ step[w][m] \notin Holding \/ s \in Holding \/ m \notin processing'
        BY <1>2 DEF ReadExecution, NotClaimable, ReleaseEntry, AckEntry, AckCompleted,
                    EnqueueNext, Holding, Ack, Release
    <2>2. /\ step[w][m] # "none" /\ s \in EntrySteps \ {"running"}
          /\ UNCHANGED <<crashes, pc, batch, status>>
        BY <1>2, <2>1 DEF ReadExecution, NotClaimable, ReleaseEntry, AckEntry, AckCompleted,
                    EnqueueNext, EntrySteps, storeVars
    <2>3. processing' \subseteq processing /\ lapsed' \subseteq lapsed
        BY <1>2 DEF ReadExecution, NotClaimable, ReleaseEntry, AckEntry, AckCompleted,
                    EnqueueNext, Ack, Release, EnqueueIfNearTerm, Enqueue, queueVars
    <2>4. \A v \in Workers, n \in QueuedExecution :
             step'[v][n] = "running" => step[v][n] = "running"
        BY <2>1, <2>2, StepChanged
    <2>5. RunnersOwn' /\ OneRunner'
        BY <2>2, <2>4, RunnersLess DEF CalmInv
    <2> QED
        BY <2>1, <2>2, <2>3, <2>5, EntryCalm
<1>3. CASE TaskFails(w, m) \/ TaskReturns(w, m)
    <2>1. status[m.exec] = "IN_PROGRESS"
        BY <1>3 DEF TaskFails, TaskReturns, CalmInv, RunnersOwn
    <2>2. /\ ~Conflict(m.exec, FailedFrom) /\ ~Conflict(m.exec, RetryingFrom)
          /\ ~Conflict(m.exec, CompletedFrom)
        BY <2>1 DEF Conflict, FailedFrom, RetryingFrom, CompletedFrom
    <2>3. /\ \E s \in {"acking", "releasing", "completed"} : SetStep(w, m, s)
          /\ UNCHANGED <<crashes, pc, batch, processing, lapsed>>
          /\ step[w][m] = "running"
        BY <1>3, <2>2 DEF TaskFails, TaskReturns, queueVars
    <2>4. \E t \in {"FAILED", "RETRYING", "COMPLETED"} :
             status' = [status EXCEPT ![m.exec] = t]
        BY <1>3, <2>2 DEF TaskFails, TaskReturns, MarkFailed, MarkRetrying, MarkCompleted,
                          Transition
    <2>5. PICK s \in {"acking", "releasing", "completed"} : SetStep(w, m, s)
        BY <2>3
    <2>6. PICK t \in {"FAILED", "RETRYING", "COMPLETED"} :
             status' = [status EXCEPT ![m.exec] = t]
        BY <2>4
    <2>7. t \in ExecutionStatus /\ s \in EntrySteps \ {"running"} /\ s \in Holding
        BY DEF ExecutionStatus, EntrySteps, Holding
    <2>8. RunnersOwn' /\ OneRunner'
        BY <2>3, <2>5, <2>6, <2>7, RunnerLeaves
    <2> QED
        BY <2>3, <2>5, <2>7, <2>8, EntryCalm
<1>4. CASE PutNextExecution(w, m)
    <2>1. /\ step[w][m] = "chaining" /\ \E s \in {"none", "announcing"} : SetStep(w, m, s)
          /\ UNCHANGED <<crashes, pc, batch, processing, lapsed>>
        BY <1>4 DEF PutNextExecution, queueVars
    <2>2. \A e \in Executions : status'[e] = status[e] \/ status[e] = Absent
        BY <1>4 DEF PutNextExecution, NewExecution, PutExecution, storeVars,
                    TypeOK, StoreTypeOK
    <2>3. PICK s \in {"none", "announcing"} : SetStep(w, m, s)
        BY <2>1
    <2>4. s \in EntrySteps \ {"running"} /\ step[w][m] \notin Holding
        BY <2>1 DEF EntrySteps, Holding
    <2>5. \A v \in Workers, n \in QueuedExecution :
             step'[v][n] = "running" => step[v][n] = "running"
        BY <2>3, <2>4, StepChanged
    <2>6. \A v \in Workers, n \in QueuedExecution :
             step[v][n] = "running" => status'[n.exec] = status[n.exec]
        BY <2>2, ExecOfEntry DEF CalmInv, RunnersOwn, Absent
    <2>7. RunnersOwn' /\ OneRunner'
        BY <2>5, <2>6, RunnersLess DEF CalmInv
    <2> QED
        BY <2>1, <2>3, <2>4, <2>7, EntryCalm
<1> QED
    BY <1>1, <1>2, <1>3, <1>4 DEF Process

LEMMA OtherCalm ==
    ASSUME Calm, TypeOK, CalmInv,
           \/ Scheduler
           \/ \E w \in Workers, m \in QueuedExecution : Heartbeat(w, m)
           \/ Environment
           \/ UNCHANGED vars
    PROVE  CalmInv'
<1>1. ASSUME NEW m \in QueuedExecution, LeaseLapses(m)
      PROVE  FALSE
    <2>1. m \in processing /\ \A w \in Workers : step[w][m] = "none"
        BY <1>1 DEF LeaseLapses, Lapse, Calm
    <2> QED
        BY <2>1 DEF CalmInv, LeasesHeld, Holding
<1>2. ~(crashes < MaxCrashes) /\ \A w \in Workers : pc[w] # "down"
    BY DEF Calm, CalmInv, NoCrash
<1>3. /\ UNCHANGED <<crashes, pc, batch, step, status, processing>>
      /\ lapsed' \subseteq lapsed
    BY <1>1, <1>2 DEF Scheduler, SchedulerScan, SchedulerEnqueue, Heartbeat, ExtendLease,
           Environment, Advance, Age, CrashWorker, RestartWorker, CrashScheduler, CrashApi,
           Enqueue, storeVars, queueVars, workerVars, vars
<1>4. RunnersOwn' /\ OneRunner'
    BY <1>3, RunnersLess DEF CalmInv
<1> QED
    BY <1>3, <1>4 DEF CalmInv, Fresh, NoCrash, LeasesHeld, NoRecovery

LEMMA CalmStep == Calm /\ TypeOK /\ Discipline /\ CalmInv /\ [Next]_vars => CalmInv'
BY ApiCalm, RecoveryCalm, PopCalm, ProcessCalm, OtherCalm DEF Next

(* Without crashes and stalled workers no two workers run the task of one  *)
(* execution at the same time, although the scheduler, the API and the     *)
(* worker that finished the previous one may each have queued it: whoever  *)
(* is second finds the row IN_PROGRESS.                                    *)
THEOREM OneRunnerWhenCalm ==
    ASSUME Calm
    PROVE  Spec => []OneRunner
<1>1. Init => CalmInv
    BY DEF Init, CalmInv, Fresh, NoCrash, LeasesHeld, NoRecovery, RunnersOwn, OneRunner,
           QueueInit, Idle
<1>2. TypeOK /\ Discipline /\ CalmInv /\ [Next]_vars => CalmInv'
    BY CalmStep
<1>3. CalmInv => OneRunner
    BY DEF CalmInv
<1> QED
    BY <1>1, <1>2, <1>3, LoopInvariant, PTL DEF Spec
=============================================================================
