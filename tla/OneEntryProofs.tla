--------------------------- MODULE OneEntryProofs ---------------------------
(***************************************************************************)
(* Theorems about the job scheduler when the scheduler process queues no   *)
(* execution twice, for any number of workers, executions, retries and     *)
(* crashes: how often a task runs, and that it never runs twice at once.   *)
(*                                                                         *)
(* The argument follows the one entry that an execution then has: through  *)
(* the due set, the lease, the hands of a worker, the hands of another one *)
(* that recovers it, and back under a later due_at.                        *)
(***************************************************************************)
EXTENDS MCJobScenarios, JobSchedulerProofs

-----------------------------------------------------------------------------
(* One entry per execution.                                                *)

(* The scheduler never reads a row, since each is older than its lookback, *)
(* and workers keep heartbeating: then nobody makes a second entry.        *)
OneEntryOnly == StartPhases \subseteq {"aged"} /\ ~Stalls

(* Worker w has m in its hands: it is at a step of it, or it has reclaimed *)
(* it and not read its row yet.                                            *)
Recovering(w, m) == pc[w] = "recovering" /\ m \in batch[w]
Carried(w, m) == step[w][m] # "none" \/ Recovering(w, m)

(* Where an entry can be. *)
Known(m) == m \in due \cup processing \/ \E w \in Workers : Carried(w, m)

(* An execution has one entry in all of them; it is in one of them, but    *)
(* that its holder keeps the lease while it works, and a lapsed one has no *)
(* holder.                                                                 *)
OneEntryEach == \A m, n \in QueuedExecution : Known(m) /\ Known(n) /\ m.exec = n.exec => m = n
DueIsFree == \A m \in due : m \notin processing /\ \A w \in Workers : ~Carried(w, m)
OneCarrier == \A m \in QueuedExecution, v, w \in Workers : Carried(v, m) /\ Carried(w, m) => v = w
LeaseIsHeld == \A w \in Workers, m \in processing : Carried(w, m) => step[w][m] \in Holding
LapsedIsFree == \A m \in lapsed, w \in Workers : ~Carried(w, m)
NoneRead == \A w \in Workers, m \in QueuedExecution : Recovering(w, m) => step[w][m] = "none"

RecoverySteps == {"none", "failing", "retrying", "requeue"}

(* What a worker has scanned and not yet removed may be long reclaimed by  *)
(* another one, but then its execution has come back under a later due_at. *)
Scanned(w, m) == pc[w] = "reclaiming" /\ m \in batch[w]
ScanIsStale ==
    \A w \in Workers, m \in QueuedExecution : Scanned(w, m) =>
        /\ m \notin due
        /\ m \in processing => m \in lapsed
        /\ \A v \in Workers : step[v][m] \in RecoverySteps
        /\ \A n \in QueuedExecution : Known(n) /\ n.exec = m.exec => n.dueAt >= m.dueAt

EntryInv ==
    /\ OneEntryEach /\ DueIsFree /\ OneCarrier /\ LeaseIsHeld /\ LapsedIsFree
    /\ NoneRead /\ ScanIsStale

(* The first entry of an execution is made once, by the request or the     *)
(* worker that stored its row.                                             *)
Used(e) == \E m \in QueuedExecution :
    m.exec = e /\ (Known(m) \/ \E w \in Workers : Scanned(w, m))
Announced(e) ==
    \/ \E j \in Jobs : api[j] = "row" /\ first[j] = e
    \/ \E w \in Workers, m \in QueuedExecution : step[w][m] = "announcing" /\ e \in successors[m.exec]

AbsentAreNew == \A e \in Executions : status[e] = Absent => ~Used(e)
AnnouncedAreNew == \A e \in Executions : Announced(e) => status[e] # Absent /\ ~Used(e)
FirstsApart ==
    \A j \in Jobs : api[j] = "row" =>
        /\ \A f \in Executions : first[j] \notin successors[f]
        /\ \A i \in Jobs : api[i] = "row" /\ first[i] = first[j] => i = j

FirstInv == AbsentAreNew /\ AnnouncedAreNew /\ FirstsApart

(* The scheduler has nothing to do. *)
Old == pendingScan = {} /\ \A e \in Executions : status[e] # Absent => phase[e] = "aged"

(* The row counts its claims, and whoever has read it knows its count.     *)
AttemptsCounted ==
    \A e \in Executions :
        /\ runs[e] = attempt[e] /\ attempt[e] <= MaxAttempts
        /\ status[e] \in {"PENDING", "RETRYING"} => attempt[e] < MaxAttempts
        /\ status[e] = Absent => attempt[e] = 0
AttemptsKnown ==
    \A w \in Workers, m \in QueuedExecution :
        /\ step[w][m] \in {"read", "running"} => seen[w][m] = attempt[m.exec]
        /\ step[w][m] = "retrying" => attempt[m.exec] < MaxAttempts

AttemptInv == AttemptsCounted /\ AttemptsKnown

OneEntryInv == EntryInv /\ FirstInv /\ Old /\ AttemptInv

-----------------------------------------------------------------------------
(* How entries move.                                                       *)

(* An entry that comes to due is the only one of its execution. *)
Arrives(n) ==
    /\ \A k \in QueuedExecution : Known(k)' /\ k.exec = n.exec => k = n
    /\ n \notin processing'
    /\ \A w \in Workers : ~Carried(w, n)'
    /\ \A w \in Workers, m \in QueuedExecution :
          Scanned(w, m) /\ m.exec = n.exec => m.dueAt < n.dueAt

(* No entry comes to be anywhere but in N. *)
NothingNew(N) ==
    /\ due' \subseteq due \cup N
    /\ processing' \subseteq processing
    /\ lapsed' \subseteq lapsed
    /\ processing' \cap lapsed \subseteq lapsed'
    /\ \A w \in Workers, m \in QueuedExecution :
          /\ Carried(w, m)' => Carried(w, m)
          /\ Scanned(w, m)' => Scanned(w, m)
          /\ step[w][m] \in RecoverySteps => step'[w][m] \in RecoverySteps

(* No execution comes to be used but those of N.                           *)
OnlyNew(N) == \A e \in Executions : Used(e)' => Used(e) \/ \E n \in N : n.exec = e
UsedKept == \A e \in Executions : Used(e)' => Used(e)

LEMMA KnownLess ==
    ASSUME NEW N, NothingNew(N), NEW m, m \in QueuedExecution, Known(m)'
    PROVE  Known(m) \/ m \in N
BY DEF NothingNew, Known

LEMMA EntriesChange ==
    ASSUME TypeOK, EntryInv, NEW N \in SUBSET QueuedExecution, NothingNew(N),
           \A n \in N : Arrives(n), NoneRead', LeaseIsHeld'
    PROVE  EntryInv' /\ OnlyNew(N)
<1>0. /\ OneEntryEach /\ DueIsFree /\ OneCarrier /\ LeaseIsHeld /\ LapsedIsFree
      /\ NoneRead /\ ScanIsStale
      /\ due' \subseteq QueuedExecution /\ processing \subseteq QueuedExecution
      /\ lapsed \subseteq QueuedExecution
    BY DEF EntryInv, TypeOK, QueueTypeOK, NothingNew
<1>1. OneEntryEach'
    <2> SUFFICES ASSUME NEW m \in QueuedExecution, NEW n \in QueuedExecution,
                        Known(m)', Known(n)', m.exec = n.exec
                 PROVE  m = n
        BY DEF OneEntryEach
    <2>1. CASE m \in N \/ n \in N
        BY <2>1 DEF Arrives
    <2>2. CASE m \notin N /\ n \notin N
        BY <1>0, <2>2, KnownLess DEF OneEntryEach
    <2> QED
        BY <2>1, <2>2
<1>2. DueIsFree'
    BY <1>0 DEF DueIsFree, NothingNew, Arrives
<1>3. OneCarrier'
    BY <1>0 DEF OneCarrier, NothingNew
<1>4. LapsedIsFree'
    BY <1>0 DEF LapsedIsFree, NothingNew
<1>5. ScanIsStale'
    <2> SUFFICES ASSUME NEW w \in Workers, NEW m \in QueuedExecution, Scanned(w, m)'
                 PROVE  /\ m \notin due'
                        /\ m \in processing' => m \in lapsed'
                        /\ \A v \in Workers : step'[v][m] \in RecoverySteps
                        /\ \A n \in QueuedExecution :
                              Known(n)' /\ n.exec = m.exec => n.dueAt >= m.dueAt
        BY DEF ScanIsStale
    <2>1. Scanned(w, m)
        BY DEF NothingNew
    <2>2. ASSUME NEW n \in N, n.exec = m.exec PROVE m.dueAt < n.dueAt
        BY <2>1, <2>2 DEF Arrives
    <2>3. \A n \in QueuedExecution : n.dueAt \in Nat
        BY ConstantsAssumption DEF QueuedExecution, NoDueAt, Stamps
    <2>4. m \notin due'
        BY <1>0, <2>1, <2>2, <2>3 DEF ScanIsStale, NothingNew
    <2>5. \A n \in QueuedExecution : Known(n)' /\ n.exec = m.exec => n.dueAt >= m.dueAt
        BY <1>0, <2>1, <2>2, <2>3, KnownLess DEF ScanIsStale
    <2>6. /\ m \in processing' => m \in lapsed'
          /\ \A v \in Workers : step'[v][m] \in RecoverySteps
        BY <1>0, <2>1 DEF ScanIsStale, NothingNew
    <2> QED
        BY <2>4, <2>5, <2>6
<1>6. OnlyNew(N)
    BY KnownLess DEF NothingNew, OnlyNew, Used
<1> QED
    BY <1>1, <1>2, <1>3, <1>4, <1>5, <1>6 DEF EntryInv

LEMMA EntryMoves ==
    ASSUME TypeOK, EntryInv, NEW w \in Workers, NEW m \in QueuedExecution,
           NEW s \in EntrySteps, SetStep(w, m, s), step[w][m] # "none",
           UNCHANGED <<pc, batch>>,
           NEW N \in SUBSET QueuedExecution, due' \subseteq due \cup N, \A n \in N : Arrives(n),
           processing' \subseteq processing,
           lapsed' \subseteq lapsed, processing' \cap lapsed \subseteq lapsed',
           \/ s \in Holding \cup {"none"}
           \/ step[w][m] \notin Holding
           \/ m \notin processing',
           step[w][m] \in RecoverySteps => s \in RecoverySteps
    PROVE  EntryInv' /\ OnlyNew(N)
<1>0. /\ step'[w][m] = s
      /\ \A v \in Workers, n \in QueuedExecution : v # w \/ n # m => step'[v][n] = step[v][n]
      /\ \A v \in Workers, n \in QueuedExecution : Recovering(v, n)' <=> Recovering(v, n)
    BY StepChanged DEF Recovering
<1>1. ~Recovering(w, m)
    BY DEF EntryInv, NoneRead
<1>2. NothingNew(N)
    BY <1>0, <1>1 DEF NothingNew, Carried, Scanned
<1>3. NoneRead'
    BY <1>0, <1>1 DEF EntryInv, NoneRead
<1>4. LeaseIsHeld'
    <2> SUFFICES ASSUME NEW v \in Workers, NEW n \in processing', Carried(v, n)'
                 PROVE  step'[v][n] \in Holding
        BY DEF LeaseIsHeld
    <2>0. n \in processing /\ n \in QueuedExecution
        BY DEF TypeOK, QueueTypeOK
    <2>1. step[v][n] \in Holding
        BY <1>2, <2>0 DEF NothingNew, EntryInv, LeaseIsHeld
    <2>2. CASE v = w /\ n = m
        BY <1>0, <1>1, <2>1, <2>2 DEF Carried
    <2> QED
        BY <1>0, <2>0, <2>1, <2>2
<1> QED
    BY <1>2, <1>3, <1>4, EntriesChange

LEMMA NobodyNew ==
    /\ {} \in SUBSET QueuedExecution /\ \A n \in {} : Arrives(n)
    /\ OnlyNew({}) => UsedKept
BY DEF OnlyNew, UsedKept

LEMMA KnownKept ==
    ASSUME \A m \in QueuedExecution :
              /\ Known(m)' => Known(m)
              /\ \A w \in Workers : Scanned(w, m)' => Scanned(w, m) \/ Known(m)
    PROVE  UsedKept
BY DEF UsedKept, Used

(* The loop of a worker moves on to a part where it holds no more. *)
LEMMA LoopMoves ==
    ASSUME TypeOK, EntryInv, NEW w \in Workers,
           NEW p \in LoopSteps \ {"reclaiming", "recovering"},
           pc' = [pc EXCEPT ![w] = p], UNCHANGED <<step, queueVars>>,
           \A v \in Workers \ {w} : batch'[v] = batch[v]
    PROVE  EntryInv' /\ UsedKept
<1>1. pc'[w] = p /\ \A v \in Workers \ {w} : pc'[v] = pc[v]
    BY DEF TypeOK
<1>2. \A v \in Workers, n \in QueuedExecution :
         /\ Recovering(v, n)' => Recovering(v, n)
         /\ Scanned(v, n)' => Scanned(v, n)
    BY <1>1 DEF Recovering, Scanned
<1>3. NothingNew({})
    BY <1>2 DEF NothingNew, Carried, queueVars
<1>4. NoneRead'
    BY <1>2 DEF EntryInv, NoneRead
<1>5. LeaseIsHeld'
    BY <1>3 DEF NothingNew, EntryInv, LeaseIsHeld, queueVars, TypeOK, QueueTypeOK
<1> QED
    BY <1>3, <1>4, <1>5, EntriesChange, NobodyNew

LEMMA DieEntries ==
    ASSUME TypeOK, EntryInv, NEW w \in Workers, Die(w), UNCHANGED queueVars
    PROVE  EntryInv' /\ UsedKept
<1>1. /\ pc'[w] = "down" /\ \A n \in QueuedExecution : step'[w][n] = "none"
      /\ \A v \in Workers \ {w} : step'[v] = step[v] /\ pc'[v] = pc[v] /\ batch'[v] = batch[v]
    <2>1. \A v \in Workers \ {w} : batch'[v] = batch[v]
        BY DEF Die, TypeOK
    <2> QED
        BY <2>1, StepDies
<1>2. \A v \in Workers, n \in QueuedExecution :
         /\ Recovering(v, n)' => v # w /\ Recovering(v, n)
         /\ Scanned(v, n)' => Scanned(v, n)
         /\ Carried(v, n)' => v # w /\ Carried(v, n)
    BY <1>1 DEF Recovering, Scanned, Carried
<1>3. NothingNew({})
    BY <1>1, <1>2 DEF NothingNew, RecoverySteps, queueVars
<1>4. NoneRead'
    BY <1>1, <1>2 DEF EntryInv, NoneRead
<1>5. LeaseIsHeld'
    BY <1>1, <1>2 DEF EntryInv, LeaseIsHeld, queueVars, TypeOK, QueueTypeOK
<1> QED
    BY <1>3, <1>4, <1>5, EntriesChange, NobodyNew

(* A worker that reclaims removes lapsed leases only: nobody carries them. *)
LEMMA ReclaimScanEntries ==
    ASSUME TypeOK, Discipline, EntryInv, NEW w \in Workers, ReclaimScan(w)
    PROVE  EntryInv' /\ UsedKept
<1>1. PICK S \in SUBSET lapsed :
         /\ batch' = [batch EXCEPT ![w] = S]
         /\ pc' = [pc EXCEPT ![w] = IF S = {} THEN "polling" ELSE "reclaiming"]
    BY DEF ReclaimScan
<1>2. pc[w] = "idle" /\ UNCHANGED <<step, due, processing, lapsed>>
    BY DEF ReclaimScan, queueVars
<1>3. /\ batch'[w] = S /\ pc'[w] \in {"polling", "reclaiming"}
      /\ \A v \in Workers \ {w} : batch'[v] = batch[v] /\ pc'[v] = pc[v]
    BY <1>1 DEF TypeOK
<1>4. \A v \in Workers, n \in QueuedExecution :
         /\ Recovering(v, n)' <=> Recovering(v, n)
         /\ Scanned(v, n)' => Scanned(v, n) \/ (v = w /\ n \in S)
    BY <1>2, <1>3 DEF Recovering, Scanned
<1>5. /\ \A v \in Workers, n \in QueuedExecution : Carried(v, n)' <=> Carried(v, n)
      /\ \A n \in QueuedExecution : Known(n)' <=> Known(n)
    BY <1>2, <1>4 DEF Carried, Known
<1>6. OneEntryEach' /\ DueIsFree' /\ OneCarrier' /\ LeaseIsHeld' /\ LapsedIsFree' /\ NoneRead'
    <2>1. due \subseteq QueuedExecution /\ processing \subseteq QueuedExecution
          /\ lapsed \subseteq QueuedExecution
        BY DEF TypeOK, QueueTypeOK
    <2> QED
        BY <1>2, <1>4, <1>5, <2>1 DEF EntryInv, OneEntryEach, DueIsFree, OneCarrier,
           LeaseIsHeld, LapsedIsFree, NoneRead
<1>7. ScanIsStale'
    <2> SUFFICES ASSUME NEW v \in Workers, NEW m \in QueuedExecution, Scanned(v, m)'
                 PROVE  /\ m \notin due
                        /\ m \in processing => m \in lapsed
                        /\ \A u \in Workers : step[u][m] \in RecoverySteps
                        /\ \A n \in QueuedExecution :
                              Known(n) /\ n.exec = m.exec => n.dueAt >= m.dueAt
        BY <1>2, <1>5 DEF ScanIsStale
    <2>1. CASE Scanned(v, m)
        BY <2>1 DEF EntryInv, ScanIsStale
    <2>2. CASE m \in S
        <3>1. m \in lapsed /\ m \in processing
            BY <2>2 DEF TypeOK, QueueTypeOK
        <3>2. Known(m) /\ m \notin due
            BY <3>1 DEF Known, EntryInv, DueIsFree
        <3>3. \A u \in Workers : step[u][m] = "none"
            BY <3>1 DEF EntryInv, LapsedIsFree, Carried
        <3>4. \A n \in QueuedExecution : Known(n) /\ n.exec = m.exec => n = m
            BY <3>2 DEF EntryInv, OneEntryEach
        <3>5. m.dueAt \in Nat
            BY ConstantsAssumption DEF QueuedExecution, NoDueAt, Stamps
        <3> QED
            BY <3>1, <3>2, <3>3, <3>4, <3>5 DEF RecoverySteps
    <2> QED
        BY <1>4, <2>1, <2>2
<1>8. \A n \in S : Known(n)
    BY DEF Known, TypeOK, QueueTypeOK
<1>9. UsedKept
    BY <1>4, <1>5, <1>8, KnownKept
<1> QED
    BY <1>6, <1>7, <1>9 DEF EntryInv

(* ZREM gives the lapsed entries it finds to one worker. *)
LEMMA ReclaimRemoveEntries ==
    ASSUME TypeOK, Discipline, EntryInv, NEW w \in Workers, ReclaimRemove(w)
    PROVE  EntryInv' /\ UsedKept
<1>1. /\ pc[w] = "reclaiming" /\ UNCHANGED <<step, due>>
      /\ processing' = processing \ batch[w] /\ lapsed' = lapsed \ batch[w]
      /\ batch' = [batch EXCEPT ![w] = batch[w] \cap processing]
      /\ pc' = [pc EXCEPT ![w] = "recovering"]
    BY DEF ReclaimRemove, RemoveExpired, Reclaimed
<1>2. /\ batch'[w] = batch[w] \cap processing /\ pc'[w] = "recovering"
      /\ \A v \in Workers \ {w} : batch'[v] = batch[v] /\ pc'[v] = pc[v]
      /\ batch[w] \subseteq QueuedExecution
    BY <1>1 DEF TypeOK
<1>3. \A m \in batch[w] \cap processing :
         m \in lapsed /\ m \in QueuedExecution /\ \A v \in Workers : ~Carried(v, m)
    BY <1>1, <1>2 DEF EntryInv, ScanIsStale, Scanned, LapsedIsFree
<1>4. \A v \in Workers, n \in QueuedExecution :
         /\ Recovering(v, n)' <=> Recovering(v, n) \/ (v = w /\ n \in batch[w] \cap processing)
         /\ Scanned(v, n)' => Scanned(v, n)
    BY <1>1, <1>2 DEF Recovering, Scanned
<1>5. \A v \in Workers, n \in QueuedExecution :
         Carried(v, n)' <=> Carried(v, n) \/ (v = w /\ n \in batch[w] \cap processing)
    BY <1>1, <1>4 DEF Carried
<1>6. \A n \in QueuedExecution : Known(n)' => Known(n)
    BY <1>1, <1>5 DEF Known
<1>7. due \subseteq QueuedExecution /\ processing \subseteq QueuedExecution
      /\ lapsed \subseteq QueuedExecution
    BY DEF TypeOK, QueueTypeOK
<1>8. OneEntryEach' /\ OneCarrier'
    BY <1>3, <1>5, <1>6 DEF EntryInv, OneEntryEach, OneCarrier
<1>9. DueIsFree' /\ LapsedIsFree'
    BY <1>1, <1>3, <1>5, <1>7 DEF EntryInv, DueIsFree, LapsedIsFree
<1>10. LeaseIsHeld' /\ NoneRead'
    BY <1>1, <1>3, <1>4, <1>5, <1>7 DEF EntryInv, LeaseIsHeld, NoneRead, Carried
<1>11. ScanIsStale'
    BY <1>1, <1>4, <1>6 DEF EntryInv, ScanIsStale
<1>12. UsedKept
    BY <1>4, <1>6, KnownKept
<1> QED
    BY <1>8, <1>9, <1>10, <1>11, <1>12 DEF EntryInv

LEMMA RecoverReadEntries ==
    ASSUME TypeOK, Discipline, EntryInv, NEW w \in Workers, NEW m \in QueuedExecution,
           RecoverRead(w, m)
    PROVE  EntryInv' /\ UsedKept
<1>1. PICK s \in RecoverySteps : SetStep(w, m, s)
    BY DEF RecoverRead, RecoveryStep, RecoverySteps
<1>2. /\ step'[w][m] = s
      /\ \A v \in Workers, n \in QueuedExecution : v # w \/ n # m => step'[v][n] = step[v][n]
    BY <1>1, StepChanged DEF RecoverySteps, EntrySteps
<1>3. /\ pc[w] = "recovering" /\ m \in batch[w]
      /\ UNCHANGED <<pc, due, processing, lapsed>>
      /\ batch' = [batch EXCEPT ![w] = @ \ {m}]
    BY DEF RecoverRead, queueVars
<1>4. batch'[w] = batch[w] \ {m} /\ \A v \in Workers \ {w} : batch'[v] = batch[v]
    BY <1>3 DEF TypeOK
<1>5. Recovering(w, m) /\ Carried(w, m) /\ step[w][m] = "none"
    BY <1>3 DEF Recovering, Carried, EntryInv, NoneRead
<1>6. m \notin processing
    BY <1>5 DEF EntryInv, LeaseIsHeld, Holding
<1>7. \A v \in Workers, n \in QueuedExecution :
         /\ Recovering(v, n)' <=> Recovering(v, n) /\ (v # w \/ n # m)
         /\ Scanned(v, n)' => Scanned(v, n)
    BY <1>3, <1>4 DEF Recovering, Scanned
<1>8. NothingNew({})
    BY <1>2, <1>3, <1>5, <1>7 DEF NothingNew, Carried
<1>9. NoneRead'
    BY <1>2, <1>7 DEF EntryInv, NoneRead
<1>10. LeaseIsHeld'
    BY <1>2, <1>3, <1>6, <1>8 DEF NothingNew, EntryInv, LeaseIsHeld, TypeOK, QueueTypeOK
<1> QED
    BY <1>8, <1>9, <1>10, EntriesChange, NobodyNew

(* Whoever removes a due entry is the only one to have it. *)
LEMMA PopRemoveEntries ==
    ASSUME TypeOK, Discipline, EntryInv, NEW w \in Workers, NEW m \in QueuedExecution,
           PopRemove(w, m)
    PROVE  EntryInv' /\ UsedKept
<1>1. /\ pc[w] = "popping" /\ UNCHANGED <<pc, processing, lapsed>>
      /\ due' = due \ {m}
      /\ SetStep(w, m, IF m \in due THEN "removed" ELSE "none")
      /\ batch' = [batch EXCEPT ![w] = @ \ {m}]
    BY DEF PopRemove, RemoveDue
<1>2. /\ step'[w][m] = IF m \in due THEN "removed" ELSE "none"
      /\ \A v \in Workers, n \in QueuedExecution : v # w \/ n # m => step'[v][n] = step[v][n]
    BY <1>1, StepChanged DEF EntrySteps
<1>3. \A v \in Workers, n \in QueuedExecution :
         /\ Recovering(v, n)' <=> Recovering(v, n)
         /\ Scanned(v, n)' <=> Scanned(v, n)
    BY <1>1 DEF Recovering, Scanned, TypeOK
<1>4. ~Recovering(w, m) /\ ~Scanned(w, m)
    BY <1>1 DEF Recovering, Scanned
<1>5. due \subseteq QueuedExecution /\ processing \subseteq QueuedExecution
      /\ lapsed \subseteq QueuedExecution /\ lapsed \subseteq processing
    BY DEF TypeOK, QueueTypeOK
<1>6. CASE m \notin due
    <2>1. NothingNew({})
        BY <1>1, <1>2, <1>3, <1>6 DEF NothingNew, Carried, RecoverySteps
    <2>2. NoneRead'
        BY <1>2, <1>3, <1>4 DEF EntryInv, NoneRead
    <2>3. LeaseIsHeld'
        BY <1>1, <1>2, <1>3, <1>4, <1>5, <1>6 DEF EntryInv, LeaseIsHeld, Carried
    <2> QED
        BY <2>1, <2>2, <2>3, EntriesChange, NobodyNew
<1>7. CASE m \in due
    <2>1. m \notin processing /\ \A v \in Workers : ~Carried(v, m)
        BY <1>7 DEF EntryInv, DueIsFree
    <2>2. \A v \in Workers, n \in QueuedExecution :
             Carried(v, n)' <=> Carried(v, n) \/ (v = w /\ n = m)
        BY <1>2, <1>3, <1>7, <2>1 DEF Carried
    <2>3. \A n \in QueuedExecution : Known(n)' => Known(n)
        BY <1>1, <1>7, <2>2 DEF Known
    <2>4. OneEntryEach' /\ OneCarrier'
        BY <2>1, <2>2, <2>3 DEF EntryInv, OneEntryEach, OneCarrier
    <2>5. DueIsFree' /\ LapsedIsFree'
        BY <1>1, <1>5, <2>1, <2>2 DEF EntryInv, DueIsFree, LapsedIsFree
    <2>6. LeaseIsHeld'
        BY <1>1, <1>2, <1>5, <2>1, <2>2 DEF EntryInv, LeaseIsHeld
    <2>7. NoneRead'
        BY <1>2, <1>3, <1>4 DEF EntryInv, NoneRead
    <2>8. \A v \in Workers : ~Scanned(v, m)
        BY <1>7 DEF EntryInv, ScanIsStale
    <2>9. ScanIsStale'
        BY <1>1, <1>2, <1>3, <2>3, <2>8 DEF EntryInv, ScanIsStale
    <2>10. UsedKept
        BY <1>3, <2>3, KnownKept
    <2> QED
        BY <2>4, <2>5, <2>6, <2>7, <2>9, <2>10 DEF EntryInv
<1> QED
    BY <1>6, <1>7

LEMMA PopLeaseEntries ==
    ASSUME TypeOK, Discipline, EntryInv, NEW w \in Workers, NEW m \in QueuedExecution,
           PopLease(w, m)
    PROVE  EntryInv' /\ UsedKept
<1>1. /\ step[w][m] = "removed" /\ SetStep(w, m, "popped")
      /\ processing' = processing \cup {m} /\ lapsed' = lapsed \ {m}
      /\ UNCHANGED <<pc, batch, due>>
    BY DEF PopLease, GrantLease
<1>2. /\ step'[w][m] = "popped"
      /\ \A v \in Workers, n \in QueuedExecution : v # w \/ n # m => step'[v][n] = step[v][n]
    BY <1>1, StepChanged DEF EntrySteps
<1>3. \A v \in Workers, n \in QueuedExecution :
         /\ Recovering(v, n)' <=> Recovering(v, n)
         /\ Scanned(v, n)' <=> Scanned(v, n)
         /\ Carried(v, n)' <=> Carried(v, n)
    BY <1>1, <1>2 DEF Recovering, Scanned, Carried
<1>4. /\ Carried(w, m) /\ m \notin due
      /\ \A v \in Workers : v # w => ~Carried(v, m)
      /\ \A v \in Workers : ~Scanned(v, m)
    BY <1>1 DEF EntryInv, DueIsFree, OneCarrier, ScanIsStale, Carried, RecoverySteps
<1>5. \A n \in QueuedExecution : Known(n)' => Known(n)
    BY <1>1, <1>3, <1>4 DEF Known
<1>6. due \subseteq QueuedExecution /\ processing \subseteq QueuedExecution
      /\ lapsed \subseteq QueuedExecution
    BY DEF TypeOK, QueueTypeOK
<1>7. OneEntryEach' /\ OneCarrier'
    BY <1>3, <1>5 DEF EntryInv, OneEntryEach, OneCarrier
<1>8. DueIsFree' /\ LapsedIsFree'
    BY <1>1, <1>3, <1>4, <1>6 DEF EntryInv, DueIsFree, LapsedIsFree
<1>9. LeaseIsHeld' /\ NoneRead'
    BY <1>1, <1>2, <1>3, <1>4, <1>6 DEF EntryInv, LeaseIsHeld, NoneRead, Carried, Holding
<1>10. ScanIsStale'
    BY <1>1, <1>2, <1>3, <1>4, <1>5 DEF EntryInv, ScanIsStale
<1>11. UsedKept
    BY <1>3, <1>5, KnownKept
<1> QED
    BY <1>7, <1>8, <1>9, <1>10, <1>11 DEF EntryInv

(* Only a lease that nobody holds runs out. *)
LEMMA LapseEntries ==
    ASSUME ~Stalls, TypeOK, EntryInv, NEW m \in QueuedExecution, LeaseLapses(m)
    PROVE  EntryInv' /\ UsedKept
<1>1. /\ m \in processing /\ \A w \in Workers : step[w][m] = "none"
      /\ lapsed' = lapsed \cup {m} /\ UNCHANGED <<due, processing, pc, batch, step>>
    BY DEF LeaseLapses, Lapse, workerVars
<1>2. \A w \in Workers : ~Carried(w, m)
    BY <1>1 DEF EntryInv, LeaseIsHeld, Holding
<1>3. \A v \in Workers, n \in QueuedExecution :
         /\ Recovering(v, n)' <=> Recovering(v, n)
         /\ Scanned(v, n)' <=> Scanned(v, n)
         /\ Carried(v, n)' <=> Carried(v, n)
    BY <1>1 DEF Recovering, Scanned, Carried
<1>4. \A n \in QueuedExecution : Known(n)' <=> Known(n)
    BY <1>1, <1>3 DEF Known
<1>5. due \subseteq QueuedExecution /\ processing \subseteq QueuedExecution
      /\ lapsed \subseteq QueuedExecution
    BY DEF TypeOK, QueueTypeOK
<1>6. OneEntryEach' /\ OneCarrier' /\ NoneRead'
    BY <1>1, <1>3, <1>4 DEF EntryInv, OneEntryEach, OneCarrier, NoneRead
<1>7. DueIsFree' /\ LapsedIsFree' /\ LeaseIsHeld'
    BY <1>1, <1>2, <1>3, <1>5 DEF EntryInv, DueIsFree, LapsedIsFree, LeaseIsHeld
<1>8. ScanIsStale'
    BY <1>1, <1>3, <1>4 DEF EntryInv, ScanIsStale
<1>9. UsedKept
    BY <1>3, <1>4, KnownKept
<1> QED
    BY <1>6, <1>7, <1>8, <1>9 DEF EntryInv

(* The first entry of an execution nothing was made for. *)
LEMMA FirstArrives ==
    ASSUME NEW e \in Executions, ~Used(e),
           due' = due \cup {FirstEntry(e)}, processing' = processing,
           \A w \in Workers, m \in QueuedExecution : Carried(w, m)' => Carried(w, m)
    PROVE  Arrives(FirstEntry(e))
<1> DEFINE n == FirstEntry(e)
<1>1. n \in QueuedExecution /\ n.exec = e
    BY FirstEntryType
<1>2. \A k \in QueuedExecution : k.exec = e => ~Known(k) /\ \A w \in Workers : ~Scanned(w, k)
    BY DEF Used
<1>3. \A k \in QueuedExecution : Known(k)' => Known(k) \/ k = n
    BY DEF Known
<1>4. n \notin processing /\ \A w \in Workers : ~Carried(w, n)
    BY <1>1, <1>2 DEF Known
<1> HIDE DEF n
<1>5. Arrives(n)
    BY <1>1, <1>2, <1>3, <1>4 DEF Arrives
<1> QED
    BY <1>5 DEF n

(* A worker gives its entry back under a later due_at. *)
LEMMA LaterArrives ==
    ASSUME TypeOK, EntryInv, NEW w \in Workers, NEW m \in QueuedExecution,
           NEW t \in LaterThan(m), step[w][m] # "none", SetStep(w, m, "none"),
           UNCHANGED <<pc, batch>>,
           due' = due \cup {[m EXCEPT !.dueAt = t]},
           processing' \subseteq processing, m \notin processing'
    PROVE  Arrives([m EXCEPT !.dueAt = t])
<1> DEFINE n == [m EXCEPT !.dueAt = t]
<1>1. n \in QueuedExecution
    BY LaterEntryType
<1>2. n.exec = m.exec /\ n.dueAt = t /\ t > m.dueAt /\ n # m /\ t \in Nat /\ m.dueAt \in Nat
    BY ConstantsAssumption DEF LaterThan, QueuedExecution, Stamps, NoDueAt
<1>3. due' = due \cup {n}
    OBVIOUS
<1> HIDE DEF n
<1>4. /\ step'[w][m] = "none"
      /\ \A v \in Workers, k \in QueuedExecution : v # w \/ k # m => step'[v][k] = step[v][k]
      /\ \A v \in Workers, k \in QueuedExecution : Recovering(v, k)' <=> Recovering(v, k)
    BY StepChanged DEF EntrySteps, Recovering
<1>5. Carried(w, m) /\ ~Recovering(w, m)
    BY DEF Carried, EntryInv, NoneRead
<1>6. /\ \A v \in Workers, k \in QueuedExecution : Carried(v, k)' => Carried(v, k)
      /\ \A v \in Workers : ~Carried(v, m)'
    BY <1>4, <1>5 DEF Carried, EntryInv, OneCarrier
<1>7. m \notin due /\ Known(m)
    BY <1>5 DEF Known, EntryInv, DueIsFree
<1>8. ~Known(n)
    BY <1>1, <1>2, <1>7 DEF EntryInv, OneEntryEach
<1>9. ~Known(m)' /\ \A k \in QueuedExecution : Known(k)' => Known(k) \/ k = n
    BY <1>2, <1>3, <1>6, <1>7 DEF Known
<1>10. \A k \in QueuedExecution : Known(k)' /\ k.exec = n.exec => k = n
    BY <1>2, <1>7, <1>9 DEF EntryInv, OneEntryEach
<1>11. n \notin processing' /\ \A v \in Workers : ~Carried(v, n)'
    BY <1>1, <1>6, <1>8 DEF Known
<1>12. ASSUME NEW v \in Workers, NEW k \in QueuedExecution, Scanned(v, k), k.exec = n.exec
       PROVE  k.dueAt < n.dueAt
    <2>1. m.dueAt >= k.dueAt
        BY <1>2, <1>7, <1>12 DEF EntryInv, ScanIsStale
    <2>2. k.dueAt \in Nat
        BY ConstantsAssumption DEF QueuedExecution, NoDueAt, Stamps
    <2> QED
        BY <1>2, <2>1, <2>2
<1>13. Arrives(n)
    BY <1>10, <1>11, <1>12 DEF Arrives
<1> QED
    BY <1>13 DEF n

LEMMA EntriesUntouched ==
    ASSUME TypeOK, EntryInv, UNCHANGED <<queueVars, pc, batch, step>>
    PROVE  EntryInv' /\ UsedKept
<1>1. \A w \in Workers, m \in QueuedExecution :
         /\ Recovering(w, m)' <=> Recovering(w, m)
         /\ Carried(w, m)' <=> Carried(w, m)
         /\ Scanned(w, m)' <=> Scanned(w, m)
    BY DEF Recovering, Carried, Scanned
<1>2. NothingNew({})
    BY <1>1 DEF NothingNew, queueVars
<1>3. NoneRead' /\ LeaseIsHeld'
    BY <1>1, <1>2 DEF EntryInv, NoneRead, LeaseIsHeld, queueVars, TypeOK, QueueTypeOK
<1> QED
    BY <1>2, <1>3, EntriesChange, NobodyNew

LEMMA RecoveryEntries ==
    ASSUME TypeOK, Discipline, EntryInv, NEW w \in Workers, Recovery(w)
    PROVE  EntryInv' /\ UsedKept
<1>1. CASE ReclaimScan(w)
    BY <1>1, ReclaimScanEntries
<1>2. CASE ReclaimRemove(w)
    BY <1>2, ReclaimRemoveEntries
<1>3. CASE RecoverDone(w)
    BY <1>3, LoopMoves DEF RecoverDone, LoopSteps
<1>4. ASSUME NEW m \in QueuedExecution, RecoverRead(w, m) PROVE EntryInv' /\ UsedKept
    BY <1>4, RecoverReadEntries
<1>5. ASSUME NEW m \in QueuedExecution, RecoverFail(w, m) \/ RecoverRetry(w, m)
      PROVE  EntryInv' /\ UsedKept
    <2>1. PICK s \in {"none", "requeue"} : SetStep(w, m, s)
        BY <1>5 DEF RecoverFail, RecoverRetry
    <2>2. /\ step[w][m] \in {"failing", "retrying"}
          /\ UNCHANGED <<pc, batch, due, processing, lapsed>>
        BY <1>5 DEF RecoverFail, RecoverRetry, queueVars
    <2>3. /\ s \in EntrySteps /\ step[w][m] # "none" /\ step[w][m] \notin Holding
          /\ s \in RecoverySteps
        BY <2>2 DEF EntrySteps, RecoverySteps, Holding
    <2> QED
        BY <2>1, <2>2, <2>3, EntryMoves, NobodyNew
<1>6. ASSUME NEW m \in QueuedExecution, RecoverEnqueue(w, m) PROVE EntryInv' /\ UsedKept
    <2>1. PICK t \in LaterThan(m) : Enqueue([m EXCEPT !.dueAt = t])
        BY <1>6 DEF RecoverEnqueue
    <2>2. /\ step[w][m] = "requeue" /\ SetStep(w, m, "none")
          /\ UNCHANGED <<pc, batch, processing, lapsed>>
          /\ due' = due \cup {[m EXCEPT !.dueAt = t]}
        BY <1>6, <2>1 DEF RecoverEnqueue, Enqueue
    <2>3. m \notin processing /\ Known(m)
        BY <2>2 DEF EntryInv, LeaseIsHeld, Carried, Holding, Known
    <2>4. Arrives([m EXCEPT !.dueAt = t]) /\ [m EXCEPT !.dueAt = t] \in QueuedExecution
        BY <2>2, <2>3, LaterArrives, LaterEntryType
    <2>5. EntryInv' /\ OnlyNew({[m EXCEPT !.dueAt = t]})
        BY <2>2, <2>4, EntryMoves DEF EntrySteps, RecoverySteps
    <2>6. [m EXCEPT !.dueAt = t].exec = m.exec /\ Used(m.exec)
        BY <2>3 DEF QueuedExecution, Used
    <2> QED
        BY <2>5, <2>6 DEF OnlyNew, UsedKept
<1> QED
    BY <1>1, <1>2, <1>3, <1>4, <1>5, <1>6 DEF Recovery

LEMMA PopEntries ==
    ASSUME TypeOK, Discipline, EntryInv, NEW w \in Workers, Pop(w)
    PROVE  EntryInv' /\ UsedKept
<1>1. CASE PopScan(w) \/ StartGather(w) \/ GatherDone(w)
    <2>1. PICK p \in {"idle", "popping", "gather"} : pc' = [pc EXCEPT ![w] = p]
        BY <1>1 DEF PopScan, StartGather, GatherDone
    <2>2. UNCHANGED <<step, queueVars>> /\ \A v \in Workers \ {w} : batch'[v] = batch[v]
        BY <1>1 DEF PopScan, StartGather, GatherDone, TypeOK
    <2> QED
        BY <2>1, <2>2, LoopMoves DEF LoopSteps
<1>2. ASSUME NEW m \in QueuedExecution, PopRemove(w, m) PROVE EntryInv' /\ UsedKept
    BY <1>2, PopRemoveEntries
<1>3. ASSUME NEW m \in QueuedExecution, PopLease(w, m) PROVE EntryInv' /\ UsedKept
    BY <1>3, PopLeaseEntries
<1> QED
    BY <1>1, <1>2, <1>3 DEF Pop

LEMMA ProcessEntries ==
    ASSUME TypeOK, EntryInv, NEW w \in Workers, NEW m \in QueuedExecution,
           Process(w, m), ~EnqueueNext(w, m)
    PROVE  EntryInv' /\ UsedKept
<1>1. CASE (TaskFails(w, m) \/ TaskReturns(w, m)) /\ Die(w)
    BY <1>1, DieEntries DEF TaskFails, TaskReturns
<1>2. CASE ReleaseEntry(w, m)
    <2>1. PICK t \in LaterThan(m) : Release(m, t)
        BY <1>2 DEF ReleaseEntry
    <2>2. /\ step[w][m] = "releasing" /\ SetStep(w, m, "none") /\ UNCHANGED <<pc, batch>>
          /\ due' = due \cup {[m EXCEPT !.dueAt = t]}
          /\ processing' = processing \ {m} /\ lapsed' = lapsed \ {m}
        BY <1>2, <2>1 DEF ReleaseEntry, Release
    <2>3. Arrives([m EXCEPT !.dueAt = t]) /\ [m EXCEPT !.dueAt = t] \in QueuedExecution
        BY <2>2, LaterArrives, LaterEntryType
    <2>4. EntryInv' /\ OnlyNew({[m EXCEPT !.dueAt = t]})
        BY <2>2, <2>3, EntryMoves DEF EntrySteps, RecoverySteps
    <2>5. [m EXCEPT !.dueAt = t].exec = m.exec /\ Used(m.exec)
        BY <2>2 DEF QueuedExecution, Used, Known, Carried
    <2> QED
        BY <2>4, <2>5 DEF OnlyNew, UsedKept
<1>3. CASE /\ ~((TaskFails(w, m) \/ TaskReturns(w, m)) /\ Die(w))
           /\ ~ReleaseEntry(w, m)
    <2>1. PICK s \in EntrySteps : 
             /\ SetStep(w, m, s)
             /\ s \in Holding \cup {"none"} \/ step[w][m] \notin Holding \/ m \notin processing'
        BY <1>3 DEF Process, ReadExecution, Claim, NotClaimable, TaskFails, AckEntry,
                    TaskReturns, AckCompleted, PutNextExecution, Ack, EntrySteps, Holding
    <2>2. /\ step[w][m] \notin RecoverySteps
          /\ UNCHANGED <<pc, batch, due>>
          /\ \/ UNCHANGED <<processing, lapsed>>
             \/ processing' = processing \ {m} /\ lapsed' = lapsed \ {m}
        BY <1>3 DEF Process, ReadExecution, Claim, NotClaimable, TaskFails, AckEntry,
                    TaskReturns, AckCompleted, PutNextExecution, Ack, RecoverySteps, queueVars
    <2>3. step[w][m] # "none"
        BY <2>2 DEF RecoverySteps
    <2> QED
        BY <2>1, <2>2, <2>3, EntryMoves, NobodyNew
<1> QED
    BY <1>1, <1>2, <1>3

LEMMA OtherEntries ==
    ASSUME ~Stalls, TypeOK, EntryInv, Old,
           \/ Scheduler
           \/ \E w \in Workers, m \in QueuedExecution : Heartbeat(w, m)
           \/ Environment
           \/ UNCHANGED vars
    PROVE  EntryInv' /\ UsedKept
<1>1. ASSUME NEW m \in QueuedExecution, LeaseLapses(m) PROVE EntryInv' /\ UsedKept
    BY <1>1, LapseEntries
<1>2. ASSUME NEW w \in Workers, CrashWorker(w) PROVE EntryInv' /\ UsedKept
    BY <1>2, DieEntries DEF CrashWorker
<1>3. ASSUME NEW w \in Workers, RestartWorker(w) PROVE EntryInv' /\ UsedKept
    BY <1>3, LoopMoves DEF RestartWorker, LoopSteps
<1>4. ASSUME NEW w \in Workers, NEW m \in QueuedExecution, Heartbeat(w, m) PROVE FALSE
    BY <1>4 DEF Heartbeat, EntryInv, LapsedIsFree, Carried
<1>5. CASE UNCHANGED <<queueVars, pc, batch, step>>
    BY <1>5, EntriesUntouched
<1>6. CASE Scheduler \/ UNCHANGED vars
    BY <1>5, <1>6 DEF Scheduler, SchedulerScan, SchedulerEnqueue, Old, workerVars, vars
<1>7. CASE Environment
    BY <1>1, <1>2, <1>3, <1>5, <1>7
       DEF Environment, Advance, Age, CrashScheduler, CrashApi, workerVars
<1> QED
    BY <1>4, <1>6, <1>7

-----------------------------------------------------------------------------
(* The first entry of each execution.                                      *)

LEMMA FirstsQuiet ==
    ASSUME FirstInv, UsedKept, UNCHANGED <<first, successors>>,
           \A j \in Jobs : api'[j] = "row" => api[j] = "row",
           \A w \in Workers, m \in QueuedExecution :
              step'[w][m] = "announcing" => step[w][m] = "announcing",
           \A e \in Executions : status'[e] = Absent <=> status[e] = Absent
    PROVE  FirstInv'
<1>1. \A e \in Executions : Announced(e)' => Announced(e)
    BY DEF Announced
<1>2. AbsentAreNew' /\ AnnouncedAreNew'
    BY <1>1 DEF FirstInv, AbsentAreNew, AnnouncedAreNew, UsedKept
<1>3. FirstsApart'
    BY DEF FirstInv, FirstsApart
<1> QED
    BY <1>2, <1>3 DEF FirstInv

(* The row of e is stored, which nothing was made for. *)
LEMMA RowIsNew ==
    ASSUME TypeOK, ChainInv, FirstInv, NEW e \in Executions, status[e] = Absent
    PROVE  /\ ~Used(e) /\ ~Announced(e) /\ \A f \in Executions : e \notin successors[f]
           /\ \A j \in Jobs : api[j] = "row" => first[j] # e
BY DEF FirstInv, AbsentAreNew, AnnouncedAreNew, Announced, ChainInv, SuccessorsStored

LEMMA PutFirstFirsts ==
    ASSUME TypeOK, ChainInv, FirstInv, UsedKept, NEW j \in Jobs, PutFirstExecution(j)
    PROVE  FirstInv'
<1>1. PICK e \in Executions : PutExecution(e) /\ first' = [first EXCEPT ![j] = e]
    BY DEF PutFirstExecution, NewExecution
<1>2. /\ status[e] = Absent /\ status'[e] # Absent
      /\ \A f \in Executions : f # e => status'[f] = status[f]
    BY <1>1 DEF PutExecution, Absent, TypeOK, StoreTypeOK
<1>3. /\ api'[j] = "row" /\ first'[j] = e
      /\ \A i \in Jobs : i # j => api'[i] = api[i] /\ first'[i] = first[i]
      /\ UNCHANGED <<step, successors>>
    BY <1>1 DEF PutFirstExecution, workerVars, historyVars, TypeOK
<1>4. /\ ~Used(e) /\ \A f \in Executions : e \notin successors[f]
      /\ \A i \in Jobs : api[i] = "row" => first[i] # e
    BY <1>2, RowIsNew
<1>5. \A f \in Executions : Announced(f)' => Announced(f) \/ f = e
    BY <1>3 DEF Announced
<1>6. AbsentAreNew' /\ AnnouncedAreNew'
    BY <1>2, <1>4, <1>5 DEF FirstInv, AbsentAreNew, AnnouncedAreNew, UsedKept
<1>7. FirstsApart'
    BY <1>3, <1>4 DEF FirstInv, FirstsApart
<1> QED
    BY <1>6, <1>7 DEF FirstInv

LEMMA PutNextFirsts ==
    ASSUME TypeOK, ChainInv, FirstInv, UsedKept, NEW w \in Workers, NEW m \in QueuedExecution,
           PutNextExecution(w, m)
    PROVE  FirstInv'
<1>1. CASE SetStep(w, m, "none") /\ UNCHANGED <<storeVars, successors>>
    <2>1. \A v \in Workers, n \in QueuedExecution :
             step'[v][n] = "announcing" => step[v][n] = "announcing"
        BY <1>1, StepChanged DEF EntrySteps
    <2> QED
        BY <1>1, <2>1, FirstsQuiet DEF PutNextExecution, storeVars
<1>2. ASSUME NEW e \in Executions, PutExecution(e),
             successors' = [successors EXCEPT ![m.exec] = @ \cup {e}],
             SetStep(w, m, "announcing")
      PROVE  FirstInv'
    <2>1. /\ status[e] = Absent /\ status'[e] # Absent
          /\ \A f \in Executions : f # e => status'[f] = status[f]
        BY <1>2 DEF PutExecution, Absent, TypeOK, StoreTypeOK
    <2>2. successors[m.exec] = {}
        BY DEF PutNextExecution, ChainInv, Owed, Owes
    <2>3. /\ successors'[m.exec] = {e}
          /\ \A f \in Executions : f # m.exec => successors'[f] = successors[f]
        BY <1>2, <2>2, ExecOfEntry DEF TypeOK
    <2>4. \A v \in Workers, n \in QueuedExecution :
             step'[v][n] = "announcing" => step[v][n] = "announcing" \/ n = m
        BY <1>2, StepChanged DEF EntrySteps
    <2>5. UNCHANGED <<api, first>>
        BY DEF PutNextExecution
    <2>6. /\ ~Used(e) /\ \A i \in Jobs : api[i] = "row" => first[i] # e
        BY <2>1, RowIsNew
    <2>7. \A f \in Executions : Announced(f)' => Announced(f) \/ f = e
        BY <2>3, <2>4, <2>5, ExecOfEntry DEF Announced
    <2>8. AbsentAreNew' /\ AnnouncedAreNew'
        BY <2>1, <2>6, <2>7 DEF FirstInv, AbsentAreNew, AnnouncedAreNew, UsedKept
    <2>9. FirstsApart'
        BY <2>3, <2>5, <2>6 DEF FirstInv, FirstsApart
    <2> QED
        BY <2>8, <2>9 DEF FirstInv
<1> QED
    BY <1>1, <1>2 DEF PutNextExecution, NewExecution

(* The entry is made: nobody else announces it. *)
LEMMA FirstEnters ==
    ASSUME TypeOK, FirstInv, NEW e \in Executions, status[e] # Absent,
           OnlyNew({FirstEntry(e)}), UNCHANGED <<first, successors, status>>,
           \A j \in Jobs : api'[j] = "row" => api[j] = "row" /\ first[j] # e,
           \A w \in Workers, m \in QueuedExecution : step'[w][m] = "announcing" =>
              step[w][m] = "announcing" /\ e \notin successors[m.exec]
    PROVE  FirstInv'
<1>1. \A f \in Executions : Announced(f)' => Announced(f) /\ f # e
    BY DEF Announced
<1>2. \A f \in Executions : Used(f)' => Used(f) \/ f = e
    BY FirstEntryType DEF OnlyNew
<1>3. AbsentAreNew' /\ AnnouncedAreNew'
    BY <1>1, <1>2 DEF FirstInv, AbsentAreNew, AnnouncedAreNew
<1>4. FirstsApart'
    BY DEF FirstInv, FirstsApart
<1> QED
    BY <1>3, <1>4 DEF FirstInv

LEMMA EnqueueFirstEntries ==
    ASSUME TypeOK, ChainInv, EntryInv, FirstInv, Old, NEW j \in Jobs, EnqueueFirst(j)
    PROVE  EntryInv' /\ FirstInv'
<1> DEFINE e == first[j]
<1>1. api[j] = "row" /\ e \in Executions /\ Announced(e)
    BY DEF EnqueueFirst, TypeOK, FirstMade, Stored, Announced
<1>2. status[e] # Absent /\ ~Used(e) /\ phase[e] = "aged"
    BY <1>1 DEF FirstInv, AnnouncedAreNew, Old
<1>3. /\ due' = due \cup {FirstEntry(e)}
      /\ UNCHANGED <<processing, lapsed, pc, batch, step, first, successors, status>>
    BY <1>2 DEF EnqueueFirst, EnqueueIfNearTerm, Enqueue, workerVars, historyVars, storeVars
<1>4. \A i \in Jobs : api'[i] = "row" => api[i] = "row" /\ i # j
    BY DEF EnqueueFirst, TypeOK
<1>5. \A i \in Jobs : api'[i] = "row" => first[i] # e
    BY <1>1, <1>4 DEF FirstInv, FirstsApart
<1>6. \A w \in Workers, m \in QueuedExecution : e \notin successors[m.exec]
    BY <1>1, ExecOfEntry DEF FirstInv, FirstsApart
<1> HIDE DEF e
<1>7. \A w \in Workers, m \in QueuedExecution :
         /\ Carried(w, m)' <=> Carried(w, m)
         /\ Scanned(w, m)' <=> Scanned(w, m)
         /\ Recovering(w, m)' <=> Recovering(w, m)
    BY <1>3 DEF Carried, Scanned, Recovering
<1>8. Arrives(FirstEntry(e)) /\ {FirstEntry(e)} \in SUBSET QueuedExecution
    BY <1>1, <1>2, <1>3, <1>7, FirstArrives, FirstEntryType
<1>9. NothingNew({FirstEntry(e)})
    BY <1>3, <1>7 DEF NothingNew
<1>10. NoneRead' /\ LeaseIsHeld'
    BY <1>3, <1>7 DEF EntryInv, NoneRead, LeaseIsHeld, TypeOK, QueueTypeOK
<1>11. EntryInv' /\ OnlyNew({FirstEntry(e)})
    BY <1>8, <1>9, <1>10, EntriesChange
<1> QED
    BY <1>1, <1>2, <1>3, <1>4, <1>5, <1>6, <1>11, FirstEnters

LEMMA EnqueueNextEntries ==
    ASSUME TypeOK, ChainInv, EntryInv, FirstInv, Old,
           NEW w \in Workers, NEW m \in QueuedExecution, EnqueueNext(w, m)
    PROVE  EntryInv' /\ FirstInv'
<1>1. PICK e \in successors[m.exec] : EnqueueIfNearTerm(e)
    BY DEF EnqueueNext
<1>2. /\ step[w][m] = "announcing" /\ SetStep(w, m, "none")
      /\ UNCHANGED <<pc, batch, api, first, status, successors>>
    BY DEF EnqueueNext, serviceVars, historyVars, storeVars
<1>3. e \in Executions /\ Announced(e)
    BY <1>1, <1>2, ExecOfEntry DEF Announced, TypeOK
<1>4. status[e] # Absent /\ ~Used(e) /\ phase[e] = "aged"
    BY <1>3 DEF FirstInv, AnnouncedAreNew, Old
<1>5. due' = due \cup {FirstEntry(e)} /\ UNCHANGED <<processing, lapsed>>
    BY <1>1, <1>4 DEF EnqueueIfNearTerm, Enqueue
<1>6. /\ step'[w][m] = "none"
      /\ \A v \in Workers, n \in QueuedExecution : v # w \/ n # m => step'[v][n] = step[v][n]
    BY <1>2, StepChanged DEF EntrySteps
<1>7. \A v \in Workers, n \in QueuedExecution : Carried(v, n)' => Carried(v, n)
    BY <1>2, <1>6 DEF Carried, Recovering
<1>8. Arrives(FirstEntry(e)) /\ {FirstEntry(e)} \in SUBSET QueuedExecution
    BY <1>3, <1>4, <1>5, <1>7, FirstArrives, FirstEntryType
<1>9. EntryInv' /\ OnlyNew({FirstEntry(e)})
    BY <1>2, <1>5, <1>8, EntryMoves DEF EntrySteps, RecoverySteps, Holding
<1>10. \A i \in Jobs : api'[i] = "row" => api[i] = "row" /\ first[i] # e
    BY <1>1, <1>2, ExecOfEntry DEF FirstInv, FirstsApart
<1>11. ASSUME NEW v \in Workers, NEW n \in QueuedExecution, step'[v][n] = "announcing"
       PROVE  step[v][n] = "announcing" /\ e \notin successors[n.exec]
    <2>1. v # w \/ n # m
        BY <1>6, <1>11
    <2>2. step[v][n] = "announcing"
        BY <1>6, <1>11, <2>1
    <2>3. n.exec # m.exec
        <3>1. Carried(w, m) /\ Carried(v, n)
            BY <1>2, <2>2 DEF Carried
        <3>2. Known(m) /\ Known(n)
            BY <3>1 DEF Known
        <3> QED
            BY <2>1, <3>1, <3>2 DEF EntryInv, OneEntryEach, OneCarrier
    <2> QED
        BY <1>1, <2>2, <2>3, ExecOfEntry DEF ChainInv, ChainIsLinear
<1> QED
    BY <1>2, <1>3, <1>4, <1>9, <1>10, <1>11, FirstEnters

(* Entries and first entries together, for every step.                     *)
LEMMA EntryStep ==
    ASSUME ~Stalls, TypeOK, Discipline, ChainInv, EntryInv, FirstInv, Old, [Next]_vars
    PROVE  EntryInv' /\ FirstInv'
<1>1. CASE Api
    <2> SUFFICES ASSUME NEW j \in Jobs,
                        PutJob(j) \/ PutFirstExecution(j) \/ EnqueueFirst(j)
                 PROVE  EntryInv' /\ FirstInv'
        BY <1>1 DEF Api
    <2>1. CASE PutJob(j)
        <3>1. UNCHANGED <<queueVars, pc, batch, step, first, successors, status>>
            BY <2>1 DEF PutJob, workerVars, storeVars, historyVars
        <3>2. EntryInv' /\ UsedKept
            BY <3>1, EntriesUntouched
        <3>3. \A i \in Jobs : api'[i] = "row" => api[i] = "row"
            BY <2>1 DEF PutJob, TypeOK
        <3> QED
            BY <3>1, <3>2, <3>3, FirstsQuiet
    <2>2. CASE PutFirstExecution(j)
        <3>1. EntryInv' /\ UsedKept
            BY <2>2, EntriesUntouched DEF PutFirstExecution, workerVars
        <3> QED
            BY <2>2, <3>1, PutFirstFirsts
    <2>3. CASE EnqueueFirst(j)
        BY <2>3, EnqueueFirstEntries
    <2> QED
        BY <2>1, <2>2, <2>3
<1>2. ASSUME NEW w \in Workers, Recovery(w) \/ Pop(w)
      PROVE  EntryInv' /\ FirstInv'
    <2>1. EntryInv' /\ UsedKept
        BY <1>2, RecoveryEntries, PopEntries
    <2>2. UNCHANGED <<api, first, successors>>
        BY <1>2 DEF Recovery, ReclaimScan, ReclaimRemove, RecoverDone, RecoverRead, RecoverFail,
           RecoverRetry, RecoverEnqueue, Pop, PopScan, StartGather, GatherDone, PopRemove,
           PopLease, serviceVars, historyVars
    <2>3. \A e \in Executions : status'[e] = Absent <=> status[e] = Absent
        BY <1>2, ExecOfEntry DEF Recovery, ReclaimScan, ReclaimRemove, RecoverDone, RecoverRead,
           RecoverFail, RecoverRetry, RecoverEnqueue, Pop, PopScan, StartGather, GatherDone,
           PopRemove, PopLease, MarkFailed, MarkRetrying, Transition, Conflict, FailedFrom,
           RetryingFrom, storeVars, Absent, TypeOK, StoreTypeOK
    <2>4. \A v \in Workers, n \in QueuedExecution :
             step'[v][n] = "announcing" => step[v][n] = "announcing"
        <3>1. CASE UNCHANGED step
            BY <3>1
        <3>2. ASSUME NEW m \in QueuedExecution,
                     NEW s \in {"none", "failing", "retrying", "requeue", "removed", "popped"},
                     SetStep(w, m, s)
              PROVE  \A v \in Workers, n \in QueuedExecution :
                        step'[v][n] = "announcing" => step[v][n] = "announcing"
            BY <3>2, StepChanged DEF EntrySteps
        <3> QED
            BY <1>2, <3>1, <3>2 DEF Recovery, ReclaimScan, ReclaimRemove, RecoverDone,
               RecoverRead, RecoverFail, RecoverRetry, RecoverEnqueue, RecoveryStep,
               Pop, PopScan, StartGather, GatherDone, PopRemove, PopLease
    <2> QED
        BY <2>1, <2>2, <2>3, <2>4, FirstsQuiet
<1>3. ASSUME NEW w \in Workers, NEW m \in QueuedExecution, Process(w, m)
      PROVE  EntryInv' /\ FirstInv'
    <2>1. CASE EnqueueNext(w, m)
        BY <2>1, EnqueueNextEntries
    <2>2. CASE PutNextExecution(w, m)
        <3>1. ~EnqueueNext(w, m)
            BY <2>2 DEF PutNextExecution, EnqueueNext
        <3>2. EntryInv' /\ UsedKept
            BY <1>3, <3>1, ProcessEntries
        <3> QED
            BY <2>2, <3>2, PutNextFirsts
    <2>3. CASE ~EnqueueNext(w, m) /\ ~PutNextExecution(w, m)
        <3>1. EntryInv' /\ UsedKept
            BY <1>3, <2>3, ProcessEntries
        <3>2. UNCHANGED <<api, first, successors>>
            BY <1>3, <2>3 DEF Process, ReadExecution, Claim, NotClaimable, TaskFails,
               ReleaseEntry, AckEntry, TaskReturns, AckCompleted, serviceVars, historyVars
        <3>3. \A e \in Executions : status'[e] = Absent <=> status[e] = Absent
            BY <1>3, <2>3, ExecOfEntry DEF Process, ReadExecution, Claim, NotClaimable, TaskFails,
               ReleaseEntry, AckEntry, TaskReturns, AckCompleted, MarkInProgress, MarkFailed,
               MarkRetrying, MarkCompleted, Transition, Conflict, InProgressFrom, FailedFrom,
               RetryingFrom, CompletedFrom, storeVars, Absent, TypeOK, StoreTypeOK
        <3>4. \A v \in Workers, n \in QueuedExecution :
                 step'[v][n] = "announcing" => step[v][n] = "announcing"
            <4>1. CASE Die(w)
                BY <4>1, StepDies
            <4>2. ASSUME NEW s \in EntrySteps \ {"announcing"}, SetStep(w, m, s)
                  PROVE  \A v \in Workers, n \in QueuedExecution :
                            step'[v][n] = "announcing" => step[v][n] = "announcing"
                BY <4>2, StepChanged
            <4>3. \/ Die(w)
                  \/ \E s \in EntrySteps \ {"announcing"} : SetStep(w, m, s)
                BY <1>3, <2>3 DEF Process, ReadExecution, Claim, NotClaimable, TaskFails,
                   ReleaseEntry, AckEntry, TaskReturns, AckCompleted, EntrySteps
            <4> QED
                BY <4>1, <4>2, <4>3
        <3> QED
            BY <3>1, <3>2, <3>3, <3>4, FirstsQuiet
    <2> QED
        BY <2>1, <2>2, <2>3
<1>4. CASE \/ Scheduler
           \/ \E w \in Workers, m \in QueuedExecution : Heartbeat(w, m)
           \/ Environment
           \/ UNCHANGED vars
    <2>1. EntryInv' /\ UsedKept
        BY <1>4, OtherEntries
    <2>2. UNCHANGED <<first, successors, status>>
        BY <1>4 DEF Scheduler, SchedulerScan, SchedulerEnqueue, Heartbeat, Environment, Advance, Age,
           LeaseLapses, CrashWorker, RestartWorker, CrashScheduler, CrashApi, serviceVars,
           historyVars, storeVars, vars
    <2>3. \A j \in Jobs : api'[j] = "row" => api[j] = "row"
        BY <1>4 DEF Scheduler, SchedulerScan, SchedulerEnqueue, Heartbeat, Environment, Advance, Age,
           LeaseLapses, CrashWorker, RestartWorker, CrashScheduler, CrashApi, serviceVars, vars,
           TypeOK
    <2>4. \A v \in Workers, n \in QueuedExecution :
             step'[v][n] = "announcing" => step[v][n] = "announcing"
        <3>1. UNCHANGED step \/ \E w \in Workers : Die(w)
            BY <1>4 DEF Scheduler, SchedulerScan, SchedulerEnqueue, Heartbeat, Environment,
               Advance, Age, LeaseLapses, CrashWorker, RestartWorker, CrashScheduler, CrashApi,
               workerVars, vars
        <3> QED
            BY <3>1, StepDies
    <2> QED
        BY <2>1, <2>2, <2>3, <2>4, FirstsQuiet
<1> QED
    BY <1>1, <1>2, <1>3, <1>4 DEF Next

(* Every row is older than the lookback from the beginning. *)
LEMMA OldStep ==
    ASSUME OneEntryOnly, TypeOK, Old, [Next]_vars
    PROVE  Old'
<1>1. ASSUME NEW e \in Executions, NEW j, NEW p \in StartPhases, NewExecution(e, j, p),
             UNCHANGED pendingScan
      PROVE  Old'
    BY <1>1 DEF NewExecution, PutExecution, OneEntryOnly, Old, TypeOK, StoreTypeOK
<1>2. ASSUME UNCHANGED <<pendingScan, phase>>,
             \A e \in Executions : status'[e] # Absent => status[e] # Absent
      PROVE  Old'
    BY <1>2 DEF Old
<1>3. CASE Api
    BY <1>1, <1>2, <1>3 DEF Api, PutJob, PutFirstExecution, EnqueueFirst, storeVars
<1>4. CASE Scheduler
    <2>1. DueExecutions = {}
        BY DEF DueExecutions, Old, Absent
    <2> QED
        BY <1>2, <1>4, <2>1 DEF Scheduler, SchedulerScan, SchedulerEnqueue, Old, storeVars,
           serviceVars
<1>5. ASSUME NEW w \in Workers, Recovery(w) \/ Pop(w) PROVE Old'
    <2>1. UNCHANGED <<pendingScan, phase>>
        BY <1>5 DEF Recovery, ReclaimScan, ReclaimRemove, RecoverDone, RecoverRead, RecoverFail,
           RecoverRetry, RecoverEnqueue, Pop, PopScan, StartGather, GatherDone, PopRemove,
           PopLease, serviceVars
    <2>2. \A e \in Executions : status'[e] # Absent => status[e] # Absent
        BY <1>5, ExecOfEntry DEF Recovery, ReclaimScan, ReclaimRemove, RecoverDone, RecoverRead,
           RecoverFail, RecoverRetry, RecoverEnqueue, Pop, PopScan, StartGather, GatherDone,
           PopRemove, PopLease, MarkFailed, MarkRetrying, Transition, Conflict, FailedFrom,
           RetryingFrom, storeVars, Absent, TypeOK, StoreTypeOK
    <2> QED
        BY <1>2, <2>1, <2>2
<1>6. ASSUME NEW w \in Workers, NEW m \in QueuedExecution, Process(w, m) PROVE Old'
    <2>1. CASE PutNextExecution(w, m)
        BY <1>1, <1>2, <2>1 DEF PutNextExecution, storeVars
    <2>2. CASE ~PutNextExecution(w, m)
        <3>1. UNCHANGED <<pendingScan, phase>>
            BY <1>6, <2>2 DEF Process, ReadExecution, Claim, NotClaimable, TaskFails,
               ReleaseEntry, AckEntry, TaskReturns, AckCompleted, EnqueueNext, serviceVars
        <3>2. \A e \in Executions : status'[e] # Absent => status[e] # Absent
            BY <1>6, <2>2, ExecOfEntry DEF Process, ReadExecution, Claim, NotClaimable, TaskFails,
               ReleaseEntry, AckEntry, TaskReturns, AckCompleted, EnqueueNext, MarkInProgress,
               MarkFailed, MarkRetrying, MarkCompleted, Transition, Conflict, InProgressFrom,
               FailedFrom, RetryingFrom, CompletedFrom, storeVars, Absent, TypeOK,
               StoreTypeOK
        <3> QED
            BY <1>2, <3>1, <3>2
    <2> QED
        BY <2>1, <2>2
<1>7. CASE \/ \E w \in Workers, m \in QueuedExecution : Heartbeat(w, m)
           \/ Environment \/ UNCHANGED vars
    BY <1>2, <1>7 DEF Heartbeat, Environment, Advance, Age, LeaseLapses, CrashWorker, RestartWorker,
       CrashScheduler, CrashApi, Old, Absent, serviceVars, storeVars, vars
<1> QED
    BY <1>3, <1>4, <1>5, <1>6, <1>7 DEF Next

-----------------------------------------------------------------------------
(* The attempts of a row count its claims.                                 *)

(* No claim: a row to be claimed again has an attempt left, and whoever    *)
(* has read a row has its count.                                           *)
LEMMA AttemptsQuiet ==
    ASSUME AttemptInv, UNCHANGED <<runs, attempt>>,
           \A e \in Executions :
              /\ status'[e] \in {"PENDING", "RETRYING"} =>
                    status[e] \in {"PENDING", "RETRYING"} \/ attempt[e] < MaxAttempts
              /\ status'[e] = Absent => status[e] = Absent,
           \A w \in Workers, m \in QueuedExecution :
              /\ step'[w][m] \in {"read", "running"} =>
                    \/ step[w][m] \in {"read", "running"} /\ seen'[w][m] = seen[w][m]
                    \/ seen'[w][m] = attempt[m.exec]
              /\ step'[w][m] = "retrying" =>
                    step[w][m] = "retrying" \/ attempt[m.exec] < MaxAttempts
    PROVE  AttemptInv'
<1>1. AttemptsCounted'
    BY DEF AttemptInv, AttemptsCounted
<1>2. AttemptsKnown'
    BY DEF AttemptInv, AttemptsKnown
<1> QED
    BY <1>1, <1>2 DEF AttemptInv

LEMMA AttemptsEntry ==
    ASSUME TypeOK, AttemptInv, NEW w \in Workers, NEW m \in QueuedExecution,
           NEW s \in EntrySteps \ {"read", "running"}, SetStep(w, m, s),
           s = "retrying" => attempt[m.exec] < MaxAttempts,
           UNCHANGED seen \/ Forget(w, m), UNCHANGED <<runs, attempt>>,
           \A e \in Executions :
              /\ status'[e] \in {"PENDING", "RETRYING"} =>
                    status[e] \in {"PENDING", "RETRYING"} \/ attempt[e] < MaxAttempts
              /\ status'[e] = Absent => status[e] = Absent
    PROVE  AttemptInv'
<1>1. /\ step'[w][m] = s
      /\ \A v \in Workers, n \in QueuedExecution : v # w \/ n # m => step'[v][n] = step[v][n]
    BY StepChanged
<1>2. \A v \in Workers, n \in QueuedExecution : v # w \/ n # m => seen'[v][n] = seen[v][n]
    BY DEF Forget, TypeOK
<1> QED
    BY <1>1, <1>2, AttemptsQuiet

LEMMA AttemptsDie ==
    ASSUME TypeOK, AttemptInv, NEW w \in Workers, Die(w), UNCHANGED <<runs, attempt, status>>
    PROVE  AttemptInv'
<1>1. \A v \in Workers \ {w} : seen'[v] = seen[v]
    BY DEF Die, TypeOK
<1>2. \A v \in Workers, n \in QueuedExecution : v = w => step'[v][n] = "none"
    BY StepDies
<1>3. \A v \in Workers, n \in QueuedExecution : v # w => step'[v][n] = step[v][n]
    BY StepDies
<1> QED
    BY <1>1, <1>2, <1>3, AttemptsQuiet

LEMMA AttemptsRow ==
    ASSUME TypeOK, AttemptInv, FirstInv, NEW e \in Executions, PutExecution(e),
           UNCHANGED <<runs, seen>>,
           \A w \in Workers, m \in QueuedExecution :
              /\ step'[w][m] \in {"read", "running"} => step[w][m] \in {"read", "running"}
              /\ step'[w][m] = "retrying" => step[w][m] = "retrying"
    PROVE  AttemptInv'
<1>1. status[e] = Absent /\ attempt[e] = 0
    BY DEF PutExecution, AttemptInv, AttemptsCounted
<1>2. attempt' = attempt
    BY <1>1 DEF PutExecution, TypeOK, StoreTypeOK
<1>3. /\ status'[e] = "PENDING"
      /\ \A f \in Executions : f # e => status'[f] = status[f]
    BY DEF PutExecution, TypeOK, StoreTypeOK
<1>4. attempt[e] < MaxAttempts
    BY <1>1, ConstantsAssumption
<1> QED
    BY <1>1, <1>2, <1>3, <1>4, AttemptsQuiet DEF Absent

(* The only claimant of an execution has read its present count. *)
LEMMA AttemptsClaim ==
    ASSUME TypeOK, EntryInv, AttemptInv, NEW w \in Workers, NEW m \in QueuedExecution,
           Claim(w, m)
    PROVE  AttemptInv'
<1> DEFINE e == m.exec
<1>1. /\ step[w][m] = "read" /\ SetStep(w, m, "running")
      /\ status[e] \in {"PENDING", "RETRYING"}
      /\ status' = [status EXCEPT ![e] = "IN_PROGRESS"]
      /\ attempt' = [attempt EXCEPT ![e] = seen[w][m] + 1]
      /\ runs' = [runs EXCEPT ![e] = @ + 1]
      /\ seen' = [seen EXCEPT ![w][m] = @ + 1]
    BY DEF Claim, MarkInProgress, Transition, Conflict, InProgressFrom
<1>2. e \in Executions
    BY ExecOfEntry
<1>3. seen[w][m] = attempt[e] /\ runs[e] = attempt[e] /\ attempt[e] < MaxAttempts
    BY <1>1, <1>2 DEF AttemptInv, AttemptsCounted, AttemptsKnown
<1>4. /\ attempt[e] \in Nat /\ MaxAttempts \in Nat
      /\ attempt'[e] = attempt[e] + 1 /\ runs'[e] = attempt[e] + 1
      /\ status'[e] = "IN_PROGRESS" /\ seen'[w][m] = attempt[e] + 1
    BY <1>1, <1>2, <1>3, ConstantsAssumption DEF TypeOK, StoreTypeOK
<1>5. \A f \in Executions : f # e =>
         attempt'[f] = attempt[f] /\ runs'[f] = runs[f] /\ status'[f] = status[f]
    BY <1>1 DEF TypeOK, StoreTypeOK
<1>6. /\ step'[w][m] = "running"
      /\ \A v \in Workers, n \in QueuedExecution : v # w \/ n # m =>
            step'[v][n] = step[v][n] /\ seen'[v][n] = seen[v][n]
    <2>1. \A v \in Workers, n \in QueuedExecution : v # w \/ n # m => seen'[v][n] = seen[v][n]
        BY <1>1 DEF TypeOK
    <2> QED
        BY <1>1, <2>1, StepChanged DEF EntrySteps
<1>7. ASSUME NEW v \in Workers, NEW n \in QueuedExecution, v # w \/ n # m, step[v][n] # "none"
      PROVE  n.exec # e
    <2>1. Carried(w, m) /\ Carried(v, n)
        BY <1>1, <1>7 DEF Carried
    <2>2. Known(m) /\ Known(n)
        BY <2>1 DEF Known
    <2> QED
        BY <1>7, <2>1, <2>2 DEF EntryInv, OneEntryEach, OneCarrier
<1> HIDE DEF e
<1>8. AttemptsCounted'
    BY <1>3, <1>4, <1>5 DEF AttemptInv, AttemptsCounted, Absent
<1>9. ASSUME NEW v \in Workers, NEW n \in QueuedExecution
      PROVE  /\ step'[v][n] \in {"read", "running"} => seen'[v][n] = attempt'[n.exec]
             /\ step'[v][n] = "retrying" => attempt'[n.exec] < MaxAttempts
    <2>1. CASE v = w /\ n = m
        BY <1>4, <1>6, <2>1 DEF e
    <2>2. CASE v # w \/ n # m
        <3>1. step'[v][n] = step[v][n] /\ seen'[v][n] = seen[v][n]
            BY <1>6, <2>2
        <3>2. step[v][n] # "none" => attempt'[n.exec] = attempt[n.exec]
            BY <1>5, <1>7, <2>2, ExecOfEntry
        <3> QED
            BY <3>1, <3>2 DEF AttemptInv, AttemptsKnown
    <2> QED
        BY <2>1, <2>2
<1> QED
    BY <1>8, <1>9 DEF AttemptInv, AttemptsKnown

LEMMA AttemptStep ==
    ASSUME TypeOK, EntryInv, FirstInv, AttemptInv, [Next]_vars
    PROVE  AttemptInv'
<1> USE ExecOfEntry
<1>1. CASE Api
    <2>1. ASSUME NEW j \in Jobs, PutJob(j) \/ EnqueueFirst(j) PROVE AttemptInv'
        BY <2>1, AttemptsQuiet DEF PutJob, EnqueueFirst, storeVars, workerVars, historyVars
    <2>2. ASSUME NEW j \in Jobs, PutFirstExecution(j) PROVE AttemptInv'
        BY <2>2, AttemptsRow DEF PutFirstExecution, NewExecution, workerVars, historyVars
    <2> QED
        BY <1>1, <2>1, <2>2 DEF Api
<1>2. ASSUME NEW w \in Workers, Recovery(w) \/ Pop(w) PROVE AttemptInv'
    <2>1. CASE ReclaimScan(w) \/ ReclaimRemove(w) \/ RecoverDone(w) \/ PopScan(w)
               \/ StartGather(w) \/ GatherDone(w)
        BY <2>1, AttemptsQuiet DEF ReclaimScan, ReclaimRemove, RecoverDone, PopScan, StartGather,
           GatherDone, storeVars, historyVars
    <2>2. ASSUME NEW m \in QueuedExecution,
                 RecoverRead(w, m) \/ RecoverEnqueue(w, m) \/ PopRemove(w, m) \/ PopLease(w, m)
          PROVE  AttemptInv'
        <3>1. PICK s \in {"none", "failing", "retrying", "requeue", "removed", "popped"} :
                 SetStep(w, m, s) /\ (s = "retrying" => ~(attempt[m.exec] >= MaxAttempts))
            BY <2>2 DEF RecoverRead, RecoverEnqueue, PopRemove, PopLease, RecoveryStep
        <3>2. s = "retrying" => attempt[m.exec] < MaxAttempts
            BY <3>1, ConstantsAssumption DEF TypeOK, StoreTypeOK
        <3>3. UNCHANGED <<seen, runs, attempt, status>>
            BY <2>2 DEF RecoverRead, RecoverEnqueue, PopRemove, PopLease, storeVars, historyVars
        <3> QED
            BY <3>1, <3>2, <3>3, AttemptsEntry DEF EntrySteps
    <2>3. ASSUME NEW m \in QueuedExecution, RecoverFail(w, m) \/ RecoverRetry(w, m)
          PROVE  AttemptInv'
        <3>1. PICK s \in {"none", "requeue"} : SetStep(w, m, s)
            BY <2>3 DEF RecoverFail, RecoverRetry
        <3>2. UNCHANGED <<seen, runs, attempt>>
            BY <2>3 DEF RecoverFail, RecoverRetry, MarkFailed, MarkRetrying, storeVars, historyVars
        <3>3. \/ status' = status
              \/ status' = [status EXCEPT ![m.exec] = "FAILED"]
              \/ /\ step[w][m] = "retrying" /\ status' = [status EXCEPT ![m.exec] = "RETRYING"]
            BY <2>3 DEF RecoverFail, RecoverRetry, MarkFailed, MarkRetrying, Transition, storeVars
        <3>4. step[w][m] = "retrying" => attempt[m.exec] < MaxAttempts
            BY DEF AttemptInv, AttemptsKnown
        <3>5. \A e \in Executions :
                 /\ status'[e] \in {"PENDING", "RETRYING"} =>
                       status[e] \in {"PENDING", "RETRYING"} \/ attempt[e] < MaxAttempts
                 /\ status'[e] = Absent => status[e] = Absent
            BY <3>3, <3>4 DEF TypeOK, StoreTypeOK, Absent
        <3> QED
            BY <3>1, <3>2, <3>5, AttemptsEntry DEF EntrySteps
    <2> QED
        BY <1>2, <2>1, <2>2, <2>3 DEF Recovery, Pop
<1>3. ASSUME NEW w \in Workers, NEW m \in QueuedExecution, Process(w, m) PROVE AttemptInv'
    <2>1. CASE Claim(w, m)
        BY <2>1, AttemptsClaim
    <2>2. CASE ReadExecution(w, m)
        <3>1. /\ step'[w][m] = "read" /\ seen'[w][m] = attempt[m.exec]
              /\ UNCHANGED <<runs, attempt, status>>
            BY <2>2, StepChanged
               DEF ReadExecution, EntrySteps, storeVars, historyVars, TypeOK
        <3>2. SetStep(w, m, "read") /\ seen' = [seen EXCEPT ![w][m] = attempt[m.exec]]
            BY <2>2 DEF ReadExecution
        <3>3. \A v \in Workers, n \in QueuedExecution : v # w \/ n # m =>
                 seen'[v][n] = seen[v][n]
            BY <3>2 DEF TypeOK
        <3>4. \A v \in Workers, n \in QueuedExecution : v # w \/ n # m =>
                 step'[v][n] = step[v][n]
            BY <3>2, StepChanged DEF EntrySteps
        <3> QED
            BY <3>1, <3>3, <3>4, AttemptsQuiet
    <2>3. CASE NotClaimable(w, m) \/ ReleaseEntry(w, m) \/ AckEntry(w, m) \/ AckCompleted(w, m)
               \/ EnqueueNext(w, m)
        <3>1. PICK s \in {"none", "acking", "chaining"} : SetStep(w, m, s)
            BY <2>3 DEF NotClaimable, ReleaseEntry, AckEntry, AckCompleted, EnqueueNext
        <3>2. UNCHANGED <<runs, attempt, status>> /\ (UNCHANGED seen \/ Forget(w, m))
            BY <2>3 DEF NotClaimable, ReleaseEntry, AckEntry, AckCompleted, EnqueueNext,
               storeVars, historyVars
        <3> QED
            BY <3>1, <3>2, AttemptsEntry DEF EntrySteps
    <2>4. CASE TaskFails(w, m) \/ TaskReturns(w, m)
        <3>1. CASE UNCHANGED storeVars /\ Die(w)
            BY <2>4, <3>1, AttemptsDie DEF TaskFails, TaskReturns, storeVars, historyVars
        <3>2. CASE ~(UNCHANGED storeVars /\ Die(w))
            <4>1. PICK s \in {"acking", "releasing", "completed"} : SetStep(w, m, s)
                BY <2>4, <3>2 DEF TaskFails, TaskReturns
            <4>2. /\ Forget(w, m) /\ UNCHANGED <<runs, attempt>>
                  /\ \/ status' = [status EXCEPT ![m.exec] = "FAILED"]
                     \/ status' = [status EXCEPT ![m.exec] = "COMPLETED"]
                     \/ /\ ~(seen[w][m] >= MaxAttempts)
                        /\ status' = [status EXCEPT ![m.exec] = "RETRYING"]
                BY <2>4, <3>2 DEF TaskFails, TaskReturns, MarkFailed, MarkRetrying, MarkCompleted,
                   Transition, historyVars
            <4>3. seen[w][m] = attempt[m.exec] /\ seen[w][m] \in Nat
                BY <2>4 DEF TaskFails, TaskReturns, AttemptInv, AttemptsKnown, TypeOK
            <4>4. ~(seen[w][m] >= MaxAttempts) => attempt[m.exec] < MaxAttempts
                BY <4>3, ConstantsAssumption
            <4>5. \A e \in Executions :
                     /\ status'[e] \in {"PENDING", "RETRYING"} =>
                           status[e] \in {"PENDING", "RETRYING"} \/ attempt[e] < MaxAttempts
                     /\ status'[e] = Absent => status[e] = Absent
                BY <4>2, <4>4 DEF TypeOK, StoreTypeOK, Absent
            <4> QED
                BY <4>1, <4>2, <4>5, AttemptsEntry DEF EntrySteps
        <3> QED
            BY <3>1, <3>2
    <2>5. CASE PutNextExecution(w, m)
        <3>1. PICK s \in {"none", "announcing"} : SetStep(w, m, s)
            BY <2>5 DEF PutNextExecution
        <3>2. UNCHANGED <<seen, runs>>
            BY <2>5 DEF PutNextExecution
        <3>3. \A v \in Workers, n \in QueuedExecution :
                 /\ step'[v][n] \in {"read", "running"} => step[v][n] \in {"read", "running"}
                 /\ step'[v][n] = "retrying" => step[v][n] = "retrying"
            BY <3>1, StepChanged DEF EntrySteps
        <3>4. UNCHANGED <<status, attempt>> \/ \E e \in Executions : PutExecution(e)
            BY <2>5 DEF PutNextExecution, NewExecution, storeVars
        <3>5. CASE UNCHANGED <<status, attempt>>
            BY <3>2, <3>3, <3>5, AttemptsQuiet
        <3>6. CASE \E e \in Executions : PutExecution(e)
            BY <3>2, <3>3, <3>6, AttemptsRow
        <3> QED
            BY <3>4, <3>5, <3>6
    <2> QED
        BY <1>3, <2>1, <2>2, <2>3, <2>4, <2>5 DEF Process
<1>4. CASE \/ Scheduler
           \/ \E w \in Workers, m \in QueuedExecution : Heartbeat(w, m)
           \/ Environment
           \/ UNCHANGED vars
    <2>1. UNCHANGED <<runs, attempt, status>>
        BY <1>4 DEF Scheduler, SchedulerScan, SchedulerEnqueue, Heartbeat, Environment, Advance, Age,
           LeaseLapses, CrashWorker, RestartWorker, CrashScheduler, CrashApi, historyVars,
           storeVars, vars
    <2>2. UNCHANGED <<step, seen>> \/ \E w \in Workers : Die(w)
        BY <1>4 DEF Scheduler, SchedulerScan, SchedulerEnqueue, Heartbeat, Environment, Advance, Age,
           LeaseLapses, CrashWorker, RestartWorker, CrashScheduler, CrashApi, workerVars, vars
    <2>3. CASE UNCHANGED <<step, seen>>
        BY <2>1, <2>3, AttemptsQuiet
    <2>4. CASE \E w \in Workers : Die(w)
        BY <2>1, <2>4, AttemptsDie
    <2> QED
        BY <2>2, <2>3, <2>4
<1> QED
    BY <1>1, <1>2, <1>3, <1>4 DEF Next

-----------------------------------------------------------------------------
(* What one entry per execution gives.                                     *)

LoneInv == TypeOK /\ Discipline /\ ChainInv /\ OneEntryInv

LEMMA LoneInit == Init => LoneInv
<1> SUFFICES ASSUME Init PROVE LoneInv
    OBVIOUS
<1>1. TypeOK /\ ChainInv /\ Discipline
    BY TypeInit, ChainInit DEF Init, Discipline, StepsIn, Idle
<1>2. \A w \in Workers, m \in QueuedExecution :
         step[w][m] = "none" /\ ~Recovering(w, m) /\ ~Scanned(w, m)
    BY DEF Init, Idle, Recovering, Scanned
<1>3. \A m \in QueuedExecution : ~Known(m)
    BY <1>2 DEF Init, QueueInit, Known, Carried
<1>4. EntryInv
    BY <1>2, <1>3 DEF Init, QueueInit, EntryInv, OneEntryEach, DueIsFree, OneCarrier, LeaseIsHeld,
       LapsedIsFree, NoneRead, ScanIsStale, Carried
<1>5. \A e \in Executions : ~Used(e) /\ ~Announced(e)
    BY <1>2, <1>3 DEF Used, Announced, Init
<1>6. FirstInv
    BY <1>5 DEF Init, FirstInv, AbsentAreNew, AnnouncedAreNew, FirstsApart
<1>7. Old
    BY DEF Init, StoreInit, Old
<1>8. AttemptInv
    BY <1>2, ConstantsAssumption
       DEF Init, StoreInit, AttemptInv, AttemptsCounted, AttemptsKnown, Absent
<1> QED
    BY <1>1, <1>4, <1>6, <1>7, <1>8 DEF LoneInv, OneEntryInv

LEMMA LoneStep ==
    ASSUME ~Stalls, LoneInv, [Next]_vars, Old'
    PROVE  LoneInv'
BY TypeStep, DisciplineStep, ChainStep, EntryStep, AttemptStep DEF LoneInv, OneEntryInv

(* Where rows are old, a scan finds nothing. *)
LEMMA NothingScanned ==
    ASSUME Old, [Next]_vars
    PROVE  pendingScan' = {}
<1>1. DueExecutions = {}
    BY DEF DueExecutions, Old, Absent
<1>2. ASSUME Scheduler \/ CrashScheduler PROVE pendingScan' = {}
    BY <1>1, <1>2 DEF Scheduler, SchedulerScan, SchedulerEnqueue, CrashScheduler, Old
<1>3. ASSUME NEW w \in Workers, Recovery(w) \/ Pop(w) PROVE UNCHANGED pendingScan
    BY <1>3 DEF Recovery, ReclaimScan, ReclaimRemove, RecoverDone, RecoverRead, RecoverFail,
       RecoverRetry, RecoverEnqueue, Pop, PopScan, StartGather, GatherDone, PopRemove, PopLease
<1>4. ASSUME NEW w \in Workers, NEW m \in QueuedExecution, Process(w, m) \/ Heartbeat(w, m)
      PROVE  UNCHANGED pendingScan
    BY <1>4 DEF Process, ReadExecution, Claim, NotClaimable, TaskFails, ReleaseEntry, AckEntry,
       TaskReturns, AckCompleted, PutNextExecution, EnqueueNext, Heartbeat
<1>5. ASSUME Api \/ Environment, ~CrashScheduler PROVE UNCHANGED pendingScan
    BY <1>5 DEF Api, PutJob, PutFirstExecution, EnqueueFirst, Environment, Advance, Age,
       LeaseLapses, CrashWorker, RestartWorker, CrashApi
<1> QED
    BY <1>2, <1>3, <1>4, <1>5 DEF Next, Old, vars

LEMMA LoneMeans == LoneInv => RunsBounded /\ OneRunner
<1>1. OneEntryInv => RunsBounded
    BY DEF OneEntryInv, AttemptInv, AttemptsCounted, RunsBounded
<1>2. OneEntryInv => OneRunner
    <2> SUFFICES ASSUME OneEntryInv,
                        NEW v \in Workers, NEW w \in Workers,
                        NEW m \in QueuedExecution, NEW n \in QueuedExecution,
                        step[v][m] = "running", step[w][n] = "running", m.exec = n.exec
                 PROVE  v = w /\ m = n
        BY DEF OneRunner
    <2>1. Carried(v, m) /\ Carried(w, n)
        BY DEF Carried
    <2>2. Known(m) /\ Known(n)
        BY <2>1 DEF Known
    <2> QED
        BY <2>1, <2>2 DEF OneEntryInv, EntryInv, OneEntryEach, OneCarrier
<1> QED
    BY <1>1, <1>2 DEF LoneInv

(* When the scheduler queues nothing twice, whatever crashes, lost leases  *)
(* and recoveries there are: one entry of each execution is in one place,  *)
(* its first one is made once, and the row's attempts count its claims.    *)
THEOREM OneEntryInvariant ==
    ASSUME OneEntryOnly
    PROVE  Spec => []LoneInv
<1>1. LoneInv /\ [Next]_vars => LoneInv'
    BY LoneStep, OldStep DEF LoneInv, OneEntryInv, OneEntryOnly
<1> QED
    BY <1>1, LoneInit, PTL DEF Spec

(* Then no execution is run more than max_attempts times, for any number   *)
(* of crashes, and a recovery never runs one beside its worker.            *)
THEOREM OneEntryRunsOnce ==
    ASSUME OneEntryOnly
    PROVE  Spec => [](RunsBounded /\ OneRunner)
BY OneEntryInvariant, LoneMeans, PTL

(* The same as the run checks it, beside its other scenarios: where every  *)
(* row is older than the lookback, crashes and recoveries never make a     *)
(* task run more than max_attempts times.                                  *)
THEOREM OneEntryBounded ==
    ASSUME ~Stalls
    PROVE  ScenarioSpec => []OneEntryRunsBounded
<1> DEFINE LoneScenario == scenario = "one entry" => LoneInv
<1>1. ScenarioInit => LoneScenario
    BY LoneInit DEF ScenarioInit
<1>2. LoneScenario /\ [ScenarioNext]_<<scenario, vars>> => LoneScenario'
    <2> SUFFICES ASSUME LoneScenario, [ScenarioNext]_<<scenario, vars>>, scenario' = "one entry"
                 PROVE  LoneInv'
        OBVIOUS
    <2>1. scenario = "one entry" /\ [Next]_vars
        BY DEF ScenarioNext
    <2>2. LoneInv /\ Old
        BY <2>1 DEF LoneInv, OneEntryInv
    <2>3. pendingScan' = {}
        BY <2>1, <2>2, NothingScanned
    <2>4. CASE ScenarioNext
        <3>1. RowsIn({"aged"})'
            BY <2>1, <2>4 DEF ScenarioNext, Permitted
        <3>2. Old'
            BY <2>3, <3>1 DEF Old, RowsIn
        <3> QED
            BY <2>1, <2>2, <3>2, LoneStep
    <2>5. CASE UNCHANGED vars
        <3>1. Old'
            BY <2>2, <2>5 DEF Old, vars, storeVars, serviceVars
        <3> QED
            BY <2>1, <2>2, <3>1, LoneStep
    <2> QED
        BY <2>4, <2>5
<1>3. LoneScenario => OneEntryRunsBounded
    BY LoneMeans DEF OneEntryRunsBounded
<1> QED
    BY <1>1, <1>2, <1>3, PTL DEF ScenarioSpec
=============================================================================
