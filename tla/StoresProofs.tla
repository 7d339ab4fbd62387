---------------------------- MODULE StoresProofs ----------------------------
(***************************************************************************)
(* Theorems about the two stores that keep several structures in step.     *)
(*                                                                         *)
(* The video table, for any number of threads, videos, transactions and    *)
(* processes: heap and index, the counts and the row locks, and what the   *)
(* log of one process says about its calls, so that replaying it finds     *)
(* exactly the committed increments.                                       *)
(*                                                                         *)
(* The waiting queue of an event, for any number of sessions, join and     *)
(* admit requests, admissions and crashes.  The argument is one about      *)
(* data: the list of InMemoryQueueStore is the sorted enumeration of its   *)
(* map of scores, and the map of positions is the inverse of the list.     *)
(* Each operation is shown to keep that, and ranks, pops and removals of   *)
(* the sorted set are read off it.                                         *)
(***************************************************************************)
EXTENDS MCStores, FiniteSetTheorems, WellFoundedInduction, SequenceTheorems, TLAPS

-----------------------------------------------------------------------------
(* What recovery computes is a count for every video.                      *)

LEMMA LessThanWellFounded ==
    IsWellFoundedOn({ss \in Nat \X Nat : ss[1] < ss[2]}, Nat)
BY NatLessThanWellFounded DEF OpToRel

(* A non-empty set of positions of a log has a greatest one. *)
LEMMA MaxIsMember ==
    ASSUME NEW n \in Nat, NEW S \in SUBSET (1..n), S # {}
    PROVE  Max(S) \in S /\ \A j \in S : Max(S) >= j
<1> DEFINE FromEnd == {n - i : i \in S}
           NatLess == {ss \in Nat \X Nat : ss[1] < ss[2]}
<1>1. FromEnd \subseteq Nat
    OBVIOUS
<1>2. FromEnd # {}
    OBVIOUS
<1>3. PICK x \in FromEnd : \A y \in FromEnd : <<y, x>> \notin NatLess
  <2> HIDE DEF FromEnd, NatLess
  <2>1. IsWellFoundedOn(NatLess, Nat)
    BY LessThanWellFounded DEF NatLess
  <2> QED
    BY <1>1, <1>2, <2>1, WFMin
<1>4. \A y \in FromEnd : y >= x
  <2> TAKE y \in FromEnd
  <2>1. x \in Nat /\ y \in Nat
    BY <1>1
  <2>2. ~(y < x)
    BY <1>3, <2>1
  <2> QED
    BY <2>1, <2>2
<1>5. PICK i \in S : x = n - i
    BY <1>3
<1>6. \A j \in S : i >= j
  <2> TAKE j \in S
  <2>1. n - j \in FromEnd
    OBVIOUS
  <2>2. n - j >= n - i
    BY <1>4, <1>5, <2>1
  <2>3. i \in Nat /\ j \in Nat
    OBVIOUS
  <2> HIDE DEF FromEnd, NatLess
  <2> QED
    BY <2>2, <2>3
<1> QED
    BY <1>6 DEF Max

LEMMA SeedCountsType == SeedCounts \in [Videos -> Nat]
BY ConstantsAssumption DEF SeedCounts, Seeded

LEMMA RecoveredType ==
    ASSUME NEW log \in Seq(Records)
    PROVE  Recovered(log) \in [Videos -> Nat]
<1> SUFFICES ASSUME NEW v \in Videos, Replayed(log, v) # {}
             PROVE  log[Max(Replayed(log, v))].new \in Nat
    BY SeedCountsType DEF Recovered
<1>1. Replayed(log, v) \in SUBSET (1..Len(log)) /\ Len(log) \in Nat
    BY DEF Replayed
<1>2. Max(Replayed(log, v)) \in 1..Len(log)
    BY <1>1, MaxIsMember
<1>3. log[Max(Replayed(log, v))] \in Records
    BY <1>2
<1> QED
    BY <1>3 DEF Records

-----------------------------------------------------------------------------
(* The inductive invariant.                                                *)

(* Where a thread is between two critical sections, and what it knows. *)
Working == {"reading", "logging", "applying", "committing"}

(* increment_view and update_title hold the row's lock from lock_row on. *)
HoldsLock ==
    \A t \in Threads : pc[t] \in Working /\ op[t] # "demo" => rowLock[video[t]] = t

(* The demo call only appends records. *)
DemoOnlyLogs == \A t \in Threads : op[t] = "demo" => pc[t] = "logging"

(* The row of a call is stored. *)
RowIsStored == \A t \in Threads : pc[t] # "idle" => video[t] \in stored

(* The count an increment has read is still the row's until it applies. *)
OldIsCurrent ==
    \A t \in Threads :
        op[t] = "increment" /\ pc[t] \in {"logging", "applying"} => old[t] = views[video[t]]

(* A call that appends records has some left. *)
RecordsLeft ==
    \A t \in Threads :
        /\ pc[t] \in {"idle", "locking", "reading"} => logged[t] = 0
        /\ pc[t] = "logging" => logged[t] < Len(Script[op[t]])

(* A row shows the committed increments and the one in flight. *)
CountsInFlight ==
    \A v \in stored : views[v] = expected[v] + (IF InFlight(v) = {} THEN 0 ELSE 1)

IInv ==
    /\ TypeOK
    /\ HoldsLock
    /\ DemoOnlyLogs
    /\ RowIsStored
    /\ OldIsCurrent
    /\ RecordsLeft
    /\ CountsInFlight
    /\ IndexMatchesHeap

LEMMA ScriptLengths ==
    ASSUME NEW o \in DOMAIN Script
    PROVE  /\ o \in {"increment", "title", "demo"}
           /\ Len(Script[o]) \in 1..4
           /\ \A i \in 1..Len(Script[o]) : Script[o][i] \in RecordTypes
BY DEF Script, RecordTypes

LEMMA AnyVideoType == AnyVideo \in Videos
BY ConstantsAssumption DEF AnyVideo

LEMMA InitIInv == Init => IInv
<1> SUFFICES ASSUME Init PROVE IInv
    OBVIOUS
<1>1. TypeOK
  <2>1. viewIndex \subseteq Nat \X Videos
    BY ConstantsAssumption DEF Init, Seeded
  <2>2. file \in Seq(Records)
    BY DEF Init
  <2>3. op \in [Threads -> DOMAIN Script]
    BY DEF Init, Script
  <2>4. stored \subseteq Videos /\ views \in [Videos -> Nat]
    BY ConstantsAssumption, SeedCountsType DEF Init, Seeded
  <2>5. rowLock \in [Videos -> Threads \cup {NoThread}] /\ lastTx \in Nat /\ logging \in BOOLEAN
    BY DEF Init
  <2>6. pc \in [Threads -> Steps] /\ logged \in [Threads -> 0..4] /\ video \in [Threads -> Videos]
    BY AnyVideoType DEF Init, Steps
  <2>7. tx \in [Threads -> Nat] /\ old \in [Threads -> Nat] /\ lives \in Nat /\ appended \in BOOLEAN
    BY DEF Init
  <2>8. expected \in [Videos -> Nat] /\ durable \in [Videos -> Nat]
    BY SeedCountsType DEF Init
  <2> QED
    BY <2>1, <2>2, <2>3, <2>4, <2>5, <2>6, <2>7, <2>8 DEF TypeOK
<1>2. HoldsLock /\ DemoOnlyLogs /\ RowIsStored /\ OldIsCurrent /\ RecordsLeft
    BY DEF Init, HoldsLock, DemoOnlyLogs, RowIsStored, OldIsCurrent, RecordsLeft, Working
<1>3. \A v \in Videos : InFlight(v) = {}
    BY DEF Init, InFlight
<1>4. CountsInFlight
    BY <1>1, <1>3 DEF Init, CountsInFlight, TypeOK
<1>5. IndexMatchesHeap
    BY ConstantsAssumption DEF Init, IndexMatchesHeap, SeedCounts, Seeded
<1> QED
    BY <1>1, <1>2, <1>4, <1>5 DEF IInv

-----------------------------------------------------------------------------
(* Types are kept by every step.                                           *)

LEMMA AppendType ==
    ASSUME TypeOK, NEW t \in Threads, NEW type \in RecordTypes, AppendRecord(t, type)
    PROVE  file' \in Seq(Records) /\ appended' \in BOOLEAN
<1> DEFINE rec == [life |-> lives, tx |-> tx[t], type |-> type, video |-> video[t],
                   new |-> IF op[t] = "title" THEN 0 ELSE old[t] + 1]
<1>1. rec \in Records
    BY DEF TypeOK, Records
<1>2. CASE logging
  <2>1. file' = Append(file, rec) /\ appended' \in BOOLEAN
    BY <1>2 DEF AppendRecord, TypeOK
  <2>2. Append(file, rec) \in Seq(Records)
    BY <1>1 DEF TypeOK
  <2> QED
    BY <2>1, <2>2
<1>3. CASE ~logging
    BY <1>3 DEF AppendRecord, TypeOK
<1> QED
    BY <1>2, <1>3

(* The record a call appends next, and how many there are. *)
LEMMA ScriptAt ==
    ASSUME TypeOK, RecordsLeft, NEW t \in Threads, pc[t] = "logging"
    PROVE  /\ Script[op[t]][logged[t] + 1] \in RecordTypes
           /\ logged[t] \in 0..3
           /\ Len(Script[op[t]]) \in 1..4
<1>1. op[t] \in DOMAIN Script /\ logged[t] \in 0..4
    BY DEF TypeOK
<1>2. logged[t] < Len(Script[op[t]])
    BY DEF RecordsLeft
<1>3. Len(Script[op[t]]) \in 1..4
    BY <1>1, ScriptLengths
<1>4. logged[t] + 1 \in 1..Len(Script[op[t]]) /\ logged[t] \in 0..3
  <2>1. \A k \in 0..4, n \in 1..4 : k < n => k + 1 \in 1..n /\ k \in 0..3
    OBVIOUS
  <2> QED
    BY <1>1, <1>2, <1>3, <2>1
<1> QED
    BY <1>1, <1>3, <1>4, ScriptLengths

LEMMA CountOneMore ==
    ASSUME NEW counts \in [Videos -> Nat], NEW v \in Videos
    PROVE  [counts EXCEPT ![v] = @ + 1] \in [Videos -> Nat]
OBVIOUS

LEMMA FirstRecord ==
    ASSUME TypeOK, NEW t \in Threads
    PROVE  0 < Len(Script[op[t]])
<1>1. Len(Script[op[t]]) \in 1..4
    BY ScriptLengths DEF TypeOK
<1>2. \A n \in 1..4 : 0 < n
    OBVIOUS
<1> QED
    BY <1>1, <1>2

LEMMA ReturnType ==
    ASSUME TypeOK, NEW t \in Threads, Return(t)
    PROVE  /\ pc' \in [Threads -> Steps]
           /\ op' \in [Threads -> DOMAIN Script]
           /\ logged' \in [Threads -> 0..4]
           /\ video' \in [Threads -> Videos]
           /\ tx' \in [Threads -> Nat]
           /\ old' \in [Threads -> Nat]
<1>1. "increment" \in DOMAIN Script
    BY DEF Script
<1> QED
    BY <1>1, AnyVideoType DEF TypeOK, Return, Steps

LEMMA NewProcessType ==
    ASSUME TypeOK, NEW counts \in [Videos -> Nat], logging' \in BOOLEAN, NewProcess(counts)
    PROVE  TypeOK'
<1>1. stored' \subseteq Videos /\ viewIndex' \subseteq Nat \X Videos
    BY ConstantsAssumption DEF NewProcess, Seeded
<1>2. /\ op' \in [Threads -> DOMAIN Script]
      /\ pc' \in [Threads -> Steps]
      /\ logged' \in [Threads -> 0..4]
    BY DEF NewProcess, Script, Steps
<1>3. /\ video' \in [Threads -> Videos]
      /\ tx' \in [Threads -> Nat]
      /\ old' \in [Threads -> Nat]
    BY AnyVideoType DEF NewProcess
<1>4. /\ views' \in [Videos -> Nat]
      /\ expected' \in [Videos -> Nat]
      /\ rowLock' \in [Videos -> Threads \cup {NoThread}]
    BY DEF NewProcess
<1>5. /\ lastTx' \in Nat
      /\ lives' \in Nat
      /\ file' \in Seq(Records)
      /\ appended' \in BOOLEAN
      /\ durable' \in [Videos -> Nat]
    BY DEF NewProcess, TypeOK
<1> QED
    BY <1>1, <1>2, <1>3, <1>4, <1>5 DEF TypeOK

LEMMA StepType ==
    ASSUME TypeOK, RecordsLeft, [Next]_vars
    PROVE  TypeOK'
<1>1. ASSUME NEW t \in Threads, NEW v \in Videos, NEW o \in {"increment", "title"}, Call(t, v, o)
      PROVE  TypeOK'
  <2>1. o \in DOMAIN Script
    BY DEF Script
  <2> QED
    BY <1>1, <2>1 DEF Call, TypeOK, Steps, heapVars
<1>2. ASSUME NEW t \in Threads, NEW v \in Videos, CallDemo(t, v)
      PROVE  TypeOK'
  <2>1. "demo" \in DOMAIN Script
    BY DEF Script
  <2>2. views[v] \in Nat /\ lastTx + 1 \in Nat
    BY DEF TypeOK
  <2> QED
    BY <1>2, <2>1, <2>2 DEF CallDemo, TypeOK, Steps, heapVars
<1>3. ASSUME NEW t \in Threads, LockRow(t)
      PROVE  TypeOK'
    BY SMTT(30), <1>3 DEF LockRow, TypeOK, Steps, heapVars
<1>4. ASSUME NEW t \in Threads, ReadCount(t)
      PROVE  TypeOK'
    BY <1>4 DEF ReadCount, TypeOK, Steps, heapVars
<1>5. ASSUME NEW t \in Threads, LogRecord(t)
      PROVE  TypeOK'
  <2>1. Script[op[t]][logged[t] + 1] \in RecordTypes /\ logged[t] \in 0..3
    BY <1>5, ScriptAt DEF LogRecord
  <2>2. file' \in Seq(Records) /\ appended' \in BOOLEAN
    BY <1>5, <2>1, AppendType DEF LogRecord
  <2>3. logged[t] + 1 \in 0..4
    BY <2>1
  <2>4. CASE Return(t)
    BY <1>5, <2>2, <2>4, ReturnType DEF LogRecord, TypeOK, heapVars
  <2>5. CASE ~Return(t)
    BY <1>5, <2>2, <2>3, <2>5 DEF LogRecord, TypeOK, Steps, heapVars
  <2> QED
    BY <2>4, <2>5
<1>6. ASSUME NEW t \in Threads, Apply(t)
      PROVE  TypeOK'
    BY SMTT(30), <1>6 DEF Apply, TypeOK, Steps
<1>7. ASSUME NEW t \in Threads, Commit(t)
      PROVE  TypeOK'
  <2>1. file' \in Seq(Records) /\ appended' \in BOOLEAN
    BY <1>7, AppendType DEF Commit, RecordTypes
  <2>2. rowLock' \in [Videos -> Threads \cup {NoThread}]
    BY <1>7 DEF Commit, TypeOK
  <2>3. expected' \in [Videos -> Nat]
    <3>1. expected' = expected \/ expected' = [expected EXCEPT ![video[t]] = @ + 1]
      BY <1>7 DEF Commit
    <3>2. expected \in [Videos -> Nat] /\ video[t] \in Videos
      BY DEF TypeOK
    <3> QED
      BY <3>1, <3>2, CountOneMore
  <2>4. durable' \in [Videos -> Nat]
    <3>1. durable' = durable \/ durable' = [durable EXCEPT ![video[t]] = @ + 1]
      BY <1>7 DEF Commit
    <3> QED
      BY <3>1, CountOneMore DEF TypeOK
  <2> QED
    BY <1>7, <2>1, <2>2, <2>3, <2>4, ReturnType DEF Commit, TypeOK, heapVars
<1>8. ASSUME NEW v \in Videos, InsertVideo(v, 0)
      PROVE  TypeOK'
    BY <1>8 DEF InsertVideo, TypeOK, callVars
<1>9. ASSUME Recover
      PROVE  TypeOK'
  <2>1. Recovered(file) \in [Videos -> Nat]
    BY RecoveredType DEF TypeOK
  <2> QED
    BY <1>9, <2>1, NewProcessType DEF Recover
<1>10. ASSUME Reopen
       PROVE  TypeOK'
    BY <1>10, SeedCountsType, NewProcessType DEF Reopen
<1>11. CASE UNCHANGED vars
    BY <1>11 DEF TypeOK, vars, heapVars, callVars
<1> QED
    BY <1>1, <1>2, <1>3, <1>4, <1>5, <1>6, <1>7, <1>8, <1>9, <1>10, <1>11 DEF Next, Step

-----------------------------------------------------------------------------
(* Every step keeps the rest of the invariant.                             *)

Protocol == HoldsLock /\ DemoOnlyLogs /\ RowIsStored /\ RecordsLeft

(* Increments past their read of one row are one thread: both hold its     *)
(* lock.                                                                   *)
LEMMA OneWriter ==
    ASSUME HoldsLock, NEW s \in Threads, NEW t \in Threads,
           pc[s] \in Working, pc[t] \in Working,
           op[s] # "demo", op[t] # "demo", video[s] = video[t]
    PROVE  s = t
BY DEF HoldsLock

LEMMA StepProtocol ==
    ASSUME TypeOK, TypeOK', Protocol, [Next]_vars
    PROVE  Protocol'
<1> USE DEF Protocol
<1>1. ASSUME NEW t \in Threads, NEW v \in Videos, NEW o \in {"increment", "title"}, Call(t, v, o)
      PROVE  Protocol'
  <2>1. HoldsLock'
    BY <1>1 DEF Call, TypeOK, HoldsLock, Working, heapVars
  <2>2. DemoOnlyLogs' /\ RowIsStored'
    BY <1>1 DEF Call, TypeOK, DemoOnlyLogs, RowIsStored, heapVars
  <2>3. RecordsLeft'
    BY <1>1 DEF Call, TypeOK, RecordsLeft
  <2> QED
    BY <2>1, <2>2, <2>3
<1>2. ASSUME NEW t \in Threads, NEW v \in Videos, CallDemo(t, v)
      PROVE  Protocol'
  <2>1. HoldsLock'
    BY <1>2 DEF CallDemo, TypeOK, HoldsLock, Working, heapVars
  <2>2. DemoOnlyLogs' /\ RowIsStored'
    BY <1>2 DEF CallDemo, TypeOK, DemoOnlyLogs, RowIsStored, heapVars
  <2>3. Len(Script["demo"]) = 2
    BY DEF Script
  <2>4. logged[t] < Len(Script["demo"])
    BY <1>2, <2>3 DEF CallDemo, RecordsLeft
  <2>5. RecordsLeft'
    BY <1>2, <2>4 DEF CallDemo, TypeOK, RecordsLeft
  <2> QED
    BY <2>1, <2>2, <2>5
<1>3. ASSUME NEW t \in Threads, LockRow(t)
      PROVE  Protocol'
  <2>1. HoldsLock'
    <3> SUFFICES ASSUME NEW s \in Threads, pc'[s] \in Working, op'[s] # "demo"
                 PROVE  rowLock'[video'[s]] = s
      BY DEF HoldsLock
    <3>1. video' = video /\ video[s] \in Videos /\ video[t] \in Videos
      BY <1>3 DEF LockRow, TypeOK
    <3>2. CASE s = t
      BY <1>3, <3>1, <3>2 DEF LockRow, TypeOK
    <3>3. CASE s # t
      <4>1. rowLock[video[s]] = s
        BY <1>3, <3>3 DEF LockRow, TypeOK, HoldsLock
      <4>2. video[s] # video[t]
        BY <1>3, <4>1, ConstantsAssumption DEF LockRow
      <4> QED
        BY <1>3, <3>1, <4>1, <4>2 DEF LockRow, TypeOK
    <3> QED
      BY <3>2, <3>3
  <2>2. DemoOnlyLogs' /\ RowIsStored'
    BY <1>3 DEF LockRow, TypeOK, DemoOnlyLogs, RowIsStored, heapVars
  <2>3. 0 < Len(Script[op[t]])
    BY FirstRecord
  <2>4. RecordsLeft'
    BY <1>3, <2>3 DEF LockRow, TypeOK, RecordsLeft
  <2> QED
    BY <2>1, <2>2, <2>4
<1>4. ASSUME NEW t \in Threads, ReadCount(t)
      PROVE  Protocol'
  <2>1. HoldsLock'
    BY <1>4 DEF ReadCount, TypeOK, HoldsLock, Working
  <2>2. DemoOnlyLogs' /\ RowIsStored'
    BY <1>4 DEF ReadCount, TypeOK, DemoOnlyLogs, RowIsStored, heapVars
  <2>3. 0 < Len(Script[op[t]])
    BY FirstRecord
  <2>4. RecordsLeft'
    BY <1>4, <2>3 DEF ReadCount, TypeOK, RecordsLeft
  <2> QED
    BY <2>1, <2>2, <2>4
<1>5. ASSUME NEW t \in Threads, LogRecord(t)
      PROVE  Protocol'
  <2>1. CASE logged[t] + 1 < Len(Script[op[t]])
    <3>1. HoldsLock' /\ DemoOnlyLogs' /\ RowIsStored'
      BY <1>5, <2>1 DEF LogRecord, TypeOK, HoldsLock, DemoOnlyLogs, RowIsStored, heapVars
    <3>2. RecordsLeft'
      BY <1>5, <2>1 DEF LogRecord, TypeOK, RecordsLeft
    <3> QED
      BY <3>1, <3>2
  <2>2. CASE Return(t)
    <3>1. HoldsLock'
      BY <1>5, <2>2 DEF LogRecord, Return, TypeOK, HoldsLock, Working
    <3>2. DemoOnlyLogs' /\ RowIsStored'
      BY <1>5, <2>2 DEF LogRecord, Return, TypeOK, DemoOnlyLogs, RowIsStored, heapVars
    <3>3. RecordsLeft'
      BY <1>5, <2>2 DEF LogRecord, Return, TypeOK, RecordsLeft
    <3> QED
      BY <3>1, <3>2, <3>3
  <2>3. CASE ~Return(t) /\ ~(logged[t] + 1 < Len(Script[op[t]]))
    <3>1. HoldsLock'
      BY <1>5, <2>3 DEF LogRecord, TypeOK, HoldsLock, Working
    <3>2. DemoOnlyLogs' /\ RowIsStored'
      BY <1>5, <2>3 DEF LogRecord, TypeOK, DemoOnlyLogs, RowIsStored, heapVars
    <3>3. RecordsLeft'
      BY <1>5, <2>3 DEF LogRecord, TypeOK, RecordsLeft
    <3> QED
      BY <3>1, <3>2, <3>3
  <2> QED
    BY <2>1, <2>2, <2>3
<1>6. ASSUME NEW t \in Threads, Apply(t)
      PROVE  Protocol'
  <2>1. HoldsLock' /\ DemoOnlyLogs' /\ RowIsStored'
    BY <1>6 DEF Apply, TypeOK, HoldsLock, DemoOnlyLogs, RowIsStored, Working
  <2>2. RecordsLeft'
    BY <1>6 DEF Apply, TypeOK, RecordsLeft
  <2> QED
    BY <2>1, <2>2
<1>7. ASSUME NEW t \in Threads, Commit(t)
      PROVE  Protocol'
  <2>1. op[t] # "demo"
    BY <1>7 DEF Commit, DemoOnlyLogs
  <2>2. HoldsLock'
    BY <1>7, <2>1, OneWriter DEF Commit, Return, TypeOK, HoldsLock, Working
  <2>3. DemoOnlyLogs' /\ RowIsStored'
    BY <1>7 DEF Commit, Return, TypeOK, DemoOnlyLogs, RowIsStored, heapVars
  <2>4. RecordsLeft'
    BY <1>7 DEF Commit, Return, TypeOK, RecordsLeft
  <2> QED
    BY <2>2, <2>3, <2>4
<1>8. ASSUME NEW v \in Videos, InsertVideo(v, 0)
      PROVE  Protocol'
    BY <1>8 DEF InsertVideo, callVars, HoldsLock, DemoOnlyLogs, RowIsStored, RecordsLeft
<1>9. ASSUME NEW counts, NewProcess(counts)
      PROVE  Protocol'
    BY <1>9 DEF NewProcess, HoldsLock, DemoOnlyLogs, RowIsStored, RecordsLeft, Working
<1>10. CASE UNCHANGED vars
    BY <1>10 DEF vars, heapVars, callVars, HoldsLock, DemoOnlyLogs, RowIsStored, RecordsLeft
<1> QED
    BY <1>1, <1>2, <1>3, <1>4, <1>5, <1>6, <1>7, <1>8, <1>9, <1>10
       DEF Next, Step, Recover, Reopen

Heap == OldIsCurrent /\ CountsInFlight /\ IndexMatchesHeap

(* A step that leaves the heap alone, takes no thread into or out of       *)
(* "committing" and lets every increment past its read keep what it read.  *)
LEMMA HeapUntouched ==
    ASSUME Heap, UNCHANGED <<heapVars, expected>>,
           \A s \in Threads : /\ pc'[s] = "committing" <=> pc[s] = "committing"
                              /\ pc[s] = "committing" => op'[s] = op[s] /\ video'[s] = video[s],
           OldIsCurrent'
    PROVE  Heap'
<1>1. \A v : InFlight(v)' = InFlight(v)
    BY DEF InFlight
<1>2. CountsInFlight'
    BY <1>1 DEF Heap, CountsInFlight, heapVars
<1>3. IndexMatchesHeap'
    BY DEF Heap, IndexMatchesHeap, heapVars
<1> QED
    BY <1>2, <1>3 DEF Heap

LEMMA StepHeap ==
    ASSUME TypeOK, TypeOK', Protocol, Heap, [Next]_vars
    PROVE  Heap'
<1>1. ASSUME NEW t \in Threads, NEW v \in Videos, NEW o \in {"increment", "title"}, Call(t, v, o)
      PROVE  Heap'
  <2>1. OldIsCurrent'
    BY <1>1 DEF Call, TypeOK, Heap, OldIsCurrent, heapVars
  <2> QED
    BY <1>1, <2>1, HeapUntouched DEF Call, TypeOK
<1>2. ASSUME NEW t \in Threads, NEW v \in Videos, CallDemo(t, v)
      PROVE  Heap'
  <2>1. OldIsCurrent'
    BY <1>2 DEF CallDemo, TypeOK, Heap, OldIsCurrent, heapVars
  <2> QED
    BY <1>2, <2>1, HeapUntouched DEF CallDemo, TypeOK
<1>3. ASSUME NEW t \in Threads, LockRow(t)
      PROVE  Heap'
  <2>1. OldIsCurrent'
    BY <1>3 DEF LockRow, TypeOK, Heap, OldIsCurrent, heapVars
  <2> QED
    BY <1>3, <2>1, HeapUntouched DEF LockRow, TypeOK
<1>4. ASSUME NEW t \in Threads, ReadCount(t)
      PROVE  Heap'
  <2>1. OldIsCurrent'
    BY <1>4 DEF ReadCount, TypeOK, Heap, OldIsCurrent, heapVars
  <2> QED
    BY <1>4, <2>1, HeapUntouched DEF ReadCount, TypeOK
<1>5. ASSUME NEW t \in Threads, LogRecord(t)
      PROVE  Heap'
  <2>1. /\ pc[t] = "logging" /\ pc'[t] # "committing"
        /\ \A s \in Threads \ {t} : pc'[s] = pc[s] /\ op'[s] = op[s] /\ video'[s] = video[s]
                                    /\ old'[s] = old[s]
        /\ UNCHANGED <<heapVars, expected>>
    BY ZenonT(60), <1>5 DEF LogRecord, Return, TypeOK
  <2>2. pc'[t] = "idle" \/ (op'[t] = op[t] /\ video'[t] = video[t] /\ old'[t] = old[t])
    BY <1>5 DEF LogRecord, Return, TypeOK
  <2>3. OldIsCurrent'
    BY <2>1, <2>2 DEF Heap, OldIsCurrent, heapVars
  <2> QED
    BY <2>1, <2>3, HeapUntouched
<1>6. ASSUME NEW t \in Threads, Apply(t)
      PROVE  Heap'
  <2>1. CASE op[t] # "increment"
    <3>1. UNCHANGED <<heapVars, expected, op, video, old>>
      BY <1>6, <2>1 DEF Apply, heapVars
    <3>2. OldIsCurrent'
      BY <1>6, <3>1 DEF Apply, TypeOK, Heap, OldIsCurrent, heapVars
    <3>3. \A v : InFlight(v)' = InFlight(v)
      BY <1>6, <2>1, <3>1 DEF Apply, TypeOK, InFlight
    <3> QED
      BY <3>1, <3>2, <3>3 DEF Heap, CountsInFlight, IndexMatchesHeap, heapVars
  <2>2. CASE op[t] = "increment"
    <3>0. PICK w \in Videos : w = video[t]
      BY DEF TypeOK
    <3>1. /\ w \in stored /\ w \in Videos
          /\ old[t] = views[w] /\ views[w] \in Nat
          /\ UNCHANGED <<stored, expected, op, video, old>>
          /\ views' = [views EXCEPT ![w] = old[t] + 1]
          /\ viewIndex' = (viewIndex \ {<<old[t], w>>}) \cup {<<old[t] + 1, w>>}
          /\ pc' = [pc EXCEPT ![t] = "committing"]
      BY <1>6, <2>2, <3>0 DEF Apply, TypeOK, Protocol, RowIsStored, Heap, OldIsCurrent
    <3>2. ASSUME NEW s \in Threads, s # t, op[s] = "increment", pc[s] \in Working
          PROVE  video[s] # w
      BY <1>6, <2>2, <3>0, <3>2, OneWriter DEF Apply, Protocol, Working
    <3>3. OldIsCurrent'
      BY <3>0, <3>1, <3>2 DEF TypeOK, Heap, OldIsCurrent, Working
    <3>4. InFlight(w) = {} /\ InFlight(w)' = {t}
      BY <1>6, <2>2, <3>0, <3>1, <3>2 DEF Apply, TypeOK, InFlight, Working
    <3>5. \A v \in Videos \ {w} : InFlight(v)' = InFlight(v)
      BY <3>0, <3>1 DEF TypeOK, InFlight
    <3>6. CountsInFlight'
      <4> SUFFICES ASSUME NEW v \in stored
                   PROVE  views'[v] = expected[v] + (IF InFlight(v)' = {} THEN 0 ELSE 1)
        BY <3>1 DEF CountsInFlight
      <4>1. v \in Videos /\ expected[v] \in Nat
        BY DEF TypeOK
      <4>2. CASE v = w
        <5>1. views[w] = expected[w] + 0
          BY <3>4, <4>2 DEF Heap, CountsInFlight
        <5>2. views'[w] = views[w] + 1
          BY <3>1 DEF TypeOK
        <5> QED
          BY <3>4, <4>1, <4>2, <5>1, <5>2
      <4>3. CASE v # w
        BY <3>1, <3>5, <4>1, <4>3 DEF TypeOK, Heap, CountsInFlight
      <4> QED
        BY <4>2, <4>3
    <3>7. IndexMatchesHeap'
      <4>1. viewIndex = {<<views[v], v>> : v \in stored}
        BY DEF Heap, IndexMatchesHeap
      <4>2. views'[w] = old[t] + 1 /\ \A v \in stored \ {w} : views'[v] = views[v]
        BY <3>1 DEF TypeOK
      <4> QED
        BY <3>1, <4>1, <4>2 DEF IndexMatchesHeap
    <3> QED
      BY <3>3, <3>6, <3>7 DEF Heap
  <2> QED
    BY <2>1, <2>2
<1>7. ASSUME NEW t \in Threads, Commit(t)
      PROVE  Heap'
  <2>0. PICK w \in Videos : w = video[t]
    BY DEF TypeOK
  <2>1. /\ pc[t] = "committing" /\ pc'[t] = "idle"
        /\ \A s \in Threads \ {t} : pc'[s] = pc[s] /\ op'[s] = op[s] /\ video'[s] = video[s]
                                    /\ old'[s] = old[s]
        /\ UNCHANGED heapVars
    BY <1>7 DEF Commit, Return, TypeOK
  <2>2. OldIsCurrent'
    BY <2>1 DEF Heap, OldIsCurrent, heapVars
  <2>3. IndexMatchesHeap'
    BY <2>1 DEF Heap, IndexMatchesHeap, heapVars
  <2>4. CASE op[t] # "increment"
    <3>1. expected' = expected
      BY <1>7, <2>4 DEF Commit
    <3>2. \A v : InFlight(v)' = InFlight(v)
      BY <2>1, <2>4 DEF InFlight
    <3>3. CountsInFlight'
      BY <2>1, <3>1, <3>2 DEF Heap, CountsInFlight, heapVars
    <3> QED
      BY <2>2, <2>3, <3>3 DEF Heap
  <2>5. CASE op[t] = "increment"
    <3>1. expected' = [expected EXCEPT ![w] = @ + 1]
      BY <1>7, <2>0, <2>5 DEF Commit
    <3>2. InFlight(w) = {t}
      BY <2>0, <2>1, <2>5, OneWriter DEF InFlight, Protocol, Working
    <3>3. InFlight(w)' = {}
      <4>1. \A s \in Threads \ {t} : s \notin InFlight(w)
        BY <3>2
      <4>2. \A s \in Threads : s \notin InFlight(w)'
        BY <2>1, <4>1 DEF InFlight
      <4> QED
        BY <4>2 DEF InFlight
    <3>4. \A v : v # w => InFlight(v)' = InFlight(v)
      BY <2>0, <2>1 DEF InFlight
    <3>5. CountsInFlight'
      <4> SUFFICES ASSUME NEW v \in stored
                   PROVE  views[v] = expected'[v] + (IF InFlight(v)' = {} THEN 0 ELSE 1)
        BY <2>1 DEF CountsInFlight, heapVars
      <4>1. v \in Videos /\ expected[v] \in Nat
        BY DEF TypeOK
      <4>2. CASE v = w
        <5>1. views[w] = expected[w] + 1
          BY <3>2, <4>2 DEF Heap, CountsInFlight
        <5>2. expected'[w] = expected[w] + 1
          BY <3>1, <4>1, <4>2 DEF TypeOK
        <5> QED
          BY <3>3, <4>1, <4>2, <5>1, <5>2
      <4>3. CASE v # w
        BY <3>1, <3>4, <4>1, <4>3 DEF TypeOK, Heap, CountsInFlight
      <4> QED
        BY <4>2, <4>3
    <3> QED
      BY <2>2, <2>3, <3>5 DEF Heap
  <2> QED
    BY <2>4, <2>5
<1>8. ASSUME NEW v \in Videos, InsertVideo(v, 0)
      PROVE  Heap'
  <2>1. /\ v \notin stored
        /\ stored' = stored \cup {v}
        /\ views' = [views EXCEPT ![v] = 0]
        /\ viewIndex' = viewIndex \cup {<<0, v>>}
        /\ expected' = [expected EXCEPT ![v] = 0]
        /\ UNCHANGED callVars
    BY <1>8 DEF InsertVideo
  <2>2. \A s \in Threads : pc[s] # "idle" => video[s] # v
    BY <2>1 DEF Protocol, RowIsStored
  <2>3. OldIsCurrent'
    BY <2>1, <2>2 DEF TypeOK, Heap, OldIsCurrent, callVars
  <2>4. \A u : InFlight(u)' = InFlight(u)
    BY <2>1 DEF InFlight, callVars
  <2>5. InFlight(v) = {}
    BY <2>2 DEF InFlight
  <2>6. CountsInFlight'
    <3> SUFFICES ASSUME NEW u \in stored'
                 PROVE  views'[u] = expected'[u] + (IF InFlight(u)' = {} THEN 0 ELSE 1)
      BY DEF CountsInFlight
    <3>1. u \in Videos
      BY DEF TypeOK
    <3>2. CASE u = v
      BY <2>1, <2>4, <2>5, <3>2 DEF TypeOK
    <3>3. CASE u # v
      BY <2>1, <2>4, <3>1, <3>3 DEF TypeOK, Heap, CountsInFlight
    <3> QED
      BY <3>2, <3>3
  <2>7. IndexMatchesHeap'
    <3>1. viewIndex = {<<views[u], u>> : u \in stored}
      BY DEF Heap, IndexMatchesHeap
    <3>2. views'[v] = 0 /\ \A u \in stored : views'[u] = views[u]
      BY <2>1 DEF TypeOK
    <3> QED
      BY <2>1, <3>1, <3>2 DEF IndexMatchesHeap
  <2> QED
    BY <2>3, <2>6, <2>7 DEF Heap
<1>9. ASSUME NEW counts \in [Videos -> Nat], NewProcess(counts)
      PROVE  Heap'
  <2>1. OldIsCurrent'
    BY <1>9 DEF NewProcess, OldIsCurrent
  <2>2. \A v : InFlight(v)' = {}
    BY <1>9 DEF NewProcess, InFlight
  <2>3. CountsInFlight'
    BY <1>9, <2>2, ConstantsAssumption DEF NewProcess, CountsInFlight, Seeded
  <2>4. IndexMatchesHeap'
    BY <1>9 DEF NewProcess, IndexMatchesHeap
  <2> QED
    BY <2>1, <2>3, <2>4 DEF Heap
<1>10. CASE UNCHANGED vars
  <2>1. OldIsCurrent'
    BY <1>10 DEF vars, callVars, heapVars, Heap, OldIsCurrent
  <2> QED
    BY <1>10, <2>1, HeapUntouched DEF vars, callVars
<1>11. Recovered(file) \in [Videos -> Nat]
    BY RecoveredType DEF TypeOK
<1> QED
    BY <1>1, <1>2, <1>3, <1>4, <1>5, <1>6, <1>7, <1>8, <1>9, <1>10, <1>11, SeedCountsType
       DEF Next, Step, Recover, Reopen

-----------------------------------------------------------------------------
LEMMA StepIInv == IInv /\ [Next]_vars => IInv'
BY StepType, StepProtocol, StepHeap DEF IInv, Protocol, Heap

(* The invariant holds in every state of the write path. *)
THEOREM WriteInvariant == Spec => []IInv
BY InitIInv, StepIInv, PTL DEF Spec

(* The variables keep their types: what recovery computes from the log of  *)
(* a process that ended anywhere are counts again.                         *)
THEOREM TypeCorrect == Spec => []TypeOK
<1>1. IInv => TypeOK
    BY DEF IInv
<1> QED
    BY <1>1, WriteInvariant, PTL

(* However calls interleave, and whatever process runs, the view index has *)
(* the one entry of each row that the row's count asks for.                *)
THEOREM IndexCorrect == Spec => []IndexMatchesHeap
<1>1. IInv => IndexMatchesHeap
    BY DEF IInv
<1> QED
    BY <1>1, WriteInvariant, PTL

(* No increment is lost and none is counted twice: the lock that a call    *)
(* holds from its read on keeps every other increment of the row out.      *)
THEOREM UpdatesAreKept == Spec => []NoLostUpdate
<1>1. ASSUME IInv
      PROVE  NoLostUpdate
  <2> SUFFICES ASSUME NEW v \in stored
               PROVE  /\ views[v] = expected[v] + Cardinality(InFlight(v))
                      /\ Cardinality(InFlight(v)) <= 1
    BY DEF NoLostUpdate
  <2>1. \A s, t \in InFlight(v) : s = t
    BY <1>1, OneWriter DEF IInv, InFlight, Working
  <2>2. CASE InFlight(v) = {}
    <3>1. Cardinality(InFlight(v)) = 0
      BY <2>2, FS_EmptySet
    <3> QED
      BY <1>1, <2>2, <3>1 DEF IInv, CountsInFlight
  <2>3. CASE InFlight(v) # {}
    <3>1. PICK t : InFlight(v) = {t}
      BY <2>1, <2>3
    <3>2. Cardinality(InFlight(v)) = 1
      BY <3>1, FS_Singleton
    <3> QED
      BY <1>1, <2>3, <3>2 DEF IInv, CountsInFlight
  <2> QED
    BY <2>2, <2>3
<1> QED
    BY <1>1, WriteInvariant, PTL

-----------------------------------------------------------------------------
(* What the log of a process says.                                         *)

(* Nobody but the running process has written the file it appends to. *)
OwnLog == logging /\ ~appended /\ \A i \in DOMAIN file : file[i].life = lives

(* No record is from a process to come. *)
LogIsPast == \A i \in DOMAIN file : file[i].life <= lives

SeedsStored == Seeded \subseteq stored

(* Until it commits, an increment has read the committed count. *)
OldIsCommitted ==
    \A t \in Threads :
        op[t] = "increment" /\ pc[t] \in {"logging", "applying", "committing"}
            => old[t] = expected[video[t]]

(* Calls at work have transactions of their own. *)
OwnTx ==
    /\ \A t \in Threads : pc[t] \in Working => tx[t] \in 1..lastTx
    /\ \A s, t \in Threads :
          pc[s] \in Working /\ pc[t] \in Working /\ tx[s] = tx[t] => s = t

(* Each committed increment is durable. *)
CommittedIsDurable == \A v \in Seeded : expected[v] = Seeds[v] + durable[v]

TxNumbered == \A i \in DOMAIN file : file[i].tx <= lastTx

(* The records of a call at work: none before it has read the count, no    *)
(* Commit, and its UpdateRow carries the count it is about to write.       *)
RecordsOfCall ==
    \A t \in Threads : \A i \in DOMAIN file :
        pc[t] \in Working /\ file[i].tx = tx[t] =>
            /\ file[i].type # "Commit"
            /\ pc[t] # "reading"
            /\ file[i].type = "UpdateRow" =>
                  op[t] # "title" /\ file[i].video = video[t] /\ file[i].new = old[t] + 1

(* Has t appended the UpdateRow record of an increment? *)
HasLoggedUpdate(t) ==
    /\ op[t] = "increment"
    /\ \/ pc[t] \in {"applying", "committing"}
       \/ pc[t] = "logging" /\ logged[t] >= 2

(* Its UpdateRow is later than every committed one of the row. *)
UpdateIsLast ==
    \A t \in Threads : HasLoggedUpdate(t) =>
        \E i \in DOMAIN file :
            /\ file[i].type = "UpdateRow"
            /\ file[i].tx = tx[t]
            /\ file[i].video = video[t]
            /\ \A j \in Replayed(file, video[t]) : j < i

LogFollowsCalls == CommittedIsDurable /\ TxNumbered /\ RecordsOfCall /\ UpdateIsLast

LogInv ==
    /\ LogIsPast
    /\ SeedsStored
    /\ OldIsCommitted
    /\ OwnTx
    /\ OwnLog => LogFollowsCalls
    /\ RecoveryIsExact

-----------------------------------------------------------------------------
(* What one more record changes.                                           *)

LEMMA AppendAddsLast ==
    ASSUME TypeOK, logging, NEW t \in Threads, NEW type \in RecordTypes,
           AppendRecord(t, type)
    PROVE  LET last == Len(file) + 1 IN
           /\ last \in Nat /\ last \notin DOMAIN file
           /\ DOMAIN file' = DOMAIN file \cup {last}
           /\ \A i \in DOMAIN file : i \in Nat /\ i < last /\ file'[i] = file[i]
           /\ file'[last].life = lives
           /\ file'[last].tx = tx[t]
           /\ file'[last].type = type
           /\ file'[last].video = video[t]
           /\ op[t] # "title" => file'[last].new = old[t] + 1
<1> DEFINE rec == [life |-> lives, tx |-> tx[t], type |-> type, video |-> video[t],
                   new |-> IF op[t] = "title" THEN 0 ELSE old[t] + 1]
<1>1. rec \in Records
    BY DEF TypeOK, Records
<1>2. file' = Append(file, rec)
    BY DEF AppendRecord
<1>3. file \in Seq(Records)
    BY DEF TypeOK
<1>4. /\ rec.life = lives /\ rec.tx = tx[t] /\ rec.type = type /\ rec.video = video[t]
      /\ op[t] # "title" => rec.new = old[t] + 1
    OBVIOUS
<1> HIDE DEF rec
<1>5. /\ Len(file) \in Nat
      /\ DOMAIN file = 1..Len(file)
      /\ DOMAIN file' = 1..(Len(file) + 1)
      /\ \A i \in 1..Len(file) : file'[i] = file[i]
      /\ file'[Len(file) + 1] = rec
    BY <1>1, <1>2, <1>3
<1> QED
    BY <1>4, <1>5

(* A log that is a process's own after a step of a call was so before it.  *)
LEMMA OwnLogBefore ==
    ASSUME OwnLog', UNCHANGED <<logging, lives>>,
           \/ UNCHANGED <<file, appended>>
           \/ \E t \in Threads, type \in RecordTypes : AppendRecord(t, type)
    PROVE  OwnLog
<1>1. CASE UNCHANGED <<file, appended>>
    BY <1>1 DEF OwnLog
<1>2. CASE \E t \in Threads, type \in RecordTypes : AppendRecord(t, type)
    BY <1>2 DEF OwnLog, AppendRecord
<1> QED
    BY <1>1, <1>2

(* A record of a transaction that has no Commit record is not replayed.    *)
LEMMA UncommittedIsNotReplayed ==
    ASSUME TypeOK, logging, NEW t \in Threads, NEW type \in RecordTypes, type # "Commit",
           AppendRecord(t, type),
           \A i \in DOMAIN file : file[i].tx = tx[t] => file[i].type # "Commit"
    PROVE  \A v : Replayed(file', v) = Replayed(file, v)
<1> DEFINE last == Len(file) + 1
<1>1. /\ last \notin DOMAIN file
      /\ DOMAIN file' = DOMAIN file \cup {last}
      /\ \A i \in DOMAIN file : file'[i] = file[i]
      /\ file'[last].tx = tx[t]
      /\ file'[last].type = type
    BY AppendAddsLast
<1> HIDE DEF last
<1>2. CommittedTx(file') = CommittedTx(file)
    BY <1>1 DEF CommittedTx
<1>3. tx[t] \notin CommittedTx(file)
    BY DEF CommittedTx
<1> QED
    BY <1>1, <1>2, <1>3 DEF Replayed

(* A Commit record adds the UpdateRow records of its transaction.          *)
LEMMA CommitReplays ==
    ASSUME TypeOK, logging, NEW t \in Threads, AppendRecord(t, "Commit"), NEW v
    PROVE  Replayed(file', v) =
             Replayed(file, v) \cup {i \in DOMAIN file : /\ file[i].type = "UpdateRow"
                                                         /\ file[i].video = v
                                                         /\ file[i].tx = tx[t]}
<1> DEFINE last == Len(file) + 1
<1>0. "Commit" \in RecordTypes
    BY DEF RecordTypes
<1>1. /\ last \notin DOMAIN file
      /\ DOMAIN file' = DOMAIN file \cup {last}
      /\ \A i \in DOMAIN file : file'[i] = file[i]
      /\ file'[last].tx = tx[t]
      /\ file'[last].type = "Commit"
    BY <1>0, AppendAddsLast
<1> HIDE DEF last
<1>2. CommittedTx(file') = CommittedTx(file) \cup {tx[t]}
    BY <1>1 DEF CommittedTx
<1> QED
    BY <1>1, <1>2 DEF Replayed

(* Where nothing else is replayed, recovery finds the same counts.         *)
LEMMA SameReplay ==
    ASSUME NEW v \in Videos, TypeOK, Replayed(file', v) = Replayed(file, v),
           \A i \in DOMAIN file : file'[i] = file[i]
    PROVE  Recovered(file')[v] = Recovered(file)[v]
<1>1. CASE Replayed(file, v) = {}
    BY <1>1 DEF Recovered
<1>2. CASE Replayed(file, v) # {}
  <2>1. Replayed(file, v) \in SUBSET (1..Len(file)) /\ Len(file) \in Nat
    BY DEF Replayed, TypeOK
  <2>2. Max(Replayed(file, v)) \in 1..Len(file)
    BY <1>2, <2>1, MaxIsMember
  <2>3. file'[Max(Replayed(file, v))] = file[Max(Replayed(file, v))]
    BY <2>1, <2>2 DEF TypeOK
  <2> QED
    BY <2>3 DEF Recovered
<1> QED
    BY <1>1, <1>2

-----------------------------------------------------------------------------
(* Transactions, and what a call has read.                                 *)

Logging == {"logging", "applying", "committing"}

(* Appending a record moves one call, and leaves the table alone.          *)
LEMMA LogRecordStep ==
    ASSUME TypeOK, NEW t \in Threads, LogRecord(t)
    PROVE  /\ pc[t] = "logging"
           /\ UNCHANGED <<heapVars, rowLock, lastTx, logging, lives, expected, durable>>
           /\ \A s \in Threads \ {t} : /\ pc'[s] = pc[s] /\ op'[s] = op[s] /\ tx'[s] = tx[s]
                                       /\ video'[s] = video[s] /\ old'[s] = old[s]
                                       /\ logged'[s] = logged[s]
           /\ \/ pc'[t] = "idle" /\ op'[t] = "increment"
              \/ /\ op'[t] = op[t] /\ tx'[t] = tx[t]
                 /\ video'[t] = video[t] /\ old'[t] = old[t]
                 /\ logged'[t] = logged[t] + 1
                 /\ \/ pc'[t] = "logging" /\ logged[t] + 1 < Len(Script[op[t]])
                    \/ pc'[t] = "applying" /\ ~(logged[t] + 1 < Len(Script[op[t]])) /\ op[t] # "demo"
<1>1. CASE logged[t] + 1 < Len(Script[op[t]])
    BY <1>1 DEF LogRecord, TypeOK
<1>2. CASE Return(t)
    BY <1>2 DEF LogRecord, Return, TypeOK
<1>3. CASE ~Return(t) /\ ~(logged[t] + 1 < Len(Script[op[t]]))
    BY <1>3 DEF LogRecord, TypeOK
<1> QED
    BY <1>1, <1>2, <1>3

LEMMA StepOwnTx ==
    ASSUME TypeOK, TypeOK', Protocol, OwnTx, [Next]_vars
    PROVE  OwnTx'
<1>0. TypeOK /\ lastTx \in Nat
    BY DEF TypeOK
<1>1. ASSUME lastTx' = lastTx,
             \A s \in Threads : pc'[s] \in Working => pc[s] \in Working /\ tx'[s] = tx[s]
      PROVE  OwnTx'
    BY <1>1 DEF OwnTx
<1>2. ASSUME NEW t \in Threads, lastTx' = lastTx + 1, tx' = [tx EXCEPT ![t] = lastTx + 1],
             \A s \in Threads \ {t} : pc'[s] = pc[s]
      PROVE  OwnTx'
  <2>1. tx'[t] = lastTx + 1 /\ \A s \in Threads \ {t} : tx'[s] = tx[s]
    BY <1>2 DEF TypeOK
  <2>2. \A s \in Threads \ {t} : pc'[s] \in Working => tx'[s] \in 1..lastTx
    BY <1>2, <2>1 DEF OwnTx
  <2>3. \A n \in 1..lastTx : n # lastTx + 1 /\ n \in 1..(lastTx + 1)
    BY <1>0
  <2>4. \A r \in Threads \ {t}, s \in Threads \ {t} :
            pc'[r] \in Working /\ pc'[s] \in Working /\ tx'[r] = tx'[s] => r = s
    BY <1>2, <2>1 DEF OwnTx
  <2>5. \A s \in Threads : pc'[s] \in Working => tx'[s] \in 1..(lastTx + 1)
    BY <1>0, <2>1, <2>2, <2>3
  <2>6. \A s \in Threads \ {t} : pc'[s] \in Working => tx'[s] # tx'[t]
    BY <2>1, <2>2, <2>3
  <2> QED
    BY <1>2, <2>4, <2>5, <2>6 DEF OwnTx
<1>3. ASSUME NEW t \in Threads, NEW v \in Videos, NEW o, Call(t, v, o)
      PROVE  OwnTx'
    BY <1>1, <1>3 DEF Call, TypeOK, Working
<1>4. ASSUME NEW t \in Threads, NEW v \in Videos, CallDemo(t, v)
      PROVE  OwnTx'
    BY <1>2, <1>4 DEF CallDemo, TypeOK
<1>5. ASSUME NEW t \in Threads, LockRow(t)
      PROVE  OwnTx'
    BY <1>2, <1>5 DEF LockRow, TypeOK
<1>6. ASSUME NEW t \in Threads, ReadCount(t)
      PROVE  OwnTx'
    BY <1>1, <1>6 DEF ReadCount, TypeOK, Working
<1>7. ASSUME NEW t \in Threads, LogRecord(t)
      PROVE  OwnTx'
    BY <1>1, <1>7, LogRecordStep DEF Working
<1>8. ASSUME NEW t \in Threads, Apply(t)
      PROVE  OwnTx'
    BY <1>1, <1>8 DEF Apply, TypeOK, Working
<1>9. ASSUME NEW t \in Threads, Commit(t)
      PROVE  OwnTx'
    BY <1>1, <1>9 DEF Commit, Return, TypeOK, Working
<1>10. ASSUME NEW v \in Videos, InsertVideo(v, 0)
       PROVE  OwnTx'
    BY <1>1, <1>10 DEF InsertVideo, callVars
<1>11. ASSUME NEW counts, NewProcess(counts)
       PROVE  OwnTx'
    BY <1>11 DEF NewProcess, OwnTx, Working
<1>12. CASE UNCHANGED vars
    BY <1>1, <1>12 DEF vars, callVars
<1> QED
    BY <1>3, <1>4, <1>5, <1>6, <1>7, <1>8, <1>9, <1>10, <1>11, <1>12
       DEF Next, Step, Recover, Reopen

LEMMA StepOldIsCommitted ==
    ASSUME TypeOK, TypeOK', Protocol, Heap, OldIsCommitted, [Next]_vars
    PROVE  OldIsCommitted'
<1>1. ASSUME expected' = expected,
             \A s \in Threads : op'[s] = "increment" /\ pc'[s] \in Logging =>
                 /\ op[s] = "increment" /\ pc[s] \in Logging
                 /\ old'[s] = old[s] /\ video'[s] = video[s]
      PROVE  OldIsCommitted'
    BY <1>1 DEF OldIsCommitted, Logging
<1>2. ASSUME NEW t \in Threads, NEW v \in Videos, NEW o, Call(t, v, o)
      PROVE  OldIsCommitted'
    BY <1>1, <1>2 DEF Call, TypeOK, Logging
<1>3. ASSUME NEW t \in Threads, NEW v \in Videos, CallDemo(t, v)
      PROVE  OldIsCommitted'
    BY <1>1, <1>3 DEF CallDemo, TypeOK, Logging
<1>4. ASSUME NEW t \in Threads, LockRow(t)
      PROVE  OldIsCommitted'
    BY <1>1, <1>4 DEF LockRow, TypeOK, Logging
<1>5. ASSUME NEW t \in Threads, ReadCount(t)
      PROVE  OldIsCommitted'
  <2>1. op[t] # "demo" /\ video[t] \in stored /\ pc[t] = "reading"
    BY <1>5 DEF ReadCount, Protocol, DemoOnlyLogs, RowIsStored
  <2>2. \A s \in Threads : s \notin InFlight(video[t])
    BY <2>1, OneWriter DEF InFlight, Protocol, Working
  <2>3. InFlight(video[t]) = {}
    BY <2>2 DEF InFlight
  <2>4. views[video[t]] = expected[video[t]]
    <3>1. views[video[t]] = expected[video[t]] + 0
      BY <2>1, <2>3 DEF Heap, CountsInFlight
    <3>2. expected[video[t]] \in Nat
      BY DEF TypeOK
    <3> QED
      BY <3>1, <3>2
  <2> QED
    BY <1>5, <2>4 DEF ReadCount, TypeOK, OldIsCommitted
<1>6. ASSUME NEW t \in Threads, LogRecord(t)
      PROVE  OldIsCommitted'
    BY <1>1, <1>6, LogRecordStep DEF Logging
<1>7. ASSUME NEW t \in Threads, Apply(t)
      PROVE  OldIsCommitted'
    BY <1>1, <1>7 DEF Apply, TypeOK, Logging
<1>8. ASSUME NEW t \in Threads, Commit(t)
      PROVE  OldIsCommitted'
  <2>1. op[t] # "demo" /\ pc[t] = "committing"
    BY <1>8 DEF Commit, Protocol, DemoOnlyLogs
  <2> SUFFICES ASSUME NEW s \in Threads, op'[s] = "increment", pc'[s] \in Logging
               PROVE  old'[s] = expected'[video'[s]]
    BY DEF OldIsCommitted, Logging
  <2>2. s # t /\ op[s] = "increment" /\ pc[s] \in Logging /\ old'[s] = old[s] /\ video'[s] = video[s]
    BY <1>8 DEF Commit, Return, TypeOK, Logging
  <2>3. video[s] # video[t]
    BY <2>1, <2>2, OneWriter DEF Protocol, Working, Logging
  <2>4. expected'[video[s]] = expected[video[s]]
    BY <1>8, <2>3 DEF Commit, TypeOK
  <2> QED
    BY <2>2, <2>4 DEF OldIsCommitted, Logging
<1>9. ASSUME NEW v \in Videos, InsertVideo(v, 0)
      PROVE  OldIsCommitted'
  <2>1. \A s \in Threads : pc[s] # "idle" => video[s] # v
    BY <1>9 DEF InsertVideo, Protocol, RowIsStored
  <2> QED
    BY <1>9, <2>1 DEF InsertVideo, callVars, TypeOK, OldIsCommitted
<1>10. ASSUME NEW counts, NewProcess(counts)
       PROVE  OldIsCommitted'
    BY <1>10 DEF NewProcess, OldIsCommitted
<1>11. CASE UNCHANGED vars
    BY <1>1, <1>11 DEF vars, callVars
<1> QED
    BY <1>2, <1>3, <1>4, <1>5, <1>6, <1>7, <1>8, <1>9, <1>10, <1>11
       DEF Next, Step, Recover, Reopen

-----------------------------------------------------------------------------
(* The log.                                                                *)

LogAgrees == (OwnLog => LogFollowsCalls) /\ RecoveryIsExact

(* A step that appends nothing and commits nothing: a call goes on with    *)
(* what it has read and logged, or starts with the next transaction.       *)
LEMMA NothingLogged ==
    ASSUME TypeOK, LogAgrees,
           UNCHANGED <<file, logging, appended, lives, durable>>,
           \A v \in Seeded : expected'[v] = expected[v],
           lastTx' \in Nat, lastTx <= lastTx',
           \A s \in Threads : pc'[s] \in Working =>
               \/ tx'[s] = lastTx + 1
               \/ /\ pc[s] \in Working /\ tx'[s] = tx[s]
                  /\ op'[s] = op[s] /\ video'[s] = video[s]
                  /\ \/ pc[s] = "reading"
                     \/ pc'[s] # "reading" /\ old'[s] = old[s],
           \A s \in Threads : HasLoggedUpdate(s)' =>
               HasLoggedUpdate(s) /\ tx'[s] = tx[s] /\ video'[s] = video[s]
    PROVE  LogAgrees'
<1>1. RecoveryIsExact'
    BY DEF LogAgrees, RecoveryIsExact
<1> SUFFICES ASSUME OwnLog' PROVE LogFollowsCalls'
    BY <1>1 DEF LogAgrees
<1>2. OwnLog /\ LogFollowsCalls
    BY DEF OwnLog, LogAgrees
<1>3. CommittedIsDurable'
    BY <1>2 DEF LogFollowsCalls, CommittedIsDurable
<1>4. \A i \in DOMAIN file : file[i].tx \in Nat /\ file[i].tx <= lastTx
  <2>1. \A i \in DOMAIN file : file[i] \in Records
    BY DEF TypeOK
  <2> QED
    BY <1>2, <2>1 DEF LogFollowsCalls, TxNumbered, Records
<1>5. lastTx \in Nat
    BY DEF TypeOK
<1>6. TxNumbered'
    BY <1>4, <1>5 DEF TxNumbered
<1>7. RecordsOfCall'
  <2> SUFFICES ASSUME NEW s \in Threads, NEW i \in DOMAIN file,
                      pc'[s] \in Working, file[i].tx = tx'[s]
               PROVE  /\ file[i].type # "Commit"
                      /\ pc'[s] # "reading"
                      /\ file[i].type = "UpdateRow" =>
                           op'[s] # "title" /\ file[i].video = video'[s] /\ file[i].new = old'[s] + 1
    BY DEF RecordsOfCall
  <2>1. tx'[s] # lastTx + 1
    BY <1>4, <1>5
  <2> QED
    BY <1>2, <2>1 DEF LogFollowsCalls, RecordsOfCall
<1>8. UpdateIsLast'
  <2> SUFFICES ASSUME NEW s \in Threads, HasLoggedUpdate(s)'
               PROVE  \E i \in DOMAIN file : /\ file[i].type = "UpdateRow"
                                             /\ file[i].tx = tx'[s]
                                             /\ file[i].video = video'[s]
                                             /\ \A j \in Replayed(file, video'[s]) : j < i
    BY DEF UpdateIsLast, Replayed, CommittedTx
  <2> QED
    BY <1>2 DEF LogFollowsCalls, UpdateIsLast
<1> QED
    BY <1>3, <1>6, <1>7, <1>8 DEF LogFollowsCalls

(* Without a path the log stays what it was.                               *)
LEMMA NoPath ==
    ASSUME LogAgrees, ~logging, UNCHANGED <<file, logging, appended, durable>>
    PROVE  LogAgrees'
BY DEF LogAgrees, OwnLog, RecoveryIsExact

LEMMA LogRecordLog ==
    ASSUME TypeOK, TypeOK', Protocol, OwnTx, LogAgrees, NEW t \in Threads, LogRecord(t)
    PROVE  LogAgrees'
<1> DEFINE type == Script[op[t]][logged[t] + 1]
           last == Len(file) + 1
<1>1. type \in RecordTypes /\ type # "Commit" /\ AppendRecord(t, type)
  <2>1. \A o \in DOMAIN Script : \A i \in 1..Len(Script[o]) : Script[o][i] # "Commit"
    BY SMTT(30) DEF Script
  <2>2. logged[t] + 1 \in 1..Len(Script[op[t]])
    BY ScriptAt DEF LogRecord, Protocol, RecordsLeft
  <2> QED
    BY <2>1, <2>2, ScriptAt DEF LogRecord, Protocol, TypeOK
<1>2. CASE ~logging
  <2>1. UNCHANGED <<file, appended, logging, durable>>
    BY <1>1, <1>2 DEF AppendRecord, LogRecord
  <2> QED
    BY <1>2, <2>1, NoPath
<1>3. CASE logging /\ ~OwnLog
  <2>1. appended'
    BY <1>1, <1>3 DEF AppendRecord, OwnLog
  <2> QED
    BY <2>1 DEF LogAgrees, OwnLog, RecoveryIsExact
<1>4. CASE OwnLog
  <2>1. logging /\ LogFollowsCalls /\ RecoveryIsExact /\ ~appended
    BY <1>4 DEF OwnLog, LogAgrees
  <2>2. \A i \in DOMAIN file : file[i].tx = tx[t] => file[i].type # "Commit"
    BY <2>1 DEF LogFollowsCalls, RecordsOfCall, LogRecord, Working
  <2>3. \A v : Replayed(file', v) = Replayed(file, v)
    BY <1>1, <2>1, <2>2, UncommittedIsNotReplayed
  <2>4. /\ last \in Nat /\ last \notin DOMAIN file
        /\ DOMAIN file' = DOMAIN file \cup {last}
        /\ \A i \in DOMAIN file : i \in Nat /\ i < last /\ file'[i] = file[i]
        /\ file'[last].life = lives
        /\ file'[last].tx = tx[t]
        /\ file'[last].type = type
        /\ file'[last].video = video[t]
        /\ op[t] # "title" => file'[last].new = old[t] + 1
    BY <1>1, <2>1, AppendAddsLast
  <2> HIDE DEF last
  <2>5. RecoveryIsExact'
    <3>1. \A v \in Videos : Recovered(file')[v] = Recovered(file)[v]
      BY <2>3, <2>4, SameReplay
    <3>2. Seeded \subseteq Videos
      BY ConstantsAssumption DEF Seeded
    <3> QED
      BY <2>1, <3>1, <3>2 DEF RecoveryIsExact, LogRecord
  <2>6. CommittedIsDurable'
    BY <2>1 DEF LogFollowsCalls, CommittedIsDurable, LogRecord
  <2>7. TxNumbered'
    <3>1. tx[t] <= lastTx
      BY DEF LogRecord, OwnTx, Working, TypeOK
    <3> QED
      BY <2>1, <2>4, <3>1 DEF LogFollowsCalls, TxNumbered, LogRecord
  <2>8. RecordsOfCall'
    <3> SUFFICES ASSUME NEW s \in Threads, NEW i \in DOMAIN file',
                        pc'[s] \in Working, file'[i].tx = tx'[s]
                 PROVE  /\ file'[i].type # "Commit"
                        /\ pc'[s] # "reading"
                        /\ file'[i].type = "UpdateRow" =>
                             op'[s] # "title" /\ file'[i].video = video'[s] /\ file'[i].new = old'[s] + 1
      BY DEF RecordsOfCall
    <3>1. /\ pc[s] \in Working /\ tx'[s] = tx[s] /\ op'[s] = op[s]
          /\ video'[s] = video[s] /\ old'[s] = old[s]
          /\ pc'[s] = "reading" => pc[s] = "reading"
      BY LogRecordStep DEF Working
    <3>2. CASE i \in DOMAIN file
      BY <2>1, <2>4, <3>1, <3>2 DEF LogFollowsCalls, RecordsOfCall
    <3>3. CASE i = last
      <4>1. s = t
        BY <2>4, <3>1, <3>3 DEF OwnTx, LogRecord, Working
      <4>2. type = "UpdateRow" => op[t] # "title"
        <5>1. Script["title"] = <<"Begin">>
          BY DEF Script
        <5>2. op[t] = "title" => logged[t] + 1 = 1
          BY <5>1, ScriptAt DEF LogRecord, Protocol, RecordsLeft
        <5> QED
          BY <5>1, <5>2
      <4>3. pc[t] # "reading"
        BY DEF LogRecord
      <4> QED
        BY <1>1, <2>4, <3>1, <3>3, <4>1, <4>2, <4>3
    <3> QED
      BY <2>4, <3>2, <3>3
  <2>9. UpdateIsLast'
    <3> SUFFICES ASSUME NEW s \in Threads, HasLoggedUpdate(s)'
                 PROVE  \E i \in DOMAIN file' : /\ file'[i].type = "UpdateRow"
                                                /\ file'[i].tx = tx'[s]
                                                /\ file'[i].video = video'[s]
                                                /\ \A j \in Replayed(file', video'[s]) : j < i
      BY DEF UpdateIsLast
    <3>1. /\ op[s] = "increment" /\ tx'[s] = tx[s] /\ video'[s] = video[s]
      BY LogRecordStep DEF HasLoggedUpdate
    <3>2. CASE HasLoggedUpdate(s)
      <4>1. PICK i \in DOMAIN file : /\ file[i].type = "UpdateRow"
                                     /\ file[i].tx = tx[s]
                                     /\ file[i].video = video[s]
                                     /\ \A j \in Replayed(file, video[s]) : j < i
        BY <2>1, <3>2 DEF LogFollowsCalls, UpdateIsLast
      <4>2. i \in DOMAIN file' /\ file'[i] = file[i]
        BY <2>4
      <4> QED
        BY <2>3, <3>1, <4>1, <4>2
    <3>3. CASE ~HasLoggedUpdate(s)
      <4>1. s = t /\ pc[t] = "logging" /\ op[t] = "increment"
        BY <3>1, <3>3, LogRecordStep DEF HasLoggedUpdate
      <4>2. logged[t] = 1
        <5>1. Script["increment"] = <<"Begin", "UpdateRow", "DeleteSecondaryIndex", "InsertSecondaryIndex">>
          BY DEF Script
        <5>2. Len(Script["increment"]) = 4
          BY <5>1
        <5>3. logged[t] \in 0..3 /\ ~(logged[t] >= 2)
          BY <3>1, <3>3, <4>1, ScriptAt DEF HasLoggedUpdate, Protocol
        <5>4. logged'[t] = logged[t] + 1
          BY <4>1, LogRecordStep DEF HasLoggedUpdate
        <5>5. pc'[t] # "applying"
          <6>1. logged[t] + 1 < Len(Script[op[t]])
            BY <4>1, <5>2, <5>3
          <6> QED
            BY <6>1, LogRecordStep
        <5>6. logged'[t] >= 2
          BY <4>1, <5>5, LogRecordStep DEF HasLoggedUpdate
        <5> QED
          BY <5>3, <5>4, <5>6
      <4>3. type = "UpdateRow"
        BY <4>1, <4>2 DEF Script
      <4>4. last \in DOMAIN file' /\ \A j \in Replayed(file', video[t]) : j < last
        BY <2>3, <2>4 DEF Replayed
      <4> QED
        BY <2>4, <3>1, <4>1, <4>3, <4>4
    <3> QED
      BY <3>2, <3>3
  <2> QED
    BY <2>5, <2>6, <2>7, <2>8, <2>9 DEF LogAgrees, LogFollowsCalls
<1> QED
    BY <1>2, <1>3, <1>4 DEF OwnLog

(* The update of a committing increment becomes the last one replayed.     *)
LEMMA CommitLog ==
    ASSUME TypeOK, TypeOK', Protocol, OldIsCommitted, OwnTx, LogAgrees,
           NEW t \in Threads, Commit(t)
    PROVE  LogAgrees'
<1> DEFINE last == Len(file) + 1
<1>1. /\ "Commit" \in RecordTypes /\ AppendRecord(t, "Commit")
      /\ pc[t] = "committing" /\ op[t] \in {"increment", "title"}
      /\ UNCHANGED <<lastTx, logging, lives>>
  <2>1. op[t] \in {"increment", "title", "demo"}
    BY ScriptLengths DEF TypeOK
  <2> QED
    BY <2>1 DEF Commit, RecordTypes, Protocol, DemoOnlyLogs
<1>2. CASE ~logging
  <2>1. UNCHANGED <<file, appended, logging, durable>>
    BY <1>1, <1>2 DEF AppendRecord, Commit
  <2> QED
    BY <1>2, <2>1, NoPath
<1>3. CASE logging /\ ~OwnLog
  <2>1. appended'
    BY <1>1, <1>3 DEF AppendRecord, OwnLog
  <2> QED
    BY <2>1 DEF LogAgrees, OwnLog, RecoveryIsExact
<1>4. CASE OwnLog
  <2>1. logging /\ LogFollowsCalls /\ RecoveryIsExact
    BY <1>4 DEF OwnLog, LogAgrees
  <2>2. PICK w \in Videos : w = video[t]
    BY DEF TypeOK
  <2>3. /\ last \in Nat /\ last \notin DOMAIN file
        /\ DOMAIN file' = DOMAIN file \cup {last}
        /\ \A i \in DOMAIN file : i \in Nat /\ i < last /\ file'[i] = file[i]
        /\ file'[last].tx = tx[t]
    BY <1>1, <2>1, AppendAddsLast
  <2> HIDE DEF last
  <2>4. \A i \in DOMAIN file :
            file[i].type = "UpdateRow" /\ file[i].tx = tx[t] =>
                op[t] = "increment" /\ file[i].video = w /\ file[i].new = old[t] + 1
    BY <1>1, <2>1, <2>2 DEF LogFollowsCalls, RecordsOfCall, Working
  <2>5. \A v : v # w \/ op[t] = "title" => Replayed(file', v) = Replayed(file, v)
    <3> TAKE v
    <3> HAVE v # w \/ op[t] = "title"
    <3>1. {i \in DOMAIN file : /\ file[i].type = "UpdateRow"
                              /\ file[i].video = v
                              /\ file[i].tx = tx[t]} = {}
      BY <2>4
    <3> QED
      BY ZenonT(60), <1>1, <2>1, <3>1, CommitReplays
  <2>6. \A v \in Seeded : v # w \/ op[t] = "title" =>
            expected'[v] = expected[v] /\ durable'[v] = durable[v]
    <3>1. Seeded \subseteq Videos
      BY ConstantsAssumption DEF Seeded
    <3> QED
      BY <1>1, <2>2, <3>1 DEF Commit, TypeOK
  <2>7. op[t] = "increment" =>
            expected'[w] = expected[w] + 1 /\ durable'[w] = durable[w] + 1
    BY <2>1, <2>2 DEF Commit, TypeOK
  <2>8. \A v \in Seeded : /\ v \in Videos
                          /\ expected[v] \in Nat /\ durable[v] \in Nat /\ Seeds[v] \in Nat
                          /\ expected[v] = Seeds[v] + durable[v]
    BY <2>1, ConstantsAssumption DEF TypeOK, Seeded, LogFollowsCalls, CommittedIsDurable
  <2>9. CommittedIsDurable'
    <3> SUFFICES ASSUME NEW v \in Seeded
                 PROVE  expected'[v] = Seeds[v] + durable'[v]
      BY DEF CommittedIsDurable
    <3>1. CASE v # w \/ op[t] = "title"
      BY <2>6, <2>8, <3>1
    <3>2. CASE v = w /\ op[t] = "increment"
      BY <2>7, <2>8, <3>2
    <3> QED
      BY <1>1, <3>1, <3>2
  <2>10. RecoveryIsExact'
    <3> SUFFICES ASSUME NEW v \in Seeded
                 PROVE  Recovered(file')[v] = Seeds[v] + durable'[v]
      BY DEF RecoveryIsExact
    <3>1. CASE v # w \/ op[t] = "title"
      <4>1. Recovered(file')[v] = Recovered(file)[v]
        BY <2>3, <2>5, <2>8, <3>1, SameReplay
      <4> QED
        BY <1>4, <2>1, <2>6, <3>1, <4>1 DEF OwnLog, RecoveryIsExact
    <3>2. CASE v = w /\ op[t] = "increment"
      <4>1. PICK i \in DOMAIN file : /\ file[i].type = "UpdateRow"
                                     /\ file[i].tx = tx[t]
                                     /\ file[i].video = w
                                     /\ \A j \in Replayed(file, w) : j < i
        BY <1>1, <2>1, <2>2, <3>2 DEF LogFollowsCalls, UpdateIsLast, HasLoggedUpdate
      <4>2. Replayed(file', w) =
              Replayed(file, w) \cup {j \in DOMAIN file : /\ file[j].type = "UpdateRow"
                                                        /\ file[j].video = w
                                                        /\ file[j].tx = tx[t]}
        BY <1>1, <2>1, CommitReplays
      <4>3. i \in Replayed(file', w)
        BY <4>1, <4>2
      <4>4. Len(file') \in Nat /\ Replayed(file', w) \in SUBSET (1..Len(file'))
        <5>1. file' \in Seq(Records)
          BY DEF TypeOK
        <5>2. Len(file') \in Nat /\ DOMAIN file' = 1..Len(file')
          BY <5>1
        <5> QED
          BY <5>2 DEF Replayed
      <4>5. PICK m : m = Max(Replayed(file', w))
        OBVIOUS
      <4>6. m \in Replayed(file', w) /\ m >= i
        BY <4>3, <4>4, <4>5, MaxIsMember
      <4>7. m \notin Replayed(file, w)
        <5>1. i \in Nat /\ m \in Nat
          BY <2>3, <4>4, <4>6
        <5>2. ~(m < i)
          BY <4>6, <5>1
        <5> QED
          BY <4>1, <5>2
      <4>8. m \in DOMAIN file /\ file[m].type = "UpdateRow" /\ file[m].tx = tx[t]
        BY <4>2, <4>6, <4>7
      <4>9. file'[m].new = old[t] + 1
        BY <2>3, <2>4, <4>8
      <4>10. Recovered(file')[v] = file'[m].new
        BY <2>8, <3>2, <4>3, <4>5 DEF Recovered
      <4>11. old[t] = expected[w]
        BY <1>1, <2>2, <3>2 DEF OldIsCommitted
      <4> QED
        BY <2>7, <2>8, <3>2, <4>9, <4>10, <4>11
    <3> QED
      BY <1>1, <3>1, <3>2
  <2>11. TxNumbered'
    <3>1. tx[t] <= lastTx
      BY <1>1 DEF OwnTx, Working, TypeOK
    <3> QED
      BY <1>1, <2>1, <2>3, <3>1 DEF LogFollowsCalls, TxNumbered
  <2>12. \A s \in Threads : pc'[s] # "idle" =>
            /\ s # t
            /\ pc'[s] = pc[s] /\ tx'[s] = tx[s] /\ op'[s] = op[s]
            /\ video'[s] = video[s] /\ old'[s] = old[s] /\ logged'[s] = logged[s]
    BY DEF Commit, Return, TypeOK
  <2>13. RecordsOfCall'
    <3> SUFFICES ASSUME NEW s \in Threads, NEW i \in DOMAIN file',
                        pc'[s] \in Working, file'[i].tx = tx'[s]
                 PROVE  /\ file'[i].type # "Commit"
                        /\ pc'[s] # "reading"
                        /\ file'[i].type = "UpdateRow" =>
                             op'[s] # "title" /\ file'[i].video = video'[s] /\ file'[i].new = old'[s] + 1
      BY DEF RecordsOfCall
    <3>1. /\ s # t /\ pc'[s] = pc[s] /\ tx'[s] = tx[s] /\ op'[s] = op[s]
          /\ video'[s] = video[s] /\ old'[s] = old[s]
      BY <2>12 DEF Working
    <3>2. tx[s] # tx[t]
      BY <1>1, <3>1 DEF OwnTx, Working
    <3>3. i \in DOMAIN file /\ file'[i] = file[i]
      BY <2>3, <3>1, <3>2
    <3> QED
      BY <2>1, <3>1, <3>3 DEF LogFollowsCalls, RecordsOfCall
  <2>14. UpdateIsLast'
    <3> SUFFICES ASSUME NEW s \in Threads, HasLoggedUpdate(s)'
                 PROVE  \E i \in DOMAIN file' : /\ file'[i].type = "UpdateRow"
                                                /\ file'[i].tx = tx'[s]
                                                /\ file'[i].video = video'[s]
                                                /\ \A j \in Replayed(file', video'[s]) : j < i
      BY DEF UpdateIsLast
    <3>1. /\ s # t /\ HasLoggedUpdate(s) /\ tx'[s] = tx[s] /\ video'[s] = video[s]
      BY <2>12 DEF HasLoggedUpdate
    <3>2. video[s] # w
      BY <1>1, <2>2, <3>1, OneWriter DEF HasLoggedUpdate, Protocol, Working
    <3>3. PICK i \in DOMAIN file : /\ file[i].type = "UpdateRow"
                                   /\ file[i].tx = tx[s]
                                   /\ file[i].video = video[s]
                                   /\ \A j \in Replayed(file, video[s]) : j < i
      BY <2>1, <3>1 DEF LogFollowsCalls, UpdateIsLast
    <3>4. i \in DOMAIN file' /\ file'[i] = file[i]
      BY <2>3
    <3> QED
      BY <2>5, <3>1, <3>2, <3>3, <3>4
  <2> QED
    BY <2>9, <2>10, <2>11, <2>13, <2>14 DEF LogAgrees, LogFollowsCalls
<1> QED
    BY <1>2, <1>3, <1>4 DEF OwnLog

(* A new process has a log of its own only if nobody has written to it.    *)
LEMMA NewProcessLog ==
    ASSUME TypeOK, LogIsPast, LogAgrees, Recover \/ Reopen
    PROVE  LogAgrees'
<1>1. PICK counts : NewProcess(counts)
    BY DEF Recover, Reopen
<1>2. RecoveryIsExact'
    BY <1>1 DEF NewProcess, LogAgrees, RecoveryIsExact
<1> SUFFICES ASSUME OwnLog' PROVE LogFollowsCalls'
    BY <1>2 DEF LogAgrees
<1>3. Reopen
    BY DEF OwnLog, Recover
<1>4. DOMAIN file = {}
  <2>1. \A i \in DOMAIN file : file[i].life \in Nat /\ file[i].life <= lives
    <3>1. \A i \in DOMAIN file : file[i] \in Records
      BY DEF TypeOK
    <3> QED
      BY <3>1 DEF LogIsPast, Records
  <2>2. \A i \in DOMAIN file : file[i].life = lives + 1
    BY <1>1 DEF OwnLog, NewProcess
  <2>3. lives \in Nat /\ ~(lives + 1 <= lives)
    BY DEF TypeOK
  <2>4. \A i \in DOMAIN file : FALSE
    BY <2>1, <2>2, <2>3
  <2> QED
    BY <2>4
<1>5. \A v \in Seeded : v \in Videos /\ Recovered(file)[v] = Seeds[v]
    BY <1>4, ConstantsAssumption DEF Recovered, Replayed, SeedCounts, Seeded
<1>6. \A v \in Seeded : Seeds[v] = Seeds[v] + durable[v]
    BY <1>1, <1>5 DEF NewProcess, OwnLog, LogAgrees, RecoveryIsExact
<1>7. CommittedIsDurable'
    BY <1>3, <1>5, <1>6 DEF Reopen, NewProcess, CommittedIsDurable, SeedCounts
<1>8. TxNumbered' /\ RecordsOfCall' /\ UpdateIsLast'
    BY <1>1, <1>4 DEF NewProcess, TxNumbered, RecordsOfCall, UpdateIsLast, HasLoggedUpdate
<1> QED
    BY <1>7, <1>8 DEF LogFollowsCalls

LEMMA StepLog ==
    ASSUME TypeOK, TypeOK', Protocol, LogInv, [Next]_vars
    PROVE  LogAgrees'
<1>1. LogAgrees /\ LogIsPast /\ SeedsStored /\ OldIsCommitted /\ OwnTx
    BY DEF LogInv, LogAgrees
<1>2. lastTx \in Nat /\ lastTx' \in Nat
    BY DEF TypeOK
<1>3. ASSUME NEW t \in Threads, NEW v \in Videos, NEW o, Call(t, v, o)
      PROVE  LogAgrees'
  <2>1. /\ UNCHANGED <<file, logging, appended, lives, expected, durable>>
        /\ lastTx' = lastTx /\ pc'[t] = "locking"
        /\ \A s \in Threads \ {t} : /\ pc'[s] = pc[s] /\ tx'[s] = tx[s] /\ op'[s] = op[s]
                                    /\ video'[s] = video[s] /\ old'[s] = old[s]
                                    /\ logged'[s] = logged[s]
    BY <1>3 DEF Call, TypeOK, heapVars
  <2>2. \A s \in Threads : HasLoggedUpdate(s)' => s # t
    BY <2>1 DEF HasLoggedUpdate
  <2>3. \A s \in Threads : HasLoggedUpdate(s)' =>
            HasLoggedUpdate(s) /\ tx'[s] = tx[s] /\ video'[s] = video[s]
    BY <2>1, <2>2 DEF HasLoggedUpdate
  <2>4. lastTx <= lastTx'
    BY <1>2, <2>1
  <2>5. \A s \in Threads : pc'[s] \in Working =>
            \/ tx'[s] = lastTx + 1
            \/ /\ pc[s] \in Working /\ tx'[s] = tx[s]
               /\ op'[s] = op[s] /\ video'[s] = video[s]
               /\ \/ pc[s] = "reading"
                  \/ pc'[s] # "reading" /\ old'[s] = old[s]
    BY <2>1 DEF Working
  <2> QED
    BY <1>1, <1>2, <2>1, <2>3, <2>4, <2>5, NothingLogged
<1>4. ASSUME NEW t \in Threads, NEW v \in Videos, CallDemo(t, v)
      PROVE  LogAgrees'
  <2>1. /\ UNCHANGED <<file, logging, appended, lives, expected, durable>>
        /\ lastTx' = lastTx + 1 /\ tx'[t] = lastTx + 1 /\ op'[t] = "demo"
        /\ \A s \in Threads \ {t} : /\ pc'[s] = pc[s] /\ tx'[s] = tx[s] /\ op'[s] = op[s]
                                    /\ video'[s] = video[s] /\ old'[s] = old[s]
                                    /\ logged'[s] = logged[s]
    BY <1>4 DEF CallDemo, TypeOK, heapVars
  <2>2. \A s \in Threads : HasLoggedUpdate(s)' => s # t
    BY <2>1 DEF HasLoggedUpdate
  <2>3. \A s \in Threads : HasLoggedUpdate(s)' =>
            HasLoggedUpdate(s) /\ tx'[s] = tx[s] /\ video'[s] = video[s]
    BY <2>1, <2>2 DEF HasLoggedUpdate
  <2>4. lastTx <= lastTx'
    BY <1>2, <2>1
  <2>5. \A s \in Threads : pc'[s] \in Working =>
            \/ tx'[s] = lastTx + 1
            \/ /\ pc[s] \in Working /\ tx'[s] = tx[s]
               /\ op'[s] = op[s] /\ video'[s] = video[s]
               /\ \/ pc[s] = "reading"
                  \/ pc'[s] # "reading" /\ old'[s] = old[s]
    BY <2>1 DEF Working
  <2> QED
    BY <1>1, <1>2, <2>1, <2>3, <2>4, <2>5, NothingLogged
<1>5. ASSUME NEW t \in Threads, LockRow(t)
      PROVE  LogAgrees'
  <2>1. logged[t] = 0 /\ op'[t] = op[t] /\ logged'[t] = logged[t]
    BY <1>5 DEF LockRow, Protocol, RecordsLeft
  <2>2. \A s \in Threads : HasLoggedUpdate(s)' =>
            HasLoggedUpdate(s) /\ tx'[s] = tx[s] /\ video'[s] = video[s]
    BY <1>5, <2>1 DEF LockRow, TypeOK, HasLoggedUpdate
  <2> QED
    BY <1>1, <1>2, <1>5, <2>2, NothingLogged DEF LockRow, TypeOK, Working
<1>6. ASSUME NEW t \in Threads, ReadCount(t)
      PROVE  LogAgrees'
  <2>1. logged[t] = 0 /\ op'[t] = op[t] /\ logged'[t] = logged[t]
    BY <1>6 DEF ReadCount, Protocol, RecordsLeft
  <2>2. \A s \in Threads : HasLoggedUpdate(s)' =>
            HasLoggedUpdate(s) /\ tx'[s] = tx[s] /\ video'[s] = video[s]
    BY <1>6, <2>1 DEF ReadCount, TypeOK, HasLoggedUpdate
  <2> QED
    <3>1. lastTx' = lastTx /\ UNCHANGED <<file, logging, appended, lives, expected, durable>>
      BY <1>6 DEF ReadCount
    <3>2. lastTx <= lastTx'
      BY <1>2, <3>1
    <3>3. \A s \in Threads : pc'[s] \in Working =>
              /\ pc[s] \in Working /\ tx'[s] = tx[s]
              /\ op'[s] = op[s] /\ video'[s] = video[s]
              /\ \/ pc[s] = "reading"
                 \/ pc'[s] # "reading" /\ old'[s] = old[s]
      BY <1>6 DEF ReadCount, TypeOK, Working
    <3> QED
      BY <1>1, <1>2, <2>2, <3>1, <3>2, <3>3, NothingLogged
<1>7. ASSUME NEW t \in Threads, LogRecord(t)
      PROVE  LogAgrees'
    BY <1>1, <1>7, LogRecordLog
<1>8. ASSUME NEW t \in Threads, Apply(t)
      PROVE  LogAgrees'
  <2>1. lastTx' = lastTx /\ UNCHANGED <<file, logging, appended, lives, expected, durable>>
    BY <1>8 DEF Apply
  <2>2. \A s \in Threads : HasLoggedUpdate(s)' =>
            HasLoggedUpdate(s) /\ tx'[s] = tx[s] /\ video'[s] = video[s]
    BY <1>8 DEF Apply, TypeOK, HasLoggedUpdate
  <2>3. \A s \in Threads : pc'[s] \in Working =>
            /\ pc[s] \in Working /\ tx'[s] = tx[s]
            /\ op'[s] = op[s] /\ video'[s] = video[s]
            /\ \/ pc[s] = "reading"
               \/ pc'[s] # "reading" /\ old'[s] = old[s]
    BY <1>8 DEF Apply, TypeOK, Working
  <2>4. lastTx <= lastTx'
    BY <1>2, <2>1
  <2> QED
    BY <1>1, <1>2, <2>1, <2>2, <2>3, <2>4, NothingLogged
<1>9. ASSUME NEW t \in Threads, Commit(t)
      PROVE  LogAgrees'
    BY <1>1, <1>9, CommitLog
<1>10. ASSUME NEW v \in Videos, InsertVideo(v, 0)
       PROVE  LogAgrees'
  <2>1. \A u \in Seeded : expected'[u] = expected[u]
    BY <1>1, <1>10 DEF InsertVideo, SeedsStored, TypeOK
  <2> QED
    BY <1>1, <1>2, <1>10, <2>1, NothingLogged DEF InsertVideo, callVars, HasLoggedUpdate
<1>11. CASE Recover \/ Reopen
    BY <1>1, <1>11, NewProcessLog
<1>12. CASE UNCHANGED vars
    BY <1>1, <1>2, <1>12, NothingLogged DEF vars, callVars, HasLoggedUpdate
<1> QED
    BY <1>3, <1>4, <1>5, <1>6, <1>7, <1>8, <1>9, <1>10, <1>11, <1>12 DEF Next, Step

-----------------------------------------------------------------------------
LEMMA StepLogIsPast ==
    ASSUME TypeOK, TypeOK', Protocol, LogIsPast, [Next]_vars
    PROVE  LogIsPast'
<1>1. lives \in Nat
    BY DEF TypeOK
<1>2. ASSUME UNCHANGED <<file, lives>>
      PROVE  LogIsPast'
    BY <1>2 DEF LogIsPast
<1>3. ASSUME NEW t \in Threads, NEW type \in RecordTypes, AppendRecord(t, type), lives' = lives
      PROVE  LogIsPast'
  <2>1. CASE ~logging
    BY <1>2, <1>3, <2>1 DEF AppendRecord
  <2>2. CASE logging
    <3>1. LET last == Len(file) + 1 IN
          /\ DOMAIN file' = DOMAIN file \cup {last}
          /\ \A i \in DOMAIN file : file'[i] = file[i]
          /\ file'[last].life = lives
      BY <1>3, <2>2, AppendAddsLast
    <3> QED
      BY <1>1, <1>3, <3>1 DEF LogIsPast
  <2> QED
    BY <2>1, <2>2
<1>4. ASSUME NEW counts, NewProcess(counts)
      PROVE  LogIsPast'
  <2>1. \A i \in DOMAIN file : file[i].life \in Nat
    <3>1. \A i \in DOMAIN file : file[i] \in Records
      BY DEF TypeOK
    <3> QED
      BY <3>1 DEF Records
  <2> QED
    BY <1>1, <1>4, <2>1 DEF NewProcess, LogIsPast
<1>5. ASSUME NEW t \in Threads, Step(t)
      PROVE  LogIsPast'
  <2>1. CASE LockRow(t) \/ ReadCount(t) \/ Apply(t)
    BY <1>2, <2>1 DEF LockRow, ReadCount, Apply
  <2>2. CASE LogRecord(t)
    BY <1>3, <2>2, ScriptAt DEF LogRecord, Protocol
  <2>3. CASE Commit(t)
    BY <1>3, <2>3 DEF Commit, RecordTypes
  <2> QED
    BY <1>5, <2>1, <2>2, <2>3 DEF Step
<1>6. ASSUME NEW t \in Threads, NEW v \in Videos,
             CallDemo(t, v) \/ Call(t, v, "increment") \/ Call(t, v, "title")
      PROVE  LogIsPast'
    BY <1>2, <1>6 DEF Call, CallDemo
<1>7. ASSUME NEW v \in Videos, InsertVideo(v, 0)
      PROVE  LogIsPast'
    BY <1>2, <1>7 DEF InsertVideo
<1>8. CASE UNCHANGED vars
    BY <1>2, <1>8 DEF vars
<1> QED
    BY <1>4, <1>5, <1>6, <1>7, <1>8 DEF Next, Recover, Reopen

(* Rows are only added, and a new process has the seeds again.             *)
LEMMA StepSeedsStored ==
    ASSUME SeedsStored, [Next]_vars
    PROVE  SeedsStored'
<1>1. stored' = stored \/ stored' = Seeded \/ \E v : stored' = stored \cup {v}
  <2>1. ASSUME NEW t \in Threads, Step(t)
        PROVE  stored' = stored
    BY <2>1 DEF Step, LockRow, ReadCount, LogRecord, Apply, Commit, heapVars
  <2> QED
    BY <2>1 DEF Next, Call, CallDemo, InsertVideo, Recover, Reopen, NewProcess, vars, heapVars
<1> QED
    BY <1>1 DEF SeedsStored

LEMMA InitLogInv == Init => LogInv
<1> SUFFICES ASSUME Init PROVE LogInv
    OBVIOUS
<1>1. DOMAIN file = {}
    BY DEF Init
<1>2. Seeded \subseteq Videos /\ \A v \in Seeded : Seeds[v] \in Nat
    BY ConstantsAssumption DEF Seeded
<1>3. LogIsPast /\ SeedsStored /\ OldIsCommitted /\ OwnTx
    BY <1>1 DEF Init, LogIsPast, SeedsStored, OldIsCommitted, OwnTx, Working
<1>4. CommittedIsDurable
    BY <1>2 DEF Init, CommittedIsDurable, SeedCounts
<1>5. TxNumbered /\ RecordsOfCall /\ UpdateIsLast
    BY <1>1 DEF Init, TxNumbered, RecordsOfCall, UpdateIsLast, HasLoggedUpdate
<1>6. RecoveryIsExact
    BY <1>1, <1>2 DEF Init, RecoveryIsExact, Recovered, Replayed, SeedCounts
<1> QED
    BY <1>3, <1>4, <1>5, <1>6 DEF LogInv, LogFollowsCalls

LEMMA StepLogInv == IInv /\ IInv' /\ LogInv /\ [Next]_vars => LogInv'
<1> SUFFICES ASSUME IInv, IInv', LogInv, [Next]_vars PROVE LogInv'
    OBVIOUS
<1>1. TypeOK /\ TypeOK' /\ Protocol /\ Heap
    BY DEF IInv, Protocol, Heap
<1>2. LogIsPast' /\ SeedsStored' /\ OldIsCommitted' /\ OwnTx'
    BY <1>1, StepLogIsPast, StepSeedsStored, StepOldIsCommitted, StepOwnTx DEF LogInv
<1>3. LogAgrees'
    BY <1>1, StepLog
<1> QED
    BY <1>2, <1>3 DEF LogInv, LogAgrees

(* The log follows the calls: as long as a process writes to a file of its *)
(* own, an uncommitted increment has the last UpdateRow of its row there,  *)
(* and no transaction of a call at work is committed.                      *)
THEOREM LogInvariant == Spec => []LogInv
<1>1. IInv /\ LogInv /\ [Next]_vars => LogInv' /\ IInv'
    BY StepIInv, StepLogInv
<1> QED
    BY <1>1, InitIInv, InitLogInv, PTL DEF Spec

(* Wherever the process ends, replaying the log of one process finds of    *)
(* every seeded video exactly the increments whose Commit record is in it: *)
(* the row lock orders the UpdateRow records of a row as their commits.    *)
THEOREM RecoveryCorrect == Spec => []RecoveryIsExact
<1>1. LogInv => RecoveryIsExact
    BY DEF LogInv
<1> QED
    BY <1>1, LogInvariant, PTL

-----------------------------------------------------------------------------
(* The order of the items.                                                 *)

Items == Scores \X Sessions

LEMMA LessOrders ==
    /\ \A a \in Items : ~Less(a, a)
    /\ \A a, b, c \in Items : Less(a, b) /\ Less(b, c) => Less(a, c)
    /\ \A a, b \in Items : a = b \/ Less(a, b) \/ Less(b, a)
<1>1. \A a \in Items : \E t, s \in Nat : a = <<t, s>>
    <2> TAKE a \in Items
    <2>1. PICK t \in Scores, s \in Sessions : a = <<t, s>>
        BY DEF Items
    <2> QED
        BY <2>1, SessionsAssumption
<1> QED
    BY <1>1 DEF Less

(* In an ordered list no item is twice. *)
LEMMA OrderedIsInjective ==
    ASSUME NEW list \in Seq(Items), InOrder(list),
           NEW i \in 1..Len(list), NEW j \in 1..Len(list), list[i] = list[j]
    PROVE  i = j
BY LessOrders DEF InOrder

(* The smallest member of a set of natural numbers. *)
LEMMA LeastNumber ==
    ASSUME NEW S \in SUBSET Nat, S # {}
    PROVE  \E x \in S : \A y \in S : x <= y
<1> DEFINE R == {ss \in Nat \X Nat : ss[1] < ss[2]}
<1>1. IsWellFoundedOn(R, Nat)
    BY LessThanWellFounded
<1> HIDE DEF R
<1>2. PICK x \in S : \A y \in S : <<y, x>> \notin R
    BY <1>1, WFMin
<1>3. \A y \in S : ~(y < x)
    BY <1>2 DEF R
<1> QED
    BY <1>3

(* A place for a new item: the items before it are less, the others more.  *)
LEMMA PlaceExists ==
    ASSUME NEW list \in Seq(Items), InOrder(list), NEW x \in Items,
           \A i \in 1..Len(list) : list[i] # x
    PROVE  \E k \in 1..Len(list) + 1 :
              /\ \A i \in 1..k - 1 : Less(list[i], x)
              /\ \A i \in k..Len(list) : Less(x, list[i])
<1> DEFINE n == Len(list)
           More == {i \in 1..n : Less(x, list[i])}
<1>0. n \in Nat /\ \A i \in 1..n : list[i] \in Items
    OBVIOUS
<1>1. CASE More = {}
    <2>1. \A i \in 1..n : Less(list[i], x)
        BY <1>0, <1>1, LessOrders
    <2>2. n + 1 \in 1..n + 1 /\ n + 1 - 1 = n /\ (n + 1)..n = {}
        BY <1>0
    <2> DEFINE k == n + 1
    <2>3. /\ k \in 1..Len(list) + 1
          /\ \A i \in 1..k - 1 : Less(list[i], x)
          /\ \A i \in k..Len(list) : Less(x, list[i])
        BY <2>1, <2>2
    <2> HIDE DEF k
    <2> QED
        BY <2>3
<1>2. CASE More # {}
    <2>0. More \subseteq Nat
        OBVIOUS
    <2>1. PICK k \in More : \A i \in More : k <= i
        <3> HIDE DEF More
        <3> QED
            BY <1>2, <2>0, LeastNumber
    <2>2. \A i \in 1..k - 1 : Less(list[i], x)
        <3> TAKE i \in 1..k - 1
        <3>1. i \in 1..n /\ i \notin More
            BY <2>1
        <3> QED
            BY <1>0, <3>1, LessOrders
    <2>3. \A i \in k..n : Less(x, list[i])
        <3> SUFFICES ASSUME NEW i \in k..n, i # k
                     PROVE  Less(x, list[i])
            BY <2>1
        <3>1. Less(list[k], list[i]) /\ Less(x, list[k]) /\ k \in 1..n /\ i \in 1..n
            BY <2>1 DEF InOrder
        <3> QED
            BY <1>0, <3>1, LessOrders
    <2>4. k \in 1..n + 1
        BY <1>0, <2>1
    <2> QED
        BY <2>2, <2>3, <2>4
<1> QED
    BY <1>1, <1>2

(* What list.sort() returns is there to be chosen ...                      *)
LEMMA SortedListExists ==
    ASSUME NEW list \in Seq(Items), InOrder(list), NEW x \in Items,
           \A i \in 1..Len(list) : list[i] # x
    PROVE  \E l \in [1..Len(list) + 1 -> ToSet(list) \cup {x}] : InOrder(l)
<1>1. PICK k \in 1..Len(list) + 1 :
              /\ \A i \in 1..k - 1 : Less(list[i], x)
              /\ \A i \in k..Len(list) : Less(x, list[i])
    BY PlaceExists
<1> DEFINE n == Len(list)
           l == [i \in 1..n + 1 |-> IF i < k THEN list[i]
                                    ELSE IF i = k THEN x ELSE list[i - 1]]
<1>2. n \in Nat /\ k \in 1..n + 1
    OBVIOUS
<1>3. l \in [1..n + 1 -> ToSet(list) \cup {x}]
    BY <1>2 DEF ToSet
<1>4. ASSUME NEW i \in 1..n + 1, NEW j \in 1..n + 1, i < j
      PROVE  Less(l[i], l[j])
    <2>1. CASE j < k
        BY <1>2, <1>4, <2>1 DEF InOrder
    <2>2. CASE j = k
        BY <1>1, <1>2, <1>4, <2>2
    <2>3. CASE j > k /\ i < k
        <3>1. i \in 1..n /\ j - 1 \in 1..n /\ i < j - 1 /\ l[i] = list[i] /\ l[j] = list[j - 1]
            BY <1>2, <1>4, <2>3
        <3> QED
            BY <3>1 DEF InOrder
    <2>4. CASE j > k /\ i = k
        <3>1. j - 1 \in k..n /\ l[i] = x /\ l[j] = list[j - 1]
            BY <1>2, <1>4, <2>4
        <3> QED
            BY <1>1, <3>1
    <2>5. CASE i > k
        <3>1. /\ i - 1 \in 1..n /\ j - 1 \in 1..n /\ i - 1 < j - 1
              /\ l[i] = list[i - 1] /\ l[j] = list[j - 1]
            BY <1>2, <1>4, <2>5
        <3> QED
            BY <3>1 DEF InOrder
    <2> QED
        BY <1>2, <1>4, <2>1, <2>2, <2>3, <2>4, <2>5
<1>5. InOrder(l)
    BY <1>4 DEF InOrder
<1> QED
    BY <1>3, <1>5

(* An ordered list has as many items as places. *)
LEMMA OrderedCardinality ==
    ASSUME NEW list \in Seq(Items), InOrder(list)
    PROVE  IsFiniteSet(ToSet(list)) /\ Cardinality(ToSet(list)) = Len(list)
<1> DEFINE n == Len(list)
<1>1. n \in Nat /\ list \in [1..n -> ToSet(list)]
    BY DEF ToSet
<1>2. list \in Bijection(1..n, ToSet(list))
    BY <1>1, OrderedIsInjective
       DEF ToSet, Bijection, Injection, Surjection, IsInjective
<1>3. ExistsBijection(1..n, ToSet(list))
    BY <1>2 DEF ExistsBijection
<1>4. IsFiniteSet(1..n)
    BY <1>1, FS_Interval
<1> QED
    BY <1>1, <1>3, <1>4, FS_Bijection, FS_CountingElements

(* ... and list.sort() keeps every item. *)
LEMMA SortedItemsAre ==
    ASSUME NEW list \in Seq(Items), InOrder(list), NEW x \in Items,
           \A i \in 1..Len(list) : list[i] # x
    PROVE  LET items  == ToSet(list) \cup {x}
               sorted == SortedItems(items)
           IN  sorted \in Seq(Items) /\ InOrder(sorted) /\ ToSet(sorted) = items
<1> DEFINE items == ToSet(list) \cup {x}
           sorted == SortedItems(items)
           n == Len(list) + 1
<1>1. IsFiniteSet(ToSet(list)) /\ Cardinality(ToSet(list)) = Len(list)
    BY OrderedCardinality
<1>2. x \notin ToSet(list) /\ ToSet(list) \subseteq Items
    BY DEF ToSet
<1>3. IsFiniteSet(items) /\ Cardinality(items) = n /\ n \in Nat
    <2>1. n \in Nat
        OBVIOUS
    <2>2. IsFiniteSet(items) /\ Cardinality(items) = Cardinality(ToSet(list)) + 1
        BY <1>1, <1>2, FS_AddElement
    <2> QED
        BY <1>1, <2>1, <2>2
<1>4. \E l \in [1..n -> items] : InOrder(l)
    BY SortedListExists
<1>5. sorted \in [1..n -> items] /\ InOrder(sorted)
    <2> HIDE DEF items, n
    <2> QED
        BY <1>3, <1>4 DEF SortedItems
<1>6. sorted \in Seq(Items) /\ Len(sorted) = n
    <2>1. items \subseteq Items
        BY <1>2
    <2> HIDE DEF items, n, sorted
    <2> QED
        BY <1>3, <1>5, <2>1
<1>7. ToSet(sorted) \subseteq items
    <2> HIDE DEF items, n, sorted
    <2> QED
        BY <1>5 DEF ToSet
<1>8. IsFiniteSet(ToSet(sorted)) /\ Cardinality(ToSet(sorted)) = n
    BY <1>5, <1>6, OrderedCardinality
<1> QED
    BY <1>3, <1>5, <1>6, <1>7, <1>8, FS_Subset

-----------------------------------------------------------------------------
(* The list is the sorted enumeration of the map of scores.                *)

Item(q, s) == <<q[s], s>>

Lists(list, q) ==
    /\ DOMAIN q \subseteq Sessions
    /\ q \in [DOMAIN q -> Scores]
    /\ list \in Seq(Items)
    /\ InOrder(list)
    /\ ToSet(list) = {Item(q, s) : s \in DOMAIN q}

(* A session has one place in the list. *)
LEMMA OnePlace ==
    ASSUME NEW list, NEW q, Lists(list, q)
    PROVE  /\ Len(list) \in Nat
           /\ \A i \in 1..Len(list) :
                 list[i][2] \in DOMAIN q /\ list[i] = Item(q, list[i][2])
           /\ \A s \in DOMAIN q : \E i \in 1..Len(list) : list[i] = Item(q, s)
           /\ \A i, j \in 1..Len(list) : list[i][2] = list[j][2] => i = j
<1>1. Len(list) \in Nat /\ DOMAIN list = 1..Len(list)
    BY DEF Lists
<1>2. \A i \in 1..Len(list) : list[i] \in {Item(q, s) : s \in DOMAIN q}
    BY <1>1 DEF Lists, ToSet
<1>3. \A i \in 1..Len(list) : list[i][2] \in DOMAIN q /\ list[i] = Item(q, list[i][2])
    BY <1>2 DEF Item
<1>4. \A s \in DOMAIN q : Item(q, s) \in ToSet(list)
    BY DEF Lists
<1>5. \A s \in DOMAIN q : \E i \in 1..Len(list) : list[i] = Item(q, s)
    BY <1>1, <1>4 DEF ToSet
<1>6. \A i, j \in 1..Len(list) : list[i][2] = list[j][2] => list[i] = list[j]
    BY <1>3
<1> QED
    BY <1>1, <1>3, <1>5, <1>6, OrderedIsInjective DEF Lists

(* _rebuild_positions inverts the list. *)
LEMMA PositionsInvert ==
    ASSUME NEW list, NEW q, Lists(list, q)
    PROVE  /\ DOMAIN RebuiltPositions(list) = DOMAIN q
           /\ \A i \in 1..Len(list) : RebuiltPositions(list)[list[i][2]] = i
<1>1. DOMAIN list = 1..Len(list)
    BY DEF Lists
<1>2. {list[i][2] : i \in 1..Len(list)} = DOMAIN q
    <2>1. \A i \in 1..Len(list) : list[i][2] \in DOMAIN q
        BY OnePlace
    <2>2. \A s \in DOMAIN q : \E i \in 1..Len(list) : list[i][2] = s
        BY OnePlace DEF Item
    <2> QED
        BY <2>1, <2>2
<1>3. ASSUME NEW i \in 1..Len(list)
      PROVE  (CHOOSE j \in 1..Len(list) : list[j][2] = list[i][2]) = i
    BY OnePlace
<1> DEFINE at(s) == CHOOSE i \in DOMAIN list : list[i][2] = s
           sessions == {list[i][2] : i \in DOMAIN list}
<1>4. sessions = DOMAIN q
    BY <1>1, <1>2
<1>5. ASSUME NEW i \in 1..Len(list) PROVE at(list[i][2]) = i
    BY <1>1, <1>3
<1>6. RebuiltPositions(list) = [s \in sessions |-> at(s)]
    BY DEF RebuiltPositions
<1>7. \A i \in 1..Len(list) : list[i][2] \in sessions
    BY <1>1
<1> HIDE DEF at, sessions
<1>8. DOMAIN RebuiltPositions(list) = sessions
    BY <1>6
<1>9. \A s \in sessions : RebuiltPositions(list)[s] = at(s)
    BY <1>6
<1> QED
    BY <1>4, <1>5, <1>7, <1>8, <1>9

(* The sessions before an item. *)
Ahead(q, item) == {t \in DOMAIN q : Less(Item(q, t), item)}

(* The place of a session is one more than the number of those before it.  *)
LEMMA PlaceIsRank ==
    ASSUME NEW list, NEW q, Lists(list, q), NEW i \in 1..Len(list)
    PROVE  /\ IsFiniteSet(Ahead(q, list[i]))
           /\ i = 1 + Cardinality(Ahead(q, list[i]))
<1> DEFINE ahead == {t \in DOMAIN q : Less(Item(q, t), list[i])}
           f == [j \in 1..i - 1 |-> list[j][2]]
<1>0. i \in Nat \ {0} /\ \A j \in 1..i - 1 : j \in 1..Len(list) /\ j < i
    BY OnePlace
<1>1. \A j \in 1..Len(list) : list[j] \in Items
    BY DEF Lists
<1>2. \A j \in 1..i - 1 : f[j] \in ahead
    <2> TAKE j \in 1..i - 1
    <2>1. j \in 1..Len(list) /\ j < i /\ f[j] = list[j][2]
        BY <1>0
    <2>2. Less(list[j], list[i])
        BY <2>1 DEF Lists, InOrder
    <2>3. list[j][2] \in DOMAIN q /\ list[j] = Item(q, list[j][2])
        BY <2>1, OnePlace
    <2> QED
        BY <2>1, <2>2, <2>3
<1>3. \A t \in ahead : \E j \in 1..i - 1 : f[j] = t
    <2> TAKE t \in ahead
    <2>1. PICK j \in 1..Len(list) : list[j] = Item(q, t)
        BY OnePlace
    <2>2. ~(j = i)
        BY <1>1, <2>1, LessOrders
    <2>3. ~(i < j)
        <3>1. i < j => Less(list[i], list[j])
            BY DEF Lists, InOrder
        <3> QED
            BY <1>1, <2>1, <3>1, LessOrders
    <2>4. j \in 1..i - 1
        BY <1>0, <2>2, <2>3
    <2> QED
        BY <2>1, <2>4 DEF Item
<1>4. f \in Bijection(1..i - 1, ahead)
    <2>1. f \in [1..i - 1 -> ahead]
        BY <1>2
    <2>2. \A j, k \in 1..i - 1 : f[j] = f[k] => j = k
        BY <1>0, OnePlace
    <2> HIDE DEF f, ahead
    <2> QED
        BY <1>3, <2>1, <2>2 DEF Bijection, Injection, Surjection, IsInjective
<1>5. ExistsBijection(1..i - 1, ahead)
    BY <1>4 DEF ExistsBijection
<1>6. i - 1 \in Nat /\ IsFiniteSet(1..i - 1)
    BY <1>0, FS_Interval
<1>7. IsFiniteSet(ahead) /\ Cardinality(ahead) = i - 1
    <2> HIDE DEF ahead
    <2> QED
        BY <1>5, <1>6, FS_Bijection, FS_CountingElements
<1> QED
    BY <1>0, <1>7 DEF Ahead

(* The item at place i of a part of the list is at place g[i] of the list. *)
PartOf(part, list, g) ==
    /\ part \in Seq(Items)
    /\ g \in [1..Len(part) -> 1..Len(list)]
    /\ \A i, j \in 1..Len(part) : i < j => g[i] < g[j]
    /\ \A i \in 1..Len(part) : part[i] = list[g[i]]

(* The sessions of D are those with an item in the part. *)
Names(part, q, D) ==
    /\ D \subseteq DOMAIN q
    /\ \A s \in DOMAIN q : s \in D <=> \E i \in 1..Len(part) : part[i][2] = s

(* A part of the list lists the part of the scores it names. *)
LEMMA PartLists ==
    ASSUME NEW list, NEW q, Lists(list, q),
           NEW part, NEW g, PartOf(part, list, g), NEW D, Names(part, q, D)
    PROVE  Lists(part, Restrict(q, D))
<1> USE DEF PartOf, Names
<1>0. DOMAIN part = 1..Len(part) /\ DOMAIN list = 1..Len(list)
    BY DEF Lists
<1>1. /\ DOMAIN Restrict(q, D) = D
      /\ \A s \in D : Restrict(q, D)[s] = q[s]
      /\ Restrict(q, D) \in [D -> Scores]
    BY DEF Restrict, Lists
<1>2. \A s \in D : Item(Restrict(q, D), s) = Item(q, s)
    BY <1>1 DEF Item
<1>3. InOrder(part)
    BY <1>0 DEF InOrder, Lists
<1>4. \A i \in 1..Len(part) : part[i][2] \in D /\ part[i] = Item(q, part[i][2])
    <2> TAKE i \in 1..Len(part)
    <2>1. part[i] = list[g[i]] /\ g[i] \in 1..Len(list)
        OBVIOUS
    <2>2. part[i][2] \in DOMAIN q /\ part[i] = Item(q, part[i][2])
        BY <2>1, OnePlace
    <2> QED
        BY <2>2
<1>5. \A s \in D : \E i \in 1..Len(part) : part[i] = Item(q, s)
    BY <1>4
<1>6. ToSet(part) = {Item(Restrict(q, D), s) : s \in D}
    <2>1. \A i \in 1..Len(part) : \E s \in D : part[i] = Item(Restrict(q, D), s)
        BY <1>2, <1>4
    <2>2. \A s \in D : \E i \in 1..Len(part) : part[i] = Item(Restrict(q, D), s)
        BY <1>2, <1>5
    <2> DEFINE items == {Item(Restrict(q, D), s) : s \in D}
    <2>3. ToSet(part) = {part[i] : i \in 1..Len(part)}
        BY <1>0 DEF ToSet
    <2>4. \A i \in 1..Len(part) : part[i] \in items
        BY <2>1
    <2>5. \A x \in items : \E i \in 1..Len(part) : part[i] = x
        BY <2>2
    <2> HIDE DEF items
    <2> QED
        <3>1. ToSet(part) = items
            BY <2>3, <2>4, <2>5
        <3> QED
            BY <3>1 DEF items
<1> QED
    BY <1>1, <1>3, <1>6 DEF Lists

(* The list with the item of a new session lists it too.                   *)
LEMMA MoreLists ==
    ASSUME NEW list, NEW q, Lists(list, q),
           NEW s \in Sessions \ DOMAIN q, NEW score \in Scores,
           NEW longer \in Seq(Items), InOrder(longer),
           ToSet(longer) = ToSet(list) \cup {<<score, s>>}
    PROVE  Lists(longer, Put(q, s, score))
<1>1. /\ DOMAIN Put(q, s, score) = DOMAIN q \cup {s}
      /\ Put(q, s, score)[s] = score
      /\ \A t \in DOMAIN q : Put(q, s, score)[t] = q[t]
    BY DEF Put
<1>2. Put(q, s, score) \in [DOMAIN q \cup {s} -> Scores]
    BY DEF Put, Lists
<1>3. /\ Item(Put(q, s, score), s) = <<score, s>>
      /\ \A t \in DOMAIN q : Item(Put(q, s, score), t) = Item(q, t)
    BY <1>1 DEF Item
<1>4. ToSet(longer) = {Item(Put(q, s, score), t) : t \in DOMAIN q \cup {s}}
    BY <1>3 DEF Lists
<1> QED
    BY <1>1, <1>2, <1>4 DEF Lists

-----------------------------------------------------------------------------
(* The operations of the store.                                            *)

StoreInv ==
    /\ Lists(ordered, queue)
    /\ positions = RebuiltPositions(ordered)
    /\ served \in Seq(Sessions)

LEMMA StoreInvMeans == StoreInv => StoreTypeOK /\ PositionsAreRanks
<1> SUFFICES ASSUME StoreInv
             PROVE  StoreTypeOK /\ PositionsAreRanks
    OBVIOUS
<1>1. DOMAIN positions = DOMAIN queue
    BY PositionsInvert DEF StoreInv
<1>2. StoreTypeOK
    BY <1>1 DEF StoreInv, Lists, StoreTypeOK, Items, Item
<1>3. ASSUME NEW s \in DOMAIN queue
      PROVE  positions[s] =
                1 + Cardinality({t \in DOMAIN queue :
                                    Less(<<queue[t], t>>, <<queue[s], s>>)})
    <2>1. PICK i \in 1..Len(ordered) : ordered[i] = Item(queue, s)
        BY OnePlace DEF StoreInv
    <2>2. positions[s] = i
        BY <2>1, PositionsInvert DEF StoreInv, Item
    <2>3. i = 1 + Cardinality(Ahead(queue, ordered[i]))
        <3>1. Lists(ordered, queue)
            BY DEF StoreInv
        <3> QED
            BY <3>1, PlaceIsRank
    <2> QED
        BY <2>1, <2>2, <2>3 DEF Item, Ahead
<1> QED
    BY <1>1, <1>2, <1>3 DEF PositionsAreRanks

LEMMA EnqueueStores ==
    ASSUME StoreInv, NEW s \in Sessions, NEW score \in Scores, Enqueue(s, score)
    PROVE  StoreInv' /\ DOMAIN queue' = DOMAIN queue \cup {s}
<1>1. CASE s \in DOMAIN queue
    BY <1>1 DEF Enqueue, storeVars, StoreInv
<1>2. CASE s \notin DOMAIN queue
    <2> DEFINE x == <<score, s>>
               list == Append(ordered, x)
               n == Len(ordered)
    <2>0. n \in Nat
        BY DEF StoreInv, Lists
    <2>1. /\ x \in Items /\ ordered \in Seq(Items) /\ InOrder(ordered)
          /\ n \in Nat /\ DOMAIN ordered = 1..n
          /\ \A i \in 1..n : ordered[i] \in Items
        BY DEF Items, StoreInv, Lists
    <2>2. \A i \in 1..n : ordered[i] # x
        <3> TAKE i \in 1..n
        <3>1. ordered[i][2] \in DOMAIN queue
            BY OnePlace DEF StoreInv
        <3> QED
            BY <1>2, <3>1
    <2>3. /\ list \in Seq(Items) /\ Len(list) = n + 1 /\ DOMAIN list = 1..n + 1
          /\ list[n + 1] = x /\ \A i \in 1..n : list[i] = ordered[i]
        BY <2>1
    <2>4. ToSet(list) = ToSet(ordered) \cup {x}
        <3> HIDE DEF list, x, n
        <3>1. \A i \in 1..n + 1 : i = n + 1 \/ i \in 1..n
            BY <2>1
        <3>2. (n + 1) \in 1..n + 1 /\ 1..n \subseteq 1..n + 1
            BY <2>1
        <3> QED
            BY <2>1, <2>3, <3>1, <3>2 DEF ToSet
    <2>5. queue' = Put(queue, s, score) /\ UNCHANGED served
        BY <1>2 DEF Enqueue
    <2>6. DOMAIN queue' = DOMAIN queue \cup {s}
        BY <2>5 DEF Put
    <2>7. CASE Len(list) > 1 /\ Less(list[Len(list)], list[Len(list) - 1])
        <3>1. ordered' = SortedItems(ToSet(list)) /\ positions' = RebuiltPositions(ordered')
            BY <1>2, <2>7 DEF Enqueue
        <3>2. ordered' \in Seq(Items) /\ InOrder(ordered') /\ ToSet(ordered') = ToSet(list)
            BY <2>1, <2>2, <2>4, <3>1, SortedItemsAre
        <3>3. Lists(ordered', queue')
            BY <1>2, <2>4, <2>5, <3>2, MoreLists DEF StoreInv
        <3> QED
            BY <2>5, <2>6, <3>1, <3>3 DEF StoreInv
    <2>8. CASE ~(Len(list) > 1 /\ Less(list[Len(list)], list[Len(list) - 1]))
        <3>1. ordered' = list /\ positions' = Put(positions, s, n + 1)
            BY <1>2, <2>3, <2>8 DEF Enqueue
        <3>2. \A i \in 1..n : Less(ordered[i], x)
            <4> TAKE i \in 1..n
            <4>1. n \in 1..n /\ Less(ordered[n], x)
                <5>0. n \in 1..n
                    BY <2>1
                <5>1. ~Less(x, ordered[n])
                    <6>1. /\ Len(list) > 1 /\ list[Len(list)] = x
                          /\ list[Len(list) - 1] = ordered[n]
                        BY <2>1, <2>3, <5>0
                    <6> HIDE DEF list, x
                    <6> QED
                        BY <2>8, <6>1
                <5> QED
                    BY <2>1, <2>2, <5>0, <5>1, LessOrders
            <4>2. i = n \/ Less(ordered[i], ordered[n])
                <5>1. i = n \/ i < n
                    BY <2>0
                <5> QED
                    BY <2>1, <4>1, <5>1 DEF InOrder
            <4> QED
                BY <2>1, <4>1, <4>2, LessOrders
        <3>3. InOrder(list)
            <4> SUFFICES ASSUME NEW i \in 1..n + 1, NEW j \in 1..n + 1, i < j
                         PROVE  Less(list[i], list[j])
                BY <2>3 DEF InOrder
            <4>1. i \in 1..n /\ list[i] = ordered[i]
                BY <2>1, <2>3
            <4>2. CASE j = n + 1
                BY <2>3, <3>2, <4>1, <4>2
            <4>3. CASE j \in 1..n
                BY <2>1, <2>3, <4>1, <4>3 DEF InOrder
            <4> QED
                BY <2>1, <4>2, <4>3
        <3>4. Lists(ordered', queue')
            BY <1>2, <2>3, <2>4, <2>5, <3>1, <3>3, MoreLists DEF StoreInv
        <3>5. positions' = RebuiltPositions(ordered')
            <4> DEFINE rebuilt == RebuiltPositions(list)
            <4>1. DOMAIN rebuilt = DOMAIN queue \cup {s}
                BY <2>6, <3>1, <3>4, PositionsInvert
            <4>2. \A i \in 1..n + 1 : rebuilt[list[i][2]] = i
                BY <2>3, <3>1, <3>4, PositionsInvert
            <4>3. rebuilt[s] = n + 1
                BY <2>1, <2>3, <4>2
            <4>4. ASSUME NEW t \in DOMAIN queue
                  PROVE  rebuilt[t] = positions[t]
                <5>1. PICK i \in 1..n : ordered[i] = Item(queue, t)
                    BY OnePlace DEF StoreInv
                <5>2. ordered[i][2] = t /\ list[i][2] = t
                    BY <2>3, <5>1 DEF Item
                <5>3. positions[t] = i
                    BY <5>2, PositionsInvert DEF StoreInv
                <5>4. i \in 1..n + 1
                    BY <2>1
                <5>5. rebuilt[t] = i
                    BY <4>2, <5>2, <5>4
                <5> QED
                    BY <5>3, <5>5
            <4>5. DOMAIN positions = DOMAIN queue
                BY PositionsInvert DEF StoreInv
            <4>6. rebuilt = [t \in DOMAIN rebuilt |-> rebuilt[t]]
                BY DEF RebuiltPositions
            <4> HIDE DEF rebuilt
            <4>7. rebuilt = Put(positions, s, n + 1)
                BY <1>2, <4>1, <4>3, <4>4, <4>5, <4>6 DEF Put
            <4> QED
                BY <3>1, <4>7 DEF rebuilt
        <3> QED
            BY <2>5, <2>6, <3>4, <3>5 DEF StoreInv
    <2> QED
        BY <2>7, <2>8
<1> QED
    BY <1>1, <1>2

(* What is served is the front of the list, what stays is the rest. *)
LEMMA DequeueStores ==
    ASSUME StoreInv, NEW limit \in Nat, Dequeue(limit)
    PROVE  /\ StoreInv'
           /\ DOMAIN queue' = DOMAIN queue \ ToSet(served')
           /\ \E n \in Nat :
                 /\ n <= Len(ordered) /\ n <= limit /\ (n = Len(ordered) \/ n = limit)
                 /\ Len(served') = n
                 /\ \A r \in 1..n : served'[r] = ordered[r][2]
<1> DEFINE n == IF limit < Len(ordered) THEN limit ELSE Len(ordered)
           len == Len(ordered)
           D == DOMAIN queue \ ToSet(served')
           part == SubSeq(ordered, n + 1, len)
           g == [i \in 1..len - n |-> n + i]
<1>0. /\ Lists(ordered, queue) /\ ordered \in Seq(Items)
      /\ \A i \in 1..len : ordered[i] \in Items
    BY DEF StoreInv, Lists
<1>1. /\ n \in Nat /\ len \in Nat /\ n <= len /\ n <= limit
      /\ n = Len(ordered) \/ n = limit
    BY <1>0
<1>2. /\ served' = [i \in 1..n |-> ordered[i][2]]
      /\ ordered' = part
      /\ queue' = Restrict(queue, D)
      /\ positions' = RebuiltPositions(ordered')
    BY DEF Dequeue
<1>3. /\ part \in Seq(Items) /\ Len(part) = len - n
      /\ \A i \in 1..len - n : part[i] = ordered[n + i]
    <2>1. \A i \in n + 1..len : ordered[i] \in Items
        BY <1>0, <1>1
    <2>2. n + 1 \in Int /\ len \in Int
        BY <1>1
    <2>3. part \in Seq(Items)
        BY <2>1, <2>2, SubSeqProperties
    <2>4. Len(part) = IF n + 1 <= len THEN len - (n + 1) + 1 ELSE 0
        BY ZenonT(60), <2>1, <2>2, SubSeqProperties
    <2>5. \A i \in 1..len - (n + 1) + 1 : part[i] = ordered[n + 1 + i - 1]
        BY <2>1, <2>2, SubSeqProperties
    <2> HIDE DEF n, len, part
    <2>6. Len(part) = len - n
        BY <1>1, <2>4
    <2>7. \A i \in 1..len - n : i \in 1..len - (n + 1) + 1 /\ n + 1 + i - 1 = n + i
        BY <1>1
    <2> QED
        BY <2>3, <2>5, <2>6, <2>7
<1>4. \A i \in 1..n : ordered[i][2] \in DOMAIN queue /\ ordered[i][2] \in Sessions
    <2>1. \A i \in 1..n : i \in 1..len
        BY <1>1
    <2> HIDE DEF n
    <2> QED
        BY <1>0, <2>1, OnePlace DEF Lists
<1>5. served' \in Seq(Sessions) /\ Len(served') = n /\ DOMAIN served' = 1..n
    <2> HIDE DEF n
    <2> QED
        BY <1>1, <1>2, <1>4
<1>6. ToSet(served') = {ordered[i][2] : i \in 1..n}
    <2> HIDE DEF n
    <2> QED
        BY <1>2, <1>5 DEF ToSet
<1>7. \A s \in DOMAIN queue : s \in D <=> \E i \in 1..len - n : part[i][2] = s
    <2> SUFFICES ASSUME NEW s \in DOMAIN queue
                 PROVE  s \in D <=> \E i \in 1..len - n : part[i][2] = s
        OBVIOUS
    <2>1. PICK k \in 1..len : ordered[k] = Item(queue, s)
        BY <1>0, OnePlace
    <2>2. ordered[k][2] = s
        BY <2>1 DEF Item
    <2>3. \A i \in 1..len : ordered[i][2] = s => i = k
        BY <1>0, <2>2, OnePlace
    <2>4. s \in D <=> ~(k <= n)
        <3> HIDE DEF n, len
        <3> QED
            BY <1>1, <1>6, <2>2, <2>3 DEF len
    <2>5. ASSUME k > n
          PROVE  \E i \in 1..len - n : part[i][2] = s
        <3>1. k - n \in 1..len - n /\ n + (k - n) = k
            <4> HIDE DEF n, len
            <4> QED
                BY <1>1, <2>5
        <3>2. PICK j \in 1..len - n : n + j = k
            BY <3>1
        <3>3. part[j] = ordered[k]
            BY <1>3, <3>2
        <3> HIDE DEF n, len, part
        <3> QED
            BY <2>2, <3>3
    <2>6. ASSUME NEW i \in 1..len - n, part[i][2] = s
          PROVE  k > n
        <3>1. n + i \in 1..len /\ n + i > n
            <4> HIDE DEF n, len
            <4> QED
                BY <1>1
        <3>2. ordered[n + i][2] = s
            BY <1>3, <2>6
        <3>3. n + i = k
            BY <2>3, <3>1, <3>2
        <3> QED
            BY <3>1, <3>3
    <2>7. k > n <=> ~(k <= n)
        BY <1>1
    <2> QED
        BY <2>4, <2>5, <2>6, <2>7
<1>8. /\ g \in [1..Len(part) -> 1..Len(ordered)]
      /\ \A i, j \in 1..Len(part) : i < j => g[i] < g[j]
      /\ \A i \in 1..Len(part) : part[i] = ordered[g[i]]
    <2>1. g \in [1..len - n -> 1..len]
        <3> HIDE DEF n, len
        <3> QED
            BY <1>1
    <2>2. \A i \in 1..len - n : g[i] = n + i
        OBVIOUS
    <2> HIDE DEF g, n, len, part
    <2>3. \A i, j \in 1..len - n : i < j => g[i] < g[j]
        BY <1>1, <2>2
    <2> QED
        BY <1>3, <2>1, <2>2, <2>3 DEF len
<1>9. Lists(part, Restrict(queue, D))
    <2>1. \A s \in DOMAIN queue : s \in D <=> \E i \in 1..Len(part) : part[i][2] = s
        BY <1>3, <1>7
    <2>2. D \in SUBSET DOMAIN queue
        OBVIOUS
    <2> HIDE DEF g, n, len, part, D
    <2>3. PartOf(part, ordered, g)
        BY <1>3, <1>8 DEF PartOf
    <2>4. Names(part, queue, D)
        BY <2>1, <2>2 DEF Names
    <2> QED
        BY <1>0, <2>3, <2>4, PartLists
<1>10. StoreInv'
    <2> HIDE DEF g, n, len, part, D
    <2> QED
        BY <1>2, <1>5, <1>9 DEF StoreInv
<1>11. DOMAIN queue' = D
    <2> HIDE DEF D
    <2> QED
        BY <1>2 DEF Restrict
<1>12. \A r \in 1..n : served'[r] = ordered[r][2]
    <2> HIDE DEF n
    <2> QED
        BY <1>2
<1> QED
    <2> HIDE DEF n
    <2> QED
        BY <1>1, <1>5, <1>10, <1>11, <1>12

LEMMA RemoveStores ==
    ASSUME StoreInv, NEW s \in Sessions, RemoveSession(s)
    PROVE  /\ StoreInv'
           /\ DOMAIN queue' = DOMAIN queue \ {s}
           /\ s \in DOMAIN queue =>
                 /\ queue' = Restrict(queue, DOMAIN queue \ {s})
                 /\ UNCHANGED served
<1>1. CASE s \notin DOMAIN queue
    BY <1>1 DEF RemoveSession, storeVars, StoreInv
<1>2. CASE s \in DOMAIN queue
    <2> DEFINE len == Len(ordered)
               k == CHOOSE i \in DOMAIN ordered : ordered[i][2] = s
               before == SubSeq(ordered, 1, k - 1)
               after == SubSeq(ordered, k + 1, len)
               part == before \o after
               D == DOMAIN queue \ {s}
               g == [i \in 1..len - 1 |-> IF i < k THEN i ELSE i + 1]
    <2>0. /\ Lists(ordered, queue) /\ ordered \in Seq(Items) /\ len \in Nat
          /\ \A i \in 1..len : ordered[i] \in Items
          /\ DOMAIN ordered = 1..len
        BY DEF StoreInv, Lists
    <2>1. k \in 1..len /\ ordered[k][2] = s
        <3>1. \E i \in DOMAIN ordered : ordered[i][2] = s
            BY <1>2, <2>0, OnePlace DEF Item
        <3> QED
            BY <2>0, <3>1
    <2>2. /\ queue' = Restrict(queue, D) /\ UNCHANGED served
          /\ ordered' = part /\ positions' = RebuiltPositions(ordered')
        BY <1>2 DEF RemoveSession, WithoutItem, RemoveAt
    <2> HIDE DEF k
    <2>3. /\ before \in Seq(Items) /\ Len(before) = k - 1
          /\ \A i \in 1..k - 1 : before[i] = ordered[i]
        <3>1. \A i \in 1..k - 1 : ordered[i] \in Items
            BY <2>0, <2>1
        <3>2. k - 1 \in Int /\ 1 \in Int
            BY <2>1
        <3>3. before \in Seq(Items)
            BY <3>1, <3>2, SubSeqProperties
        <3>4. Len(before) = IF 1 <= k - 1 THEN k - 1 - 1 + 1 ELSE 0
            BY <3>1, <3>2, SubSeqProperties
        <3>5. \A i \in 1..k - 1 - 1 + 1 : before[i] = ordered[1 + i - 1]
            BY <3>1, <3>2, SubSeqProperties
        <3> HIDE DEF before
        <3>6. Len(before) = k - 1
            BY <2>1, <3>4
        <3>7. \A i \in 1..k - 1 : i \in 1..k - 1 - 1 + 1 /\ 1 + i - 1 = i
            BY <2>1
        <3> QED
            BY <3>3, <3>5, <3>6, <3>7
    <2>4. /\ after \in Seq(Items) /\ Len(after) = len - k
          /\ \A i \in 1..len - k : after[i] = ordered[k + i]
        <3>1. \A i \in k + 1..len : ordered[i] \in Items
            BY <2>0, <2>1
        <3>2. k + 1 \in Int /\ len \in Int
            BY <2>0, <2>1
        <3>3. after \in Seq(Items)
            BY <3>1, <3>2, SubSeqProperties
        <3>4. Len(after) = IF k + 1 <= len THEN len - (k + 1) + 1 ELSE 0
            BY <3>1, <3>2, SubSeqProperties
        <3>5. \A i \in 1..len - (k + 1) + 1 : after[i] = ordered[k + 1 + i - 1]
            BY <3>1, <3>2, SubSeqProperties
        <3> HIDE DEF after, len
        <3>6. Len(after) = len - k
            BY <2>0, <2>1, <3>4
        <3>7. \A i \in 1..len - k : i \in 1..len - (k + 1) + 1 /\ k + 1 + i - 1 = k + i
            BY <2>0, <2>1
        <3> QED
            BY <3>3, <3>5, <3>6, <3>7
    <2> HIDE DEF before, after, len
    <2>5. /\ part \in Seq(Items) /\ Len(part) = len - 1
          /\ \A i \in 1..len - 1 : part[i] = ordered[g[i]]
        <3>1. /\ part \in Seq(Items) /\ Len(part) = Len(before) + Len(after)
              /\ \A i \in 1..Len(before) + Len(after) :
                    part[i] = IF i <= Len(before) THEN before[i] ELSE after[i - Len(before)]
            BY <2>3, <2>4, ConcatProperties
        <3>2. Len(before) + Len(after) = len - 1
            BY <2>0, <2>1, <2>3, <2>4
        <3> HIDE DEF part
        <3>3. ASSUME NEW i \in 1..len - 1
              PROVE  part[i] = ordered[g[i]]
            <4>1. CASE i < k
                <5>1. i \in 1..k - 1 /\ i <= Len(before) /\ g[i] = i
                    BY <2>0, <2>1, <2>3, <4>1
                <5> QED
                    BY <2>3, <3>1, <3>2, <5>1
            <4>2. CASE i >= k
                <5>1. /\ i - (k - 1) \in 1..len - k /\ k + (i - (k - 1)) = i + 1
                      /\ ~(i <= Len(before)) /\ g[i] = i + 1
                    BY <2>0, <2>1, <2>3, <4>2
                <5>2. part[i] = after[i - (k - 1)]
                    BY <2>3, <3>1, <3>2, <5>1
                <5>3. after[i - (k - 1)] = ordered[k + (i - (k - 1))]
                    BY <2>4, <5>1
                <5> QED
                    BY <5>1, <5>2, <5>3
            <4> QED
                BY <2>0, <2>1, <4>1, <4>2
        <3> QED
            BY <3>1, <3>2, <3>3
    <2>6. /\ g \in [1..len - 1 -> 1..len]
          /\ \A i, j \in 1..len - 1 : i < j => g[i] < g[j]
          /\ \A i \in 1..len - 1 : g[i] # k
          /\ \A j \in 1..len : j # k => \E i \in 1..len - 1 : g[i] = j
        <3>1. /\ g \in [1..len - 1 -> 1..len]
              /\ \A i, j \in 1..len - 1 : i < j => g[i] < g[j]
              /\ \A i \in 1..len - 1 : g[i] # k
            BY <2>0, <2>1
        <3>2. ASSUME NEW j \in 1..len, j < k
              PROVE  j \in 1..len - 1 /\ g[j] = j
            BY <2>0, <2>1, <3>2
        <3>3. ASSUME NEW j \in 1..len, j > k
              PROVE  j - 1 \in 1..len - 1 /\ g[j - 1] = j
            BY <2>0, <2>1, <3>3
        <3>4. \A j \in 1..len : j = k \/ j < k \/ j > k
            BY <2>0, <2>1
        <3> HIDE DEF g
        <3> QED
            BY <3>1, <3>2, <3>3, <3>4
    <2>7. \A t \in DOMAIN queue : t \in D <=> \E i \in 1..len - 1 : part[i][2] = t
        <3> HIDE DEF g, part
        <3> SUFFICES ASSUME NEW t \in DOMAIN queue
                     PROVE  t # s <=> \E i \in 1..len - 1 : part[i][2] = t
            OBVIOUS
        <3>1. PICK j \in 1..len : ordered[j] = Item(queue, t)
            BY <2>0, OnePlace DEF len
        <3>2. ordered[j][2] = t
            BY <3>1 DEF Item
        <3>3. \A i \in 1..len : ordered[i][2] = t => i = j
            BY <2>0, <3>2, OnePlace DEF len
        <3>4. t = s <=> j = k
            BY <2>1, <3>2, <3>3
        <3>5. j # k => \E i \in 1..len - 1 : part[i][2] = t
            BY <2>5, <2>6, <3>2
        <3>6. ASSUME NEW i \in 1..len - 1, part[i][2] = t
              PROVE  j # k
            BY <2>5, <2>6, <3>3, <3>6
        <3> QED
            BY <3>4, <3>5, <3>6
    <2>8. Lists(part, Restrict(queue, D))
        <3> HIDE DEF g, part
        <3>1. D \in SUBSET DOMAIN queue
            OBVIOUS
        <3> HIDE DEF D
        <3>2. PartOf(part, ordered, g)
            BY <2>5, <2>6 DEF PartOf, len
        <3>3. Names(part, queue, D)
            BY <2>5, <2>7, <3>1 DEF Names
        <3> QED
            BY <2>0, <3>2, <3>3, PartLists
    <2>9. StoreInv'
        <3> HIDE DEF g, part, D
        <3> QED
            BY <2>2, <2>8 DEF StoreInv
    <2> QED
        BY <2>2, <2>9 DEF Restrict
<1> QED
    BY <1>1, <1>2

-----------------------------------------------------------------------------
(* The invariant of the waiting queue.                                     *)

(* A join request that has begun is one of a session. *)
JoinersKnown == \A b \in Tabs : tab[b] # "idle" => joining[b] \in Sessions

QInv == StoreInv /\ QueueTypeOK /\ JoinersKnown /\ NobodyForgotten

LEMMA InitQInv == QueueInit => QInv
<1> SUFFICES ASSUME QueueInit
             PROVE  QInv
    OBVIOUS
<1>1. queue = <<>> /\ ordered = <<>> /\ positions = <<>> /\ served = <<>>
    BY DEF QueueInit, StoreInit
<1>2. Lists(ordered, queue)
    <2>1. ordered \in Seq(Items) /\ DOMAIN ordered = {}
        BY <1>1
    <2>2. DOMAIN queue = {} /\ queue \in [DOMAIN queue -> Scores]
        BY <1>1
    <2>3. ToSet(ordered) = {} /\ {Item(queue, s) : s \in DOMAIN queue} = {}
        BY <2>1, <2>2 DEF ToSet
    <2>4. InOrder(ordered)
        BY <2>1 DEF InOrder
    <2> QED
        BY <2>1, <2>2, <2>3, <2>4 DEF Lists
<1>3. positions = RebuiltPositions(ordered)
    BY <1>1 DEF RebuiltPositions
<1>4. StoreInv
    BY <1>1, <1>2, <1>3 DEF StoreInv
<1>5. StoreTypeOK
    BY <1>4, StoreInvMeans
<1>6. hand \in [Admins -> Seq(Sessions)]
    <2>1. <<>> \in Seq(Sessions)
        OBVIOUS
    <2> QED
        BY <2>1 DEF QueueInit
<1>7. QueueTypeOK
    BY <1>5, <1>6 DEF QueueInit, QueueTypeOK
<1>8. JoinersKnown /\ NobodyForgotten
    BY DEF QueueInit, JoinersKnown, NobodyForgotten
<1> QED
    BY <1>4, <1>7, <1>8 DEF QInv

(* What the store keeps when it is not called. *)
LEMMA StoreUntouched == StoreInv /\ UNCHANGED storeVars => StoreInv' /\ StoreTypeOK'
<1>1. StoreInv /\ UNCHANGED storeVars => StoreInv'
    BY DEF StoreInv, storeVars
<1>2. StoreInv' => StoreTypeOK'
    BY StoreInvMeans, PTL
<1> QED
    BY <1>1, <1>2

LEMMA JoinQInv ==
    ASSUME QInv, NEW b \in Tabs, Join(b)
    PROVE  QInv'
<1> USE DEF QInv
<1>1. CASE JoinCheck(b) \/ JoinAtOnce(b) \/ \E s \in Sessions : JoinSettings(b, s)
    <2>1. StoreInv' /\ StoreTypeOK'
        BY <1>1, StoreUntouched DEF JoinCheck, JoinAtOnce, JoinSettings
    <2>2. QueueTypeOK' /\ JoinersKnown'
        BY ZenonT(60), <1>1, <2>1 DEF JoinCheck, JoinAtOnce, JoinSettings, JoinReturn, MarkAdmitted,
                          QueueTypeOK, JoinersKnown
    <2>3. NobodyForgotten'
        BY <1>1 DEF JoinCheck, JoinAtOnce, JoinSettings, MarkAdmitted, storeVars,
                    NobodyForgotten
    <2> QED
        BY <2>1, <2>2, <2>3
<1>2. CASE JoinQueue(b)
    <2>1. PICK score \in Scores : Enqueue(joining[b], score)
        BY <1>2 DEF JoinQueue
    <2>2. joining[b] \in Sessions
        BY <1>2 DEF JoinQueue, JoinersKnown
    <2>3. StoreInv' /\ DOMAIN queue' = DOMAIN queue \cup {joining[b]}
        BY <2>1, <2>2, EnqueueStores
    <2>4. StoreTypeOK'
        BY <2>3, StoreInvMeans, PTL
    <2>5. QueueTypeOK' /\ JoinersKnown'
        BY <1>2, <2>2, <2>4 DEF JoinQueue, JoinReturn, QueueTypeOK, JoinersKnown
    <2>6. NobodyForgotten'
        BY <1>2, <2>3 DEF JoinQueue, NobodyForgotten
    <2> QED
        BY <2>3, <2>5, <2>6
<1> QED
    BY <1>1, <1>2 DEF Join

(* The sessions an admit request has not yet marked. *)
LEMMA TailHolds ==
    ASSUME NEW list \in Seq(Sessions), list # <<>>
    PROVE  /\ Head(list) \in Sessions /\ Tail(list) \in Seq(Sessions)
           /\ \A s \in ToSet(list) : s = Head(list) \/ s \in ToSet(Tail(list))
<1>1. /\ Head(list) \in Sessions /\ Tail(list) \in Seq(Sessions)
      /\ Len(list) \in Nat \ {0} /\ Len(Tail(list)) = Len(list) - 1
      /\ \A i \in 1..Len(Tail(list)) : Tail(list)[i] = list[i + 1]
    BY HeadTailProperties, EmptySeq, LenProperties
<1>2. ASSUME NEW i \in 1..Len(list), i # 1
      PROVE  list[i] \in ToSet(Tail(list))
    <2>1. i - 1 \in 1..Len(Tail(list)) /\ Tail(list)[i - 1] = list[i]
        BY <1>1, <1>2
    <2>2. DOMAIN Tail(list) = 1..Len(Tail(list))
        BY <1>1
    <2> QED
        BY <2>1, <2>2 DEF ToSet
<1>3. list[1] = Head(list)
    OBVIOUS
<1> QED
    BY <1>1, <1>2, <1>3 DEF ToSet

LEMMA AdmitQInv ==
    ASSUME QInv, NEW a \in Admins, Admit(a)
    PROVE  QInv'
<1> USE DEF QInv
<1>0. hand \in [Admins -> Seq(Sessions)]
    BY DEF QueueTypeOK
<1>1. CASE AdmitNext(a)
    <2>1. PICK limit \in Limits : Dequeue(limit)
        BY <1>1 DEF AdmitNext
    <2>2. limit \in Nat
        BY QueueAssumption
    <2>3. StoreInv' /\ DOMAIN queue' = DOMAIN queue \ ToSet(served')
        BY <2>1, <2>2, DequeueStores
    <2>4. StoreTypeOK'
        BY <2>3, StoreInvMeans, PTL
    <2>5. hand[a] = <<>> /\ hand' = [hand EXCEPT ![a] = served']
        BY <1>1 DEF AdmitNext
    <2>6. hand' \in [Admins -> Seq(Sessions)]
        BY <1>0, <2>3, <2>5 DEF StoreInv
    <2>7. QueueTypeOK' /\ JoinersKnown'
        BY <1>1, <2>4, <2>6 DEF AdmitNext, joinVars, QueueTypeOK, JoinersKnown
    <2>8. NobodyForgotten'
        <3> SUFFICES ASSUME crashes' = 0, NEW s \in waiting'
                     PROVE  s \in DOMAIN queue' \/ \E c \in Admins : s \in ToSet(hand'[c])
            BY DEF NobodyForgotten
        <3>1. crashes = 0 /\ s \in waiting
            BY <1>1 DEF AdmitNext
        <3>2. CASE s \in DOMAIN queue
            BY <1>0, <2>3, <2>5, <3>2
        <3>3. CASE \E c \in Admins : s \in ToSet(hand[c])
            <4>1. PICK c \in Admins : s \in ToSet(hand[c])
                BY <3>3
            <4>2. c # a
                BY <2>5, <4>1 DEF ToSet
            <4> QED
                BY <1>0, <2>5, <4>1, <4>2
        <3> QED
            BY <3>1, <3>2, <3>3 DEF NobodyForgotten
    <2> QED
        BY <2>3, <2>7, <2>8
<1>2. CASE AdmitMark(a)
    <2>1. StoreInv' /\ StoreTypeOK'
        BY <1>2, StoreUntouched DEF AdmitMark
    <2>2. hand[a] # <<>> /\ hand' = [hand EXCEPT ![a] = Tail(@)]
        BY <1>2 DEF AdmitMark
    <2>3. /\ Head(hand[a]) \in Sessions /\ Tail(hand[a]) \in Seq(Sessions)
          /\ \A s \in ToSet(hand[a]) : s = Head(hand[a]) \/ s \in ToSet(Tail(hand[a]))
        BY <1>0, <2>2, TailHolds
    <2>4. hand' \in [Admins -> Seq(Sessions)]
        BY <1>0, <2>2, <2>3
    <2>5. QueueTypeOK' /\ JoinersKnown'
        BY <1>2, <2>1, <2>3, <2>4
           DEF AdmitMark, MarkAdmitted, joinVars, QueueTypeOK, JoinersKnown
    <2>6. NobodyForgotten'
        <3> SUFFICES ASSUME crashes' = 0, NEW s \in waiting'
                     PROVE  s \in DOMAIN queue' \/ \E c \in Admins : s \in ToSet(hand'[c])
            BY DEF NobodyForgotten
        <3>1. crashes = 0 /\ s \in waiting /\ s # Head(hand[a]) /\ UNCHANGED queue
            BY <1>2 DEF AdmitMark, MarkAdmitted, storeVars
        <3>2. CASE s \in DOMAIN queue
            BY <3>1, <3>2
        <3>3. CASE \E c \in Admins : s \in ToSet(hand[c])
            <4>1. PICK c \in Admins : s \in ToSet(hand[c])
                BY <3>3
            <4>2. s \in ToSet(hand'[c])
                <5>1. CASE c = a
                    BY <1>0, <2>2, <2>3, <3>1, <4>1, <5>1
                <5>2. CASE c # a
                    BY <1>0, <2>2, <4>1, <5>2
                <5> QED
                    BY <5>1, <5>2
            <4> QED
                BY <4>2
        <3> QED
            BY <3>1, <3>2, <3>3 DEF NobodyForgotten
    <2> QED
        BY <2>1, <2>5, <2>6
<1>3. CASE AdmitCrash(a)
    <2>1. StoreInv' /\ StoreTypeOK'
        BY <1>3, StoreUntouched DEF AdmitCrash
    <2>2. hand' \in [Admins -> Seq(Sessions)]
        BY <1>0, <1>3 DEF AdmitCrash
    <2>3. crashes \in Nat /\ crashes' = crashes + 1
        BY <1>3 DEF AdmitCrash, QueueTypeOK
    <2>4. QueueTypeOK' /\ JoinersKnown'
        BY <1>3, <2>1, <2>2, <2>3 DEF AdmitCrash, joinVars, QueueTypeOK, JoinersKnown
    <2>5. NobodyForgotten'
        BY <2>3 DEF NobodyForgotten
    <2> QED
        BY <2>1, <2>4, <2>5
<1> QED
    BY <1>1, <1>2, <1>3 DEF Admit

LEMMA OtherQInv ==
    ASSUME QInv,
           \/ \E s \in Sessions : Leave(s) \/ Expire(s)
           \/ ConfigureEvent
           \/ UNCHANGED queueVars
    PROVE  QInv'
<1> USE DEF QInv
<1>1. ASSUME NEW s \in Sessions, Leave(s)
      PROVE  QInv'
    <2>1. StoreInv' /\ DOMAIN queue' = DOMAIN queue \ {s}
        BY <1>1, RemoveStores DEF Leave
    <2>2. StoreTypeOK'
        BY <2>1, StoreInvMeans, PTL
    <2>3. QueueTypeOK' /\ JoinersKnown'
        BY <1>1, <2>2 DEF Leave, joinVars, QueueTypeOK, JoinersKnown
    <2>4. NobodyForgotten'
        BY <1>1, <2>1 DEF Leave, NobodyForgotten
    <2> QED
        BY <2>1, <2>3, <2>4
<1>2. CASE (\E s \in Sessions : Expire(s)) \/ ConfigureEvent \/ UNCHANGED queueVars
    <2>1. UNCHANGED storeVars
        BY <1>2 DEF Expire, ConfigureEvent, queueVars
    <2>2. StoreInv' /\ StoreTypeOK'
        BY <2>1, StoreUntouched
    <2>3. UNCHANGED <<joining, tab, saw, hand, crashes>>
        BY <1>2 DEF Expire, ConfigureEvent, queueVars, joinVars
    <2>4. enabled' \in BOOLEAN
        BY <1>2, Zenon DEF Expire, ConfigureEvent, queueVars, QueueTypeOK
    <2>5. toggles' \in Nat
        BY <1>2 DEF Expire, ConfigureEvent, queueVars, QueueTypeOK
    <2>6. admitted' \subseteq Sessions /\ waiting' \subseteq Sessions
        BY <1>2 DEF Expire, ConfigureEvent, queueVars, QueueTypeOK
    <2>7. QueueTypeOK' /\ JoinersKnown'
        BY <2>2, <2>3, <2>4, <2>5, <2>6 DEF QueueTypeOK, JoinersKnown
    <2>8. NobodyForgotten'
        BY <1>2, <2>1 DEF Expire, ConfigureEvent, queueVars, storeVars, NobodyForgotten
    <2> QED
        BY <2>2, <2>7, <2>8
<1> QED
    BY <1>1, <1>2

LEMMA StepQInv == QInv /\ [QueueNext]_queueVars => QInv'
BY JoinQInv, AdmitQInv, OtherQInv DEF QueueNext

(* The list is the sorted enumeration of the scores, the positions are its *)
(* inverse, and nobody who waits has dropped out of the queue.             *)
THEOREM QueueInvariant == QueueSpec => []QInv
BY InitQInv, StepQInv, PTL DEF QueueSpec

(* The position a client is shown is its rank among those who wait.        *)
THEOREM PositionsCorrect == QueueSpec => []PositionsAreRanks
<1>1. QInv => PositionsAreRanks
    BY StoreInvMeans DEF QInv
<1> QED
    BY <1>1, QueueInvariant, PTL

(* Who was told QUEUED is in the queue or in the hands of an admit request *)
(* until it is admitted or leaves, as long as no admit request dies.       *)
THEOREM NobodyIsForgotten == QueueSpec => []NobodyForgotten
<1>1. QInv => NobodyForgotten
    BY DEF QInv
<1> QED
    BY <1>1, QueueInvariant, PTL

-----------------------------------------------------------------------------
(* The store implements the sorted set.                                    *)

LEMMA SameCardinality == \A S : Sorted!Cardinality(S) = Cardinality(S)
BY DEF Sorted!Cardinality, Cardinality

LEMMA RankIsPlace ==
    ASSUME StoreInv, NEW i \in 1..Len(ordered)
    PROVE  Sorted!Rank(ordered[i][2]) = i
<1>1. Lists(ordered, queue)
    BY DEF StoreInv
<1>2. ordered[i][2] \in DOMAIN queue /\ ordered[i] = Item(queue, ordered[i][2])
    BY <1>1, OnePlace
<1> DEFINE s == ordered[i][2]
<1>3. {t \in DOMAIN queue : Sorted!Before(t, s)} = Ahead(queue, Item(queue, s))
    BY DEF Sorted!Before, Ahead, Item, Less
<1>4. i = 1 + Cardinality(Ahead(queue, Item(queue, s)))
    BY <1>1, <1>2, PlaceIsRank
<1>5. Sorted!Rank(s) = 1 + Cardinality({t \in DOMAIN queue : Sorted!Before(t, s)})
    BY SameCardinality DEF Sorted!Rank
<1> QED
    BY <1>3, <1>4, <1>5

(* What the sorted set pops. *)
Popped(limit) == {s \in DOMAIN queue : Sorted!Rank(s) <= limit}

(* The front of the list are the sessions of the lowest ranks. *)
LEMMA FrontIsPopped ==
    ASSUME StoreInv, NEW n \in Nat, n <= Len(ordered),
           NEW limit \in Nat, n <= limit, n = Len(ordered) \/ n = limit
    PROVE  /\ Popped(limit) = {ordered[r][2] : r \in 1..n}
           /\ Cardinality(Popped(limit)) = n
           /\ \A r \in 1..n :
                 (CHOOSE s \in Popped(limit) : Sorted!Rank(s) = r) = ordered[r][2]
<1> DEFINE len == Len(ordered)
           popped == {s \in DOMAIN queue : Sorted!Rank(s) <= limit}
           f == [r \in 1..n |-> ordered[r][2]]
<1>0. Lists(ordered, queue) /\ len \in Nat
    BY DEF StoreInv, Lists
<1>1. \A i \in 1..len : ordered[i][2] \in DOMAIN queue
    BY <1>0, OnePlace
<1>2. \A s \in DOMAIN queue : \E i \in 1..len : ordered[i][2] = s
    BY <1>0, OnePlace DEF Item
<1>3. \A i \in 1..len : ordered[i][2] \in popped <=> i <= n
    <2> SUFFICES ASSUME NEW i \in 1..len
                 PROVE  ordered[i][2] \in popped <=> i <= n
        OBVIOUS
    <2>1. Sorted!Rank(ordered[i][2]) = i
        BY RankIsPlace
    <2>2. i <= limit <=> i <= n
        BY <1>0
    <2> QED
        BY <1>1, <2>1, <2>2
<1>4. popped = {ordered[r][2] : r \in 1..n}
    <2>1. \A r \in 1..n : r \in 1..len /\ r <= n
        BY <1>0
    <2>2. \A i \in 1..len : i <= n => i \in 1..n
        BY <1>0
    <2>3. \A r \in 1..n : ordered[r][2] \in popped
        BY <1>3, <2>1
    <2>4. \A s \in popped : s \in DOMAIN queue
        OBVIOUS
    <2>5. \A s \in popped : \E r \in 1..n : ordered[r][2] = s
        <3> HIDE DEF popped
        <3> QED
            BY <1>2, <1>3, <2>2, <2>4
    <2> HIDE DEF popped
    <2> QED
        BY <2>3, <2>5
<1>5. \A r \in 1..n : r \in 1..len /\ ordered[r][2] \in popped
                      /\ Sorted!Rank(ordered[r][2]) = r
    <2> TAKE r \in 1..n
    <2>1. r \in 1..len /\ r <= n
        BY <1>0
    <2>2. Sorted!Rank(ordered[r][2]) = r
        BY <2>1, RankIsPlace
    <2> QED
        BY <1>3, <2>1, <2>2
<1>6. Cardinality(popped) = n
    <2> HIDE DEF popped
    <2>1. f \in [1..n -> popped]
        BY <1>5
    <2>2. \A r, t \in 1..n : f[r] = f[t] => r = t
        BY <1>5
    <2>3. \A s \in popped : \E r \in 1..n : f[r] = s
        BY <1>4
    <2> HIDE DEF f
    <2>4. f \in Bijection(1..n, popped)
        BY <2>1, <2>2, <2>3 DEF Bijection, Injection, Surjection, IsInjective
    <2>5. ExistsBijection(1..n, popped)
        BY <2>4 DEF ExistsBijection
    <2> QED
        BY <2>5, FS_CountingElements
<1>7. ASSUME NEW r \in 1..n
      PROVE  (CHOOSE s \in popped : Sorted!Rank(s) = r) = ordered[r][2]
    <2> HIDE DEF popped
    <2>1. \A s \in popped : Sorted!Rank(s) = r => s = ordered[r][2]
        BY <1>4, <1>5
    <2> QED
        BY <1>5, <2>1
<1>8. popped = Popped(limit)
    BY DEF Popped
<1> HIDE DEF popped
<1> QED
    BY <1>4, <1>6, <1>7, <1>8

LEMMA DequeueRefines ==
    ASSUME StoreInv, NEW limit \in Nat \ {0}, Dequeue(limit)
    PROVE  [Sorted!Next]_<<queue, served>>
<1>0. /\ Cardinality(Sessions) \in Nat /\ IsFiniteSet(Sessions)
      /\ Lists(ordered, queue) /\ Len(ordered) \in Nat /\ DOMAIN queue \subseteq Sessions
    BY SessionsAssumption, FS_CardinalityType DEF StoreInv, Lists
<1>1. /\ StoreInv'
      /\ DOMAIN queue' = DOMAIN queue \ ToSet(served')
      /\ queue' = Restrict(queue, DOMAIN queue \ ToSet(served'))
    BY DequeueStores DEF Dequeue
<1>2. PICK n \in Nat :
             /\ n <= Len(ordered) /\ n <= limit /\ (n = Len(ordered) \/ n = limit)
             /\ Len(served') = n
             /\ \A r \in 1..n : served'[r] = ordered[r][2]
    BY DequeueStores
<1>3. served' = [r \in 1..n |-> ordered[r][2]] /\ DOMAIN served' = 1..n
    <2>1. served' \in Seq(Sessions)
        BY <1>1 DEF StoreInv
    <2> QED
        BY <1>2, <2>1
<1>4. Len(ordered) <= Cardinality(Sessions)
    <2> DEFINE f == [r \in 1..Len(ordered) |-> ordered[r][2]]
    <2>1. f \in Injection(1..Len(ordered), Sessions)
        <3>1. \A r \in 1..Len(ordered) : f[r] \in Sessions
            BY <1>0, OnePlace
        <3>2. \A r, t \in 1..Len(ordered) : f[r] = f[t] => r = t
            BY <1>0, OnePlace
        <3> QED
            BY <3>1, <3>2 DEF Injection, IsInjective
    <2>2. Cardinality(1..Len(ordered)) <= Cardinality(Sessions)
        <3> HIDE DEF f
        <3> QED
            BY <1>0, <2>1, FS_Injection
    <2>3. Cardinality(1..Len(ordered)) = Len(ordered)
        <3>1. 1 \in Int /\ Len(ordered) \in Int
            BY <1>0
        <3>2. Cardinality(1..Len(ordered)) =
                 IF 1 > Len(ordered) THEN 0 ELSE Len(ordered) - 1 + 1
            BY <3>1, FS_Interval
        <3> QED
            BY <1>0, <3>2
    <2> QED
        BY <2>2, <2>3
<1>5. CASE Sessions = {}
    <2>1. DOMAIN queue = {} /\ DOMAIN queue' = {}
        BY <1>0, <1>1, <1>5
    <2>2. UNCHANGED queue
        BY <1>0, <1>1, <2>1 DEF StoreInv, Lists
    <2>3. UNCHANGED served
        BY <1>1, <1>5 DEF StoreInv
    <2> QED
        BY <2>2, <2>3
<1>6. CASE Sessions # {}
    <2> DEFINE l == IF limit <= Cardinality(Sessions) THEN limit ELSE Cardinality(Sessions)
               popped == Popped(l)
    <2>1. Cardinality(Sessions) # 0
        BY <1>0, <1>6, FS_EmptySet
    <2>2. /\ l \in 1..Cardinality(Sessions) /\ l \in Nat
          /\ n <= l /\ (n = Len(ordered) \/ n = l)
        BY <1>0, <1>2, <1>4, <2>1
    <2>3. /\ popped = {ordered[r][2] : r \in 1..n}
          /\ Cardinality(popped) = n
          /\ \A r \in 1..n : (CHOOSE s \in popped : Sorted!Rank(s) = r) = ordered[r][2]
        <3> HIDE DEF l
        <3> QED
            BY <1>2, <2>2, FrontIsPopped
    <2>4. popped = ToSet(served')
        <3> HIDE DEF popped
        <3> QED
            BY <1>3, <2>3 DEF ToSet
    <2>5. served' = [r \in 1..Cardinality(popped) |->
                        CHOOSE s \in popped : Sorted!Rank(s) = r]
        <3> HIDE DEF popped
        <3> QED
            BY <1>3, <2>3
    <2>6. queue' = Sorted!Restrict(queue, DOMAIN queue \ popped)
        <3> HIDE DEF popped
        <3> QED
            BY <1>1, <2>4 DEF Sorted!Restrict, Restrict
    <2>7. Sorted!Dequeue(l)
        <3> HIDE DEF l
        <3> QED
            BY <2>5, <2>6, SameCardinality DEF Sorted!Dequeue, Popped
    <2> HIDE DEF l
    <2> QED
        BY <2>2, <2>7, SameCardinality DEF Sorted!Next
<1> QED
    BY <1>5, <1>6

LEMMA StepRefinesSorted == QInv /\ [QueueNext]_queueVars => [Sorted!Next]_<<queue, served>>
<1> SUFFICES ASSUME QInv, [QueueNext]_queueVars
             PROVE  [Sorted!Next]_<<queue, served>>
    OBVIOUS
<1>1. ASSUME NEW b \in Tabs, JoinQueue(b)
      PROVE  [Sorted!Next]_<<queue, served>>
    <2>1. PICK score \in Scores : Enqueue(joining[b], score)
        BY <1>1 DEF JoinQueue
    <2>2. joining[b] \in Sessions
        BY <1>1 DEF JoinQueue, JoinersKnown, QInv
    <2>3. CASE joining[b] \in DOMAIN queue
        BY <2>1, <2>3 DEF Enqueue, storeVars
    <2>4. CASE joining[b] \notin DOMAIN queue
        <3>1. Sorted!Enqueue(joining[b], score)
            BY <2>1, <2>4 DEF Enqueue, Put, Sorted!Enqueue
        <3> QED
            BY <2>2, <3>1 DEF Sorted!Next
    <2> QED
        BY <2>3, <2>4
<1>2. ASSUME NEW a \in Admins, AdmitNext(a)
      PROVE  [Sorted!Next]_<<queue, served>>
    <2>1. PICK limit \in Limits : Dequeue(limit)
        BY <1>2 DEF AdmitNext
    <2>2. limit \in Nat \ {0}
        BY QueueAssumption
    <2> QED
        BY <2>1, <2>2, DequeueRefines DEF QInv
<1>3. ASSUME NEW s \in Sessions, Leave(s)
      PROVE  [Sorted!Next]_<<queue, served>>
    <2>1. CASE s \in DOMAIN queue
        <3>1. queue' = Restrict(queue, DOMAIN queue \ {s}) /\ UNCHANGED served
            BY <1>3, <2>1, RemoveStores DEF Leave, QInv
        <3>2. Sorted!Remove(s)
            BY <2>1, <3>1 DEF Sorted!Remove, Sorted!Restrict, Restrict
        <3> QED
            BY <3>2 DEF Sorted!Next
    <2>2. CASE s \notin DOMAIN queue
        BY <1>3, <2>2 DEF Leave, RemoveSession, storeVars
    <2> QED
        BY <2>1, <2>2
<1>4. CASE \/ \E b \in Tabs : \/ JoinCheck(b) \/ JoinAtOnce(b)
                              \/ \E s \in Sessions : JoinSettings(b, s)
           \/ \E a \in Admins : AdmitMark(a) \/ AdmitCrash(a)
           \/ \E s \in Sessions : Expire(s)
           \/ ConfigureEvent
           \/ UNCHANGED queueVars
    BY <1>4 DEF JoinCheck, JoinAtOnce, JoinSettings, AdmitMark, AdmitCrash, Expire,
                ConfigureEvent, storeVars, queueVars
<1> QED
    BY <1>1, <1>2, <1>3, <1>4 DEF QueueNext, Join, Admit

(* The in-memory store is the sorted set the service is written for: every *)
(* join, admission and departure is one of its commands or changes nothing.*)
THEOREM ImplementsSorted == QueueSpec => SortedRefinement
<1>1. QueueInit => Sorted!Init
    BY DEF QueueInit, StoreInit, Sorted!Init
<1>2. QInv /\ [QueueNext]_queueVars => [Sorted!Next]_Sorted!vars
    BY StepRefinesSorted DEF Sorted!vars
<1> QED
    BY <1>1, <1>2, QueueInvariant, PTL DEF QueueSpec, SortedRefinement, Sorted!Spec

-----------------------------------------------------------------------------
(* Both stores of the checked instance.                                    *)

(* A behaviour of the instance is one of each store. *)
LEMMA StoresAreBoth == StoresSpec => Spec /\ QueueSpec
<1>1. StoresInit => Init /\ QueueInit
    BY DEF StoresInit
<1>2. [StoresNext]_<<store, vars, queueVars>> => [Next]_vars /\ [QueueNext]_queueVars
    BY DEF StoresNext
<1> QED
    BY <1>1, <1>2, PTL DEF StoresSpec, Spec, QueueSpec

(* Heap, index, locks and log keep their types, and the three structures   *)
(* of the queue name the same sessions with the same scores.               *)
THEOREM StoresTypeCorrect == StoresSpec => []StoresTypeOK
<1>1. QInv /\ TypeOK => StoresTypeOK
    BY DEF QInv, StoresTypeOK
<1> QED
    BY <1>1, StoresAreBoth, TypeCorrect, QueueInvariant, PTL
=============================================================================
