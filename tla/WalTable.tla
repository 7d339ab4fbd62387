------------------------------ MODULE WalTable ------------------------------
(***************************************************************************)
(* The C++ write path: a table of videos with an index on view_count, one  *)
(* mutex around heap and indexes, a lock per row, and a write-ahead log    *)
(* that recovery replays.  Each step is one critical section or one record *)
(* appended to the log; threads interleave between them and the process    *)
(* may end between any two.  Rows are named by their video, which the      *)
(* primary index maps to one row that is never removed.  Of a record the   *)
(* model keeps what recovery reads: transaction, type, video, new count.   *)
(***************************************************************************)
EXTENDS Naturals, Sequences, FiniteSetsExt

CONSTANTS
    Threads,           \* callers of one table
    Videos,            \* video_ids
    Seeds,             \* Seeds[v]: view_count of the seeded videos
    NoThread,          \* owner of a free row lock
    MaxTx,             \* bound: MaxTx[n] transactions of the n-th process
    MaxLives           \* bound: processes that open the table, one after another

ASSUME ConstantsAssumption ==
    /\ Videos # {}
    /\ DOMAIN Seeds \subseteq Videos
    /\ \A v \in DOMAIN Seeds : Seeds[v] \in Nat
    /\ NoThread \notin Threads
    /\ MaxTx \in [1..MaxLives -> Nat]
    /\ MaxLives \in Nat \ {0}

VARIABLES
    stored,            \* videos in rows_ and in the primary index
    views,             \* views[v]: view_count of the row of v
    viewIndex,         \* entries <<view_count, video>> of view_count_index_
    rowLock,           \* rowLock[v]: thread that holds the row's mutex
    lastTx,            \* next_tx_id_ - 1
    logging,           \* has the table a WAL path?
    file,              \* the WAL file
    op,                \* op[t]: the call thread t is in
    pc,                \* pc[t]: where in it
    logged,            \* logged[t]: records this call has appended
    video,             \* video[t]: the call's argument
    tx,                \* tx[t]: tx_id
    old,               \* old[t]: old_count
    lives,             \* processes so far
    appended,          \* has a process appended to the file of another? (history)
    expected,          \* expected[v]: count v had at start or insertion, plus
                       \* the increments committed since (history)
    durable            \* durable[v]: increments committed to the file (history)

heapVars == <<stored, views, viewIndex>>
callVars == <<op, pc, logged, video, tx, old>>
vars == <<heapVars, rowLock, lastTx, logging, file, callVars, lives, appended,
          expected, durable>>

RecordTypes == {"Begin", "UpdateRow", "DeleteSecondaryIndex", "InsertSecondaryIndex", "Commit"}
Records == [life : Nat, tx : Nat, type : RecordTypes, video : Videos, new : Nat]

(* The records each call appends before it changes the heap; the demo call *)
(* ends there, the others go on to apply and commit.                       *)
Script == [increment |-> <<"Begin", "UpdateRow", "DeleteSecondaryIndex", "InsertSecondaryIndex">>,
           title     |-> <<"Begin">>,
           demo      |-> <<"Begin", "UpdateRow">>]

Steps == {"idle", "locking", "reading", "logging", "applying", "committing"}

TypeOK ==
    /\ stored \subseteq Videos
    /\ views \in [Videos -> Nat]
    /\ viewIndex \subseteq Nat \X Videos
    /\ rowLock \in [Videos -> Threads \cup {NoThread}]
    /\ lastTx \in Nat
    /\ logging \in BOOLEAN
    /\ file \in Seq(Records)
    /\ op \in [Threads -> DOMAIN Script]
    /\ pc \in [Threads -> Steps]
    /\ logged \in [Threads -> 0..4]
    /\ video \in [Threads -> Videos]
    /\ tx \in [Threads -> Nat]
    /\ old \in [Threads -> Nat]
    /\ lives \in Nat
    /\ appended \in BOOLEAN
    /\ expected \in [Videos -> Nat]
    /\ durable \in [Videos -> Nat]

Seeded == DOMAIN Seeds
SeedCounts == [v \in Videos |-> IF v \in Seeded THEN Seeds[v] ELSE 0]
AnyVideo == CHOOSE v \in Videos : TRUE

Init ==
    /\ stored = Seeded
    /\ views = SeedCounts
    /\ viewIndex = {<<Seeds[v], v>> : v \in Seeded}
    /\ rowLock = [v \in Videos |-> NoThread]
    /\ lastTx = 0
    /\ logging = TRUE
    /\ file = <<>>
    /\ op = [t \in Threads |-> "increment"]
    /\ pc = [t \in Threads |-> "idle"]
    /\ logged = [t \in Threads |-> 0]
    /\ video = [t \in Threads |-> AnyVideo]
    /\ tx = [t \in Threads |-> 0]
    /\ old = [t \in Threads |-> 0]
    /\ lives = 1
    /\ appended = FALSE
    /\ expected = SeedCounts
    /\ durable = [v \in Videos |-> 0]

-----------------------------------------------------------------------------
(* Calls of the table.                                                     *)

(* insert_video_unlocked, under the mutex; a duplicate is refused, and     *)
(* nothing is logged.                                                      *)
InsertVideo(v, count) ==
    /\ v \notin stored
    /\ stored' = stored \cup {v}
    /\ views' = [views EXCEPT ![v] = count]
    /\ viewIndex' = viewIndex \cup {<<count, v>>}
    /\ expected' = [expected EXCEPT ![v] = count]
    /\ UNCHANGED <<rowLock, lastTx, logging, file, callVars, lives, appended, durable>>

(* increment_view and update_title find the row, which stays where it is,  *)
(* and wait for its lock.                                                  *)
Call(t, v, o) ==
    /\ pc[t] = "idle"
    /\ v \in stored
    /\ lastTx < MaxTx[lives]
    /\ op' = [op EXCEPT ![t] = o]
    /\ video' = [video EXCEPT ![t] = v]
    /\ pc' = [pc EXCEPT ![t] = "locking"]
    /\ UNCHANGED <<heapVars, rowLock, lastTx, logging, file, logged, tx, old, lives,
                   appended, expected, durable>>

(* Mutant: the row lock does not wait. *)
LockTakenRow(t) ==
    /\ pc[t] = "locking"
    /\ lastTx < MaxTx[lives]
    /\ rowLock' = [rowLock EXCEPT ![video[t]] = t]
    /\ lastTx' = lastTx + 1
    /\ tx' = [tx EXCEPT ![t] = lastTx + 1]
    /\ pc' = [pc EXCEPT ![t] = IF op[t] = "increment" THEN "reading" ELSE "logging"]
    /\ UNCHANGED <<heapVars, logging, file, op, logged, video, old, lives, appended,
                   expected, durable>>

(* lock_row, and the next transaction id. *)
LockRow(t) ==
    /\ pc[t] = "locking"
    /\ rowLock[video[t]] = NoThread
    /\ lastTx < MaxTx[lives]
    /\ rowLock' = [rowLock EXCEPT ![video[t]] = t]
    /\ lastTx' = lastTx + 1
    /\ tx' = [tx EXCEPT ![t] = lastTx + 1]
    /\ pc' = [pc EXCEPT ![t] = IF op[t] = "increment" THEN "reading" ELSE "logging"]
    /\ UNCHANGED <<heapVars, logging, file, op, logged, video, old, lives, appended,
                   expected, durable>>

ReadCount(t) ==
    /\ pc[t] = "reading"
    /\ old' = [old EXCEPT ![t] = views[video[t]]]
    /\ pc' = [pc EXCEPT ![t] = "logging"]
    /\ UNCHANGED <<heapVars, rowLock, lastTx, logging, file, op, logged, video, tx,
                   lives, appended, expected, durable>>

(* append_uncommitted_increment_for_demo finds the row and reads it in one *)
(* critical section and takes no lock.                                     *)
CallDemo(t, v) ==
    /\ pc[t] = "idle"
    /\ v \in stored
    /\ lastTx < MaxTx[lives]
    /\ op' = [op EXCEPT ![t] = "demo"]
    /\ video' = [video EXCEPT ![t] = v]
    /\ old' = [old EXCEPT ![t] = views[v]]
    /\ lastTx' = lastTx + 1
    /\ tx' = [tx EXCEPT ![t] = lastTx + 1]
    /\ pc' = [pc EXCEPT ![t] = "logging"]
    /\ UNCHANGED <<heapVars, rowLock, logging, file, logged, lives, appended, expected, durable>>

(* Wal::append; without a path only memory is written. *)
AppendRecord(t, type) ==
    LET new == IF op[t] = "title" THEN 0 ELSE old[t] + 1 IN
    IF logging
    THEN /\ file' = Append(file, [life |-> lives, tx |-> tx[t], type |-> type,
                                  video |-> video[t], new |-> new])
         /\ appended' = (appended \/ \E i \in DOMAIN file : file[i].life # lives)
    ELSE UNCHANGED <<file, appended>>

(* The call of t is over. *)
Return(t) ==
    /\ pc' = [pc EXCEPT ![t] = "idle"]
    /\ op' = [op EXCEPT ![t] = "increment"]
    /\ logged' = [logged EXCEPT ![t] = 0]
    /\ video' = [video EXCEPT ![t] = AnyVideo]
    /\ tx' = [tx EXCEPT ![t] = 0]
    /\ old' = [old EXCEPT ![t] = 0]

LogRecord(t) ==
    /\ pc[t] = "logging"
    /\ AppendRecord(t, Script[op[t]][logged[t] + 1])
    /\ IF logged[t] + 1 < Len(Script[op[t]])
       THEN /\ logged' = [logged EXCEPT ![t] = @ + 1]
            /\ UNCHANGED <<op, pc, video, tx, old>>
       ELSE IF op[t] = "demo"
       THEN Return(t)
       ELSE /\ logged' = [logged EXCEPT ![t] = @ + 1]
            /\ pc' = [pc EXCEPT ![t] = "applying"]
            /\ UNCHANGED <<op, video, tx, old>>
    /\ UNCHANGED <<heapVars, rowLock, lastTx, logging, lives, expected, durable>>

(* Mutant: the old index entry stays. *)
ApplyWithoutErase(t) ==
    LET v == video[t] IN
    /\ pc[t] = "applying"
    /\ IF op[t] = "increment"
       THEN /\ views' = [views EXCEPT ![v] = old[t] + 1]
            /\ viewIndex' = viewIndex \cup {<<old[t] + 1, v>>}
       ELSE UNCHANGED <<views, viewIndex>>
    /\ pc' = [pc EXCEPT ![t] = "committing"]
    /\ UNCHANGED <<stored, rowLock, lastTx, logging, file, op, logged, video, tx, old,
                   lives, appended, expected, durable>>

(* Heap and view index change together under the mutex; a title is in no   *)
(* index and in no record.                                                 *)
Apply(t) ==
    LET v == video[t] IN
    /\ pc[t] = "applying"
    /\ IF op[t] = "increment"
       THEN /\ views' = [views EXCEPT ![v] = old[t] + 1]
            /\ viewIndex' = (viewIndex \ {<<old[t], v>>}) \cup {<<old[t] + 1, v>>}
       ELSE UNCHANGED <<views, viewIndex>>
    /\ pc' = [pc EXCEPT ![t] = "committing"]
    /\ UNCHANGED <<stored, rowLock, lastTx, logging, file, op, logged, video, tx, old,
                   lives, appended, expected, durable>>

(* The Commit record, and the row lock is released at the end of the call. *)
Commit(t) ==
    LET v == video[t] IN
    /\ pc[t] = "committing"
    /\ AppendRecord(t, "Commit")
    /\ rowLock' = [rowLock EXCEPT ![v] = NoThread]
    /\ IF op[t] = "increment"
       THEN /\ expected' = [expected EXCEPT ![v] = @ + 1]
            /\ durable' = IF logging THEN [durable EXCEPT ![v] = @ + 1] ELSE durable
       ELSE UNCHANGED <<expected, durable>>
    /\ Return(t)
    /\ UNCHANGED <<heapVars, lastTx, logging, lives>>

-----------------------------------------------------------------------------
(* The end of a process and the next one.                                  *)

(* Mutant: a transaction counts from its Begin record on. *)
BegunTx(log) == {log[i].tx : i \in {n \in DOMAIN log : log[n].type = "Begin"}}

CommittedTx(log) == {log[i].tx : i \in {n \in DOMAIN log : log[n].type = "Commit"}}

(* The recovery constructor sets, for every UpdateRow record of a          *)
(* committed transaction and a seeded video, in the order of the file, the *)
(* count to new_view_count: the last one stays.                            *)
Replayed(log, v) ==
    {i \in DOMAIN log : log[i].type = "UpdateRow" /\ log[i].video = v /\ log[i].tx \in CommittedTx(log)}

Recovered(log) ==
    [v \in Videos |-> IF v \notin Seeded \/ Replayed(log, v) = {}
                      THEN SeedCounts[v] ELSE log[Max(Replayed(log, v))].new]

(* A new process has only the seeded rows, with the given counts. *)
NewProcess(counts) ==
    /\ lives < MaxLives
    /\ lives' = lives + 1
    /\ stored' = Seeded
    /\ views' = counts
    /\ viewIndex' = {<<counts[v], v>> : v \in Seeded}
    /\ expected' = counts
    /\ rowLock' = [v \in Videos |-> NoThread]
    /\ lastTx' = 0
    /\ op' = [t \in Threads |-> "increment"]
    /\ pc' = [t \in Threads |-> "idle"]
    /\ logged' = [t \in Threads |-> 0]
    /\ video' = [t \in Threads |-> AnyVideo]
    /\ tx' = [t \in Threads |-> 0]
    /\ old' = [t \in Threads |-> 0]
    /\ UNCHANGED <<file, appended, durable>>

(* recover_from_wal: the recovered table has no WAL path. *)
Recover == NewProcess(Recovered(file)) /\ logging' = FALSE

(* The table is constructed from the seeds with the path of an old file. *)
Reopen == NewProcess(SeedCounts) /\ logging' = TRUE

-----------------------------------------------------------------------------
Step(t) == LockRow(t) \/ ReadCount(t) \/ LogRecord(t) \/ Apply(t) \/ Commit(t)

Next ==
    \/ \E t \in Threads, v \in Videos :
          Call(t, v, "increment") \/ Call(t, v, "title") \/ CallDemo(t, v)
    \/ \E t \in Threads : Step(t)
    \/ \E v \in Videos : InsertVideo(v, 0)
    \/ Recover
    \/ Reopen

Spec == Init /\ [][Next]_vars

-----------------------------------------------------------------------------
(* The view index has exactly one entry per row, under the row's count:    *)
(* two increments never erase or insert each other's entry.                *)
IndexMatchesHeap == viewIndex = {<<views[v], v>> : v \in stored}

(* Threads that have changed the heap of v and not committed. *)
InFlight(v) == {t \in Threads : pc[t] = "committing" /\ op[t] = "increment" /\ video[t] = v}

(* No increment is lost and none counted twice: the row shows every        *)
(* committed one and the at most one that is about to commit.              *)
NoLostUpdate ==
    \A v \in stored : /\ views[v] = expected[v] + Cardinality(InFlight(v))
                      /\ Cardinality(InFlight(v)) <= 1

(* Wherever the process ends, recovery finds of a seeded video exactly the *)
(* committed increments, though threads interleave their records and some  *)
(* transactions never commit; as long as one process wrote the file.       *)
RecoveryIsExact ==
    ~appended => \A v \in Seeded : Recovered(file)[v] = Seeds[v] + durable[v]

(* Recovery ignores the records of transactions that did not commit, also  *)
(* when two processes have appended to the file.                           *)
IgnoresUncommitted ==
    \A v \in Seeded : \A i \in Replayed(file, v) :
        \E c \in DOMAIN file :
            /\ file[c].type = "Commit"
            /\ file[c].life = file[i].life
            /\ file[c].tx = file[i].tx
=============================================================================
