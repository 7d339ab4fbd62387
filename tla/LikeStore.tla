----------------------------- MODULE LikeStore ------------------------------
(***************************************************************************)
(* The like counters of dynamodb-like-benchmark and                        *)
(* postgres-like-benchmark: threads of a pool execute like and unlike      *)
(* operations against one of three stores.  DynamoDB takes two requests,   *)
(* the row and then the counter; PostgreSQL takes one transaction of two   *)
(* statements; the lock simulator keeps counters only, each under a lock.  *)
(***************************************************************************)
EXTENDS Integers, FiniteSets

CONSTANTS
    Requests,          \* operations of the workload
    Users,
    Posts,
    PoolSize,          \* threads of the executor, and connections to PostgreSQL
    MaxFaults          \* bound: requests to DynamoDB that are repeated or never made

ASSUME LikesAssumption ==
    /\ IsFiniteSet(Requests) /\ IsFiniteSet(Users) /\ IsFiniteSet(Posts)
    /\ PoolSize \in Nat \ {0}
    /\ MaxFaults \in Nat

VARIABLES
    likeStore,         \* which store the benchmark runs against
    likes,             \* rows of Likes or likes, as committed
    counts,            \* counts[p]: like_count, as committed
    op,                \* op[r]: where operation r is, and what it does
    faults

likeVars == <<likeStore, likes, counts, op, faults>>

LikeStores == {"dynamodb", "postgres", "row-lock"}

(* new, ready; stored: DynamoDB has the row but not the count; inserted,   *)
(* updated: inside the transaction; locked: inside the lock; then answers. *)
OpSteps == {"new", "ready", "stored", "inserted", "updated", "locked",
            "ok", "refused", "failed"}
Ops == [pc : OpSteps, user : Users, post : Posts, delta : {1, -1}]

(* Operations that occupy a thread and, in PostgreSQL, a connection. *)
Active == {r \in Requests : op[r].pc \notin {"new", "ok", "refused", "failed"}}

LikeTypeOK ==
    /\ likeStore \in LikeStores
    /\ likes \subseteq Users \X Posts
    /\ counts \in [Posts -> Int]
    /\ op \in [Requests -> Ops]
    /\ Cardinality(Active) <= PoolSize
    /\ faults \in Nat

(* The workload is generated beforehand; reset makes a counter per post.   *)
(* Only DynamoDB's has unlikes.                                            *)
LikeInit ==
    /\ likeStore \in LikeStores
    /\ likes = {}
    /\ counts = [p \in Posts |-> 0]
    /\ op \in [Requests -> {o \in Ops : /\ o.pc = "new"
                                        /\ o.delta = -1 => likeStore = "dynamodb"}]
    /\ faults = 0

Row(r) == <<op[r].user, op[r].post>>
At(steps) == {r \in Requests : op[r].pc \in steps}
GoTo(r, step) == op' = [op EXCEPT ![r].pc = step]
Count(r) == counts' = [counts EXCEPT ![op[r].post] = @ + op[r].delta]

(* A thread of the pool takes the operation, and a connection with it. *)
StartOp(r) ==
    /\ op[r].pc = "new"
    /\ Cardinality(Active) < PoolSize
    /\ GoTo(r, "ready")
    /\ UNCHANGED <<likeStore, likes, counts, faults>>
-----------------------------------------------------------------------------
(* DynamoDB: put_item if the row is absent, delete_item if it is there. *)
(* Mutant: the put has no condition. *)
ConditionIgnored(r) == TRUE

ConditionHolds(r) == op[r].delta = 1 <=> Row(r) \notin likes

RowWritten(r) == IF op[r].delta = 1 THEN likes \cup {Row(r)} ELSE likes \ {Row(r)}

WriteRow(r) ==
    /\ likeStore = "dynamodb"
    /\ op[r].pc = "ready"
    /\ IF ConditionHolds(r) THEN likes' = RowWritten(r) /\ GoTo(r, "stored")
                            ELSE UNCHANGED likes /\ GoTo(r, "refused")
    /\ UNCHANGED <<likeStore, counts, faults>>

AddToCounter(r) ==
    /\ op[r].pc = "stored"
    /\ Count(r)
    /\ GoTo(r, "ok")
    /\ UNCHANGED <<likeStore, likes, faults>>

(* A request whose answer is lost is made again by the client library: a   *)
(* row that is written already refuses to be written again, unless others  *)
(* have changed it back; a repeated ADD counts again.                      *)
RepeatWriteRow(r) ==
    /\ likeStore = "dynamodb"
    /\ op[r].pc = "ready"
    /\ ConditionHolds(r)
    /\ faults < MaxFaults
    /\ likes' = RowWritten(r)
    /\ faults' = faults + 1
    /\ UNCHANGED <<likeStore, counts, op>>

RepeatAdd(r) ==
    /\ op[r].pc = "stored"
    /\ faults < MaxFaults
    /\ Count(r)
    /\ faults' = faults + 1
    /\ UNCHANGED <<likeStore, likes, op>>

(* An exception or the end of the program between the two requests. *)
NeverCounted(r) ==
    /\ op[r].pc = "stored"
    /\ faults < MaxFaults
    /\ GoTo(r, "failed")
    /\ faults' = faults + 1
    /\ UNCHANGED <<likeStore, likes, counts>>
-----------------------------------------------------------------------------
(* PostgreSQL: the INSERT waits for another transaction that has inserted  *)
(* the same row; a conflict with a committed row inserts nothing.          *)
InsertLike(r) ==
    /\ likeStore = "postgres"
    /\ op[r].pc = "ready"
    /\ \A s \in At({"inserted", "updated"}) : Row(s) # Row(r)
    /\ GoTo(r, IF Row(r) \in likes THEN "refused" ELSE "inserted")
    /\ UNCHANGED <<likeStore, likes, counts, faults>>

(* The UPDATE waits for the lock of the counter's row, and then sees the   *)
(* latest committed count.                                                 *)
UpdateCounter(r) ==
    /\ op[r].pc = "inserted"
    /\ \A s \in At({"updated"}) : op[s].post # op[r].post
    /\ GoTo(r, "updated")
    /\ UNCHANGED <<likeStore, likes, counts, faults>>

CommitLike(r) ==
    /\ op[r].pc = "updated"
    /\ likes' = likes \cup {Row(r)}
    /\ Count(r)
    /\ GoTo(r, "ok")
    /\ UNCHANGED <<likeStore, faults>>

(* An exception inside the transaction, or before the first request. *)
OpFails(r) ==
    /\ likeStore # "row-lock"
    /\ op[r].pc \in {"ready", "inserted", "updated"}
    /\ GoTo(r, "failed")
    /\ UNCHANGED <<likeStore, likes, counts, faults>>
-----------------------------------------------------------------------------
(* RowLockCounterStore.increment sleeps under the post's lock. *)
LockRow(r) ==
    /\ likeStore = "row-lock"
    /\ op[r].pc = "ready"
    /\ \A s \in At({"locked"}) : op[s].post # op[r].post
    /\ GoTo(r, "locked")
    /\ UNCHANGED <<likeStore, likes, counts, faults>>

Increment(r) ==
    /\ op[r].pc = "locked"
    /\ Count(r)
    /\ GoTo(r, "ok")
    /\ UNCHANGED <<likeStore, likes, faults>>

(* list(executor.map(...)) waits for all operations, then counts() reads.  *)
AllAnswered == Active = {} /\ At({"new"}) = {} /\ UNCHANGED likeVars

LikeNext ==
    \/ \E r \in Requests :
          \/ StartOp(r)
          \/ WriteRow(r) \/ AddToCounter(r)
          \/ RepeatWriteRow(r) \/ RepeatAdd(r) \/ NeverCounted(r)
          \/ InsertLike(r) \/ UpdateCounter(r) \/ CommitLike(r) \/ OpFails(r)
          \/ LockRow(r) \/ Increment(r)
    \/ AllAnswered

LikeSpec == LikeInit /\ [][LikeNext]_likeVars
-----------------------------------------------------------------------------
(* What the counter of p stands for: its rows or, where no rows are kept,  *)
(* the operations that were answered.                                      *)
Counted(p) ==
    IF likeStore = "row-lock" THEN Cardinality({r \in At({"ok"}) : op[r].post = p})
    ELSE Cardinality({row \in likes : row[2] = p})

(* Operations that have changed the rows of p by delta, and not its counter. *)
Halfway(p, delta) ==
    {r \in At({"stored"}) : op[r].post = p /\ op[r].delta = delta}

Owed(p) == Cardinality(Halfway(p, 1)) - Cardinality(Halfway(p, -1))

(* The counter of a post is the number of its likes, but for operations    *)
(* between their two requests and for requests to DynamoDB that were       *)
(* repeated or never made, by at most one like each.                       *)
CountersMatchRows ==
    \A p \in Posts : Counted(p) - counts[p] - Owed(p) \in -faults..faults
=============================================================================
