---------------------------- MODULE SortedQueue -----------------------------
(***************************************************************************)
(* What the waiting queue of an event is: a set of sessions ordered by the *)
(* time they joined, and by their ids when the times are equal.  Redis     *)
(* gives the service this as a sorted set (RedisQueueStore); the in-memory *)
(* store has to implement it.                                              *)
(***************************************************************************)
EXTENDS Naturals, FiniteSets, Functions

CONSTANTS
    Sessions,          \* session ids, numbered in the order of their strings
    Scores             \* join times

VARIABLES
    queue,             \* queue[s]: score of the queued session s
    served             \* sessions the last pop returned, by rank

vars == <<queue, served>>

Init == queue = <<>> /\ served = <<>>

Before(s, t) == queue[s] < queue[t] \/ (queue[s] = queue[t] /\ s < t)

Rank(s) == 1 + Cardinality({t \in DOMAIN queue : Before(t, s)})

(* ZADD NX *)
Enqueue(s, score) ==
    /\ s \notin DOMAIN queue
    /\ queue' = [t \in DOMAIN queue \cup {s} |-> IF t = s THEN score ELSE queue[t]]
    /\ UNCHANGED served

(* ZPOPMIN *)
Dequeue(limit) ==
    LET popped == {s \in DOMAIN queue : Rank(s) <= limit} IN
    /\ served' = [r \in 1..Cardinality(popped) |-> CHOOSE s \in popped : Rank(s) = r]
    /\ queue' = Restrict(queue, DOMAIN queue \ popped)

(* ZREM *)
Remove(s) ==
    /\ s \in DOMAIN queue
    /\ queue' = Restrict(queue, DOMAIN queue \ {s})
    /\ UNCHANGED served

Next ==
    \/ \E s \in Sessions : Remove(s) \/ \E score \in Scores : Enqueue(s, score)
    \/ \E limit \in 1..Cardinality(Sessions) : Dequeue(limit)

Spec == Init /\ [][Next]_vars
=============================================================================
