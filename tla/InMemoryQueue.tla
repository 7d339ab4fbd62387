--------------------------- MODULE InMemoryQueue ----------------------------
(***************************************************************************)
(* InMemoryQueueStore: the queue of one event as a map of scores, a list   *)
(* kept in order and a map of positions, each changed by every operation   *)
(* under the store's lock.                                                 *)
(***************************************************************************)
EXTENDS Naturals, SequencesExt

CONSTANTS
    Sessions,          \* session ids, numbered in the order of their strings
    Scores             \* join times: time.time() of the servers, or joined_at

ASSUME SessionsAssumption ==
    /\ Sessions \subseteq Nat /\ IsFiniteSet(Sessions)
    /\ Scores \subseteq Nat

VARIABLES
    queue,             \* _queues: queue[s] is the score of s
    ordered,           \* _ordered: pairs <<score, session>>
    positions,         \* _positions: positions[s]
    served             \* what the last dequeue returned

storeVars == <<queue, ordered, positions, served>>

StoreInit ==
    /\ queue = <<>>
    /\ ordered = <<>>
    /\ positions = <<>>
    /\ served = <<>>

(* The three structures name the same sessions, with the same scores. *)
StoreTypeOK ==
    /\ DOMAIN queue \subseteq Sessions
    /\ \A s \in DOMAIN queue : queue[s] \in Scores
    /\ ordered \in Seq(Scores \X Sessions)
    /\ ToSet(ordered) = {<<queue[s], s>> : s \in DOMAIN queue}
    /\ DOMAIN positions = DOMAIN queue
    /\ served \in Seq(Sessions)

(* Tuples compare by score, then by session id. *)
Less(a, b) == a[1] < b[1] \/ (a[1] = b[1] /\ a[2] < b[2])

(* list.sort(): the same items in the order of Less. *)
InOrder(list) == \A i, j \in DOMAIN list : i < j => Less(list[i], list[j])
SortedItems(items) ==
    CHOOSE list \in [1..Cardinality(items) -> items] : InOrder(list)

(* queue[session_id] = score *)
Put(f, s, x) == [t \in DOMAIN f \cup {s} |-> IF t = s THEN x ELSE f[t]]

(* The list comprehension that keeps the items of other sessions: a        *)
(* session has one item.                                                   *)
WithoutItem(list, s) == RemoveAt(list, CHOOSE i \in DOMAIN list : list[i][2] = s)

(* _rebuild_positions *)
RebuiltPositions(list) ==
    [s \in {list[i][2] : i \in DOMAIN list} |-> CHOOSE i \in DOMAIN list : list[i][2] = s]

(* enqueue: a queued session keeps its place.  A session is appended, and  *)
(* the list is sorted when its score is not the greatest.                  *)
Enqueue(s, score) ==
    IF s \in DOMAIN queue
    THEN UNCHANGED storeVars
    ELSE LET list == Append(ordered, <<score, s>>)
             n    == Len(list)
         IN
         /\ queue' = Put(queue, s, score)
         /\ IF n > 1 /\ Less(list[n], list[n - 1])
            THEN /\ ordered' = SortedItems(ToSet(list))
                 /\ positions' = RebuiltPositions(ordered')
            ELSE /\ ordered' = list
                 /\ positions' = Put(positions, s, n)
         /\ UNCHANGED served

(* Mutant: dequeue takes the last sessions of the list. *)
DequeueLast(limit) ==
    LET n == IF limit < Len(ordered) THEN limit ELSE Len(ordered)
        k == Len(ordered) - n
    IN
    /\ served' = [i \in 1..n |-> ordered[k + i][2]]
    /\ ordered' = SubSeq(ordered, 1, k)
    /\ queue' = Restrict(queue, DOMAIN queue \ ToSet(served'))
    /\ positions' = RebuiltPositions(ordered')

(* Mutant: the places of those behind are not recomputed. *)
RemoveOnly(s) ==
    IF s \notin DOMAIN queue
    THEN UNCHANGED storeVars
    ELSE /\ queue' = Restrict(queue, DOMAIN queue \ {s})
         /\ ordered' = WithoutItem(ordered, s)
         /\ positions' = Restrict(positions, DOMAIN positions \ {s})
         /\ UNCHANGED served

(* Mutant: a session that leaves keeps its item in the list. *)
RemoveUnlisted(s) ==
    IF s \notin DOMAIN queue
    THEN UNCHANGED storeVars
    ELSE /\ queue' = Restrict(queue, DOMAIN queue \ {s})
         /\ positions' = Restrict(positions, DOMAIN positions \ {s})
         /\ UNCHANGED <<ordered, served>>

(* dequeue: the first limit sessions of the list. *)
Dequeue(limit) ==
    LET n == IF limit < Len(ordered) THEN limit ELSE Len(ordered) IN
    /\ served' = [i \in 1..n |-> ordered[i][2]]
    /\ ordered' = SubSeq(ordered, n + 1, Len(ordered))
    /\ queue' = Restrict(queue, DOMAIN queue \ ToSet(served'))
    /\ positions' = RebuiltPositions(ordered')

(* remove *)
RemoveSession(s) ==
    IF s \notin DOMAIN queue
    THEN UNCHANGED storeVars
    ELSE /\ queue' = Restrict(queue, DOMAIN queue \ {s})
         /\ ordered' = WithoutItem(ordered, s)
         /\ positions' = RebuiltPositions(ordered')
         /\ UNCHANGED served

(* The position a client is shown is its rank: one more than the number of *)
(* queued sessions that are served before it, in whatever order sessions   *)
(* with earlier and equal times join, leave and are admitted.              *)
PositionsAreRanks ==
    /\ DOMAIN positions = DOMAIN queue
    /\ \A s \in DOMAIN queue :
          positions[s] = 1 + Cardinality({t \in DOMAIN queue : Less(<<queue[t], t>>, <<queue[s], s>>)})

(* The store is the sorted set the service is written for. *)
Sorted == INSTANCE SortedQueue
SortedRefinement == Sorted!Spec
=============================================================================
