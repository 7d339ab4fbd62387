----------------------------- MODULE TopKStore -----------------------------
(***************************************************************************)
(* youtube-topk-videos, storage.py: the tables of SQLiteTopKStorage.  A    *)
(* table of counters, whose upsert adds to the row of its key, is a bag of *)
(* keys.  Every operation is one transaction.                              *)
(***************************************************************************)
EXTENDS TimeWindows, Sequences, Bags, FiniteSetsExt

CONSTANTS
    Videos,            \* video ids, ordered as numbers
    ShardCount,
    KLimit

ASSUME StoreAssumption ==
    /\ Videos \subseteq Nat
    /\ ShardCount \in Nat \ {0}
    /\ KLimit \in 1..1000

VARIABLES
    shards,            \* view_count_shards: <<window, start, video, shard>>
    aggregate,         \* the four aggregate tables: <<window, start, video>>
    native,            \* native_hourly_counts: <<hour, video>>
    snapshots          \* topk_snapshots: the ranking of a bucket <<window, start>>

storeVars == <<shards, aggregate, native, snapshots>>

Shards == 0..(ShardCount - 1)

StoreInit ==
    /\ shards = EmptyBag
    /\ aggregate = EmptyBag
    /\ native = EmptyBag
    /\ snapshots = <<>>

(* SELECT Key, SUM(count) GROUP BY Key. *)
GroupBy(Key(_), rows) ==
    [k \in {Key(r) : r \in DOMAIN rows} |->
        SumFunctionOnSet(rows, {r \in DOMAIN rows : Key(r) = k})]

(* ORDER BY view_count DESC, video_id ASC LIMIT k, of a bag of videos. *)
Ahead(counts, v, u) == counts[v] > counts[u] \/ (counts[v] = counts[u] /\ v < u)
Place(counts, v) == Cardinality({u \in DOMAIN counts : Ahead(counts, u, v)}) + 1

Ranking(counts, k) ==
    LET n == Cardinality(DOMAIN counts)
        at(i) == CHOOSE v \in DOMAIN counts : Place(counts, v) = i
    IN  [i \in 1..(IF k < n THEN k ELSE n) |-> <<at(i), counts[at(i)]>>]

(* The videos of a bucket, each as often as it was viewed. *)
ViewsIn(table, bucket) ==
    [v \in {u \in Videos : <<bucket[1], bucket[2], u>> \in DOMAIN table} |->
        table[<<bucket[1], bucket[2], v>>]]

(* _refresh_topk of every bucket of S. *)
(* Mutant: rows of a bucket that is ranked already are kept. *)
RefreshedOnce(table, S) ==
    [b \in DOMAIN snapshots \cup S |->
        IF b \in DOMAIN snapshots THEN snapshots[b]
        ELSE Ranking(ViewsIn(table, b), KLimit)]

Refreshed(table, S) ==
    [b \in DOMAIN snapshots \cup S |->
        IF b \in S THEN Ranking(ViewsIn(table, b), KLimit) ELSE snapshots[b]]

(* Rows of one hour or one event go to the bucket of each window, with     *)
(* which their key begins.                                                 *)
InEveryWindow(Key(_, _), rows) ==
    [k \in {Key(w, r) : w \in Windows, r \in DOMAIN rows} |->
        SumFunctionOnSet(rows, {r \in DOMAIN rows : Key(k[1], r) = k})]

(* ShardedBatchAggregator.aggregate: a batch is a bag of events. *)
Aggregated(batch) ==
    LET Key(w, e) == <<w, BucketStart(w, e.time), e.video, e.shard>>
    IN  InEveryWindow(Key, batch)

BucketOf(row) == <<row[1], row[2]>>
TotalOf(row) == <<row[1], row[2], row[3]>>

ApplyDeltas(deltas) ==
    LET table == aggregate (+) GroupBy(TotalOf, deltas)
    IN  /\ shards' = shards (+) deltas
        /\ aggregate' = table
        /\ snapshots' = Refreshed(table, {BucketOf(d) : d \in DOMAIN deltas})
        /\ UNCHANGED native

(* Counts of hours: a bag of <<hour, video>>. *)
ApplyNativeHourlyCounts(rows) ==
    /\ native' = native (+) rows
    /\ UNCHANGED <<shards, aggregate, snapshots>>

(* The count of an hour divided among the shards, the first taking the     *)
(* remainder; no row for nothing.                                          *)
RowsOf(Share(_), given) ==
    [k \in {<<"1hour", p[1][1], p[1][2], p[2]>> : p \in given} |->
        Share(<<<<k[2], k[3]>>, k[4]>>)]

(* Mutant: the remainder is dropped. *)
SplitEvenly(rows) ==
    LET share(p) == rows[p[1]] \div ShardCount
    IN  RowsOf(share, {p \in (DOMAIN rows) \X Shards : share(p) > 0})

SplitOverShards(rows) ==
    LET share(p) == rows[p[1]] \div ShardCount
                      + (IF p[2] < rows[p[1]] % ShardCount THEN 1 ELSE 0)
    IN  RowsOf(share, {p \in (DOMAIN rows) \X Shards : share(p) > 0})

HourlyTotals(rows) ==
    LET Key(w, r) == <<w, BucketStart(w, r[1]), r[2]>>
    IN  InEveryWindow(Key, rows)

ApplyPrecomputedHourlyCounts(rows, refresh, writeShards) ==
    LET totals == HourlyTotals(rows)
        table == aggregate (+) totals
    IN  /\ shards' = IF writeShards THEN shards (+) SplitOverShards(rows) ELSE shards
        /\ aggregate' = table
        /\ snapshots' =
              IF refresh THEN Refreshed(table, {BucketOf(k) : k \in DOMAIN totals})
              ELSE snapshots
        /\ UNCHANGED native

RefreshTopKSnapshots(S) ==
    /\ snapshots' = Refreshed(aggregate, S)
    /\ UNCHANGED <<shards, aggregate, native>>
-----------------------------------------------------------------------------
(* The queries. *)
TopK(bucket, k) ==
    LET rows == IF bucket \in DOMAIN snapshots THEN snapshots[bucket] ELSE <<>>
    IN  SubSeq(rows, 1, IF k < Len(rows) THEN k ELSE Len(rows))

(* GROUP BY video_id over the hours of the bucket. *)
NativeTopK(bucket, k) ==
    LET inBucket(h) ==
            IF bucket[1] = "1hour" THEN h = bucket[2]
            ELSE bucket[2] <= h /\ BeforeEnd(bucket[1], bucket[2], h)
        Video(r) == r[2]
        hours == {r \in DOMAIN native : inBucket(r[1])}
    IN  Ranking(GroupBy(Video, [r \in hours |-> native[r]]), k)

ShardSum(key) == SumFunctionOnSet(shards, {d \in DOMAIN shards : TotalOf(d) = key})
-----------------------------------------------------------------------------
(* Every row lies at the start of its window's bucket, with a positive     *)
(* count, and a ranking has at most KLimit rows.                           *)
StoreTypeOK ==
    /\ IsABag(shards) /\ DOMAIN shards \subseteq Windows \X Nat \X Videos \X Shards
    /\ IsABag(aggregate) /\ DOMAIN aggregate \subseteq Windows \X Nat \X Videos
    /\ IsABag(native) /\ DOMAIN native \subseteq Nat \X Videos
    /\ \A k \in DOMAIN shards \cup DOMAIN aggregate : k[2] = BucketStart(k[1], k[2])
    /\ \A r \in DOMAIN native : r[1] = BucketStart("1hour", r[1])
    /\ DOMAIN snapshots \subseteq {BucketOf(k) : k \in DOMAIN aggregate}
    /\ \A b \in DOMAIN snapshots : Len(snapshots[b]) \in 1..KLimit
=============================================================================
