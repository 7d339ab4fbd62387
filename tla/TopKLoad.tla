------------------------------ MODULE TopKLoad ------------------------------
(***************************************************************************)
(* youtube-topk-videos, benchmark_architectures.py: every batch of hourly  *)
(* counts is applied to the native table and then, in another transaction, *)
(* to the aggregates; the rankings are made once at the end.  The script   *)
(* may die anywhere and be run again on the tables it left.                *)
(***************************************************************************)
EXTENDS TopKStore

CONSTANTS
    Batches,           \* batches of the generator: bags of <<hour, video>>
    MaxLoads           \* bound: batches in all runs of the script

ASSUME LoadAssumption ==
    /\ MaxLoads \in Nat
    /\ \A b \in Batches :
          /\ IsABag(b) /\ IsFiniteSet(DOMAIN b) /\ DOMAIN b \subseteq Nat \X Videos
          /\ \A r \in DOMAIN b : r[1] = BucketStart("1hour", r[1])

VARIABLES
    loading,           \* "next", "precomputed", "measure" or "dead"
    rows,              \* the batch being applied
    writeShards,       \* --write-shards
    affected,          \* affected_buckets of this run
    loads,             \* batches taken
    torn,              \* history: batches in the native table only
    abandoned          \* history: buckets that a run which died did not rank

loadVars == <<loading, rows, writeShards, affected, loads, torn, abandoned>>

LoadInit ==
    /\ loading = "next"
    /\ rows = EmptyBag
    /\ writeShards \in BOOLEAN
    /\ affected = {}
    /\ loads = 0
    /\ torn = 0
    /\ abandoned = {}

LoadNative ==
    /\ loading = "next"
    /\ loads < MaxLoads
    /\ loads' = loads + 1
    /\ rows' \in Batches
    /\ ApplyNativeHourlyCounts(rows')
    /\ loading' = "precomputed"
    /\ UNCHANGED <<writeShards, affected, torn, abandoned>>

AffectedBy == {BucketOf(k) : k \in DOMAIN HourlyTotals(rows)}

(* Mutant: the buckets of the last batch only are ranked in the end. *)
LoadPrecomputedAnew ==
    /\ loading = "precomputed"
    /\ ApplyPrecomputedHourlyCounts(rows, FALSE, writeShards)
    /\ affected' = AffectedBy
    /\ loading' = "next"
    /\ rows' = EmptyBag
    /\ UNCHANGED <<writeShards, loads, torn, abandoned>>

LoadPrecomputed ==
    /\ loading = "precomputed"
    /\ ApplyPrecomputedHourlyCounts(rows, FALSE, writeShards)
    /\ affected' = affected \cup AffectedBy
    /\ loading' = "next"
    /\ rows' = EmptyBag
    /\ UNCHANGED <<writeShards, loads, torn, abandoned>>

(* The generator may end after any batch. *)
RefreshAtEnd ==
    /\ loading = "next"
    /\ RefreshTopKSnapshots(affected)
    /\ abandoned' = abandoned \ affected
    /\ loading' = "measure"
    /\ UNCHANGED <<rows, writeShards, affected, loads, torn>>

LoaderDies ==
    /\ loading \in {"next", "precomputed"}
    /\ torn' = IF loading = "precomputed" THEN torn + 1 ELSE torn
    /\ loading' = "dead"
    /\ rows' = EmptyBag
    /\ abandoned' = abandoned \cup affected
    /\ affected' = {}
    /\ UNCHANGED <<storeVars, writeShards, loads>>

(* With the same arguments, on the tables as they are. *)
RunAgain ==
    /\ loading \in {"dead", "measure"}
    /\ loads < MaxLoads
    /\ loading' = "next"
    /\ affected' = {}
    /\ UNCHANGED <<storeVars, rows, writeShards, loads, torn, abandoned>>

LoadFinished ==
    /\ loading \in {"dead", "measure"} /\ loads = MaxLoads
    /\ UNCHANGED <<storeVars, loadVars>>

LoadNext ==
    \/ LoadNative \/ LoadPrecomputed \/ RefreshAtEnd \/ LoaderDies \/ RunAgain
    \/ LoadFinished

LoadSpec == StoreInit /\ LoadInit /\ [][LoadNext]_<<storeVars, loadVars>>
-----------------------------------------------------------------------------
LoadTypeOK ==
    /\ loading \in {"next", "precomputed", "measure", "dead"}
    /\ IF loading = "precomputed" THEN rows \in Batches ELSE rows = EmptyBag
    /\ writeShards \in BOOLEAN
    /\ affected \subseteq {BucketOf(k) : k \in DOMAIN aggregate}
    /\ abandoned \subseteq {BucketOf(k) : k \in DOMAIN aggregate}
    /\ loads \in 0..MaxLoads
    /\ torn \in 0..loads

(* Buckets whose counts may be newer than their ranking. *)
Unranked == abandoned \cup (IF loading = "measure" THEN {} ELSE affected)

(* The two architectures give one answer: unless a run died between the    *)
(* two tables, a ranked bucket lists the videos that the sum over the      *)
(* hours of its window gives, for every k.                                 *)
ArchitecturesAgree ==
    torn = 0 /\ loading # "precomputed" =>
        \A row \in DOMAIN native, w \in Windows :
            LET bucket == <<w, BucketStart(w, row[1])>>
            IN  bucket \notin Unranked =>
                   \A k \in 1..KLimit : TopK(bucket, k) = NativeTopK(bucket, k)
=============================================================================
