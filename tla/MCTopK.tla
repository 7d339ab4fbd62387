------------------------------- MODULE MCTopK -------------------------------
(***************************************************************************)
(* The Kafka consumer and the benchmark's loader, each on tables of its    *)
(* own: a behaviour runs one of them.                                      *)
(***************************************************************************)
EXTENDS TopKStream, TopKLoad, TLC

VARIABLE program

vars == <<program, storeVars, streamVars, loadVars>>

(* An hour is two units, a day two hours; the second month begins at 8.    *)
MCMonths == {0, 8, 16}
MCTimes == {1, 3, 8}
MCVideos == {1, 2}
MCPartitionOf == <<1, 2>>

(* Batches of one or two rows. *)
Hours == {0, 2, 8}
MCBatches ==
    UNION {[S -> {1, 3}] : S \in {T \in SUBSET (Hours \X MCVideos) : Cardinality(T) \in {1, 2}}}

Init ==
    /\ StoreInit /\ StreamInit /\ LoadInit
    /\ \/ program = "stream" /\ writeShards = FALSE
       \/ program = "load" /\ \A n \in MaxMessagesChoices : n <= maxMessages

Next ==
    /\ UNCHANGED program
    /\ \/ program = "stream" /\ StreamNext /\ UNCHANGED loadVars
       \/ program = "load" /\ LoadNext /\ UNCHANGED streamVars

Spec == Init /\ [][Next]_vars

-----------------------------------------------------------------------------
(* Tables, positions and the loader's state have their types.              *)
TypesOK == StoreTypeOK /\ StreamTypeOK /\ LoadTypeOK

(* CountsFollowOffsets, of the tables that the stream writes: every        *)
(* committed record is counted, and again only after a death.              *)
StreamIsCounted == program = "stream" => CountsFollowOffsets

(* What a query reads is the ranking of the totals: the stream leaves no   *)
(* bucket with a ranking older than its counts, and a run of the loader    *)
(* that ends leaves only those of runs that died.                          *)
RankingsAreCurrent ==
    \A k \in DOMAIN aggregate :
        LET bucket == BucketOf(k)
        IN  bucket \notin Unranked =>
               TopK(bucket, KLimit) = Ranking(ViewsIn(aggregate, bucket), KLimit)

(* The shards of a video add up to its total: in every bucket when the     *)
(* stream writes them, in the hours when the loader does.                  *)
ShardsAddUp ==
    \A k \in DOMAIN aggregate :
        program = "stream" \/ (writeShards /\ k[1] = "1hour") =>
            ShardSum(k) = aggregate[k]
=============================================================================
