--------------------------- MODULE ClickPipeline ----------------------------
(***************************************************************************)
(* The Map/Aggregate/Reduce pipeline of the ads click aggregation service: *)
(* what it computes for the batch a processor has fetched.                 *)
(* ClickAggregation commits the reference counts Clicks; DeltasAreClicks   *)
(* says that the three nodes compute them, hot ads and ads whose id two    *)
(* advertisers share included.                                             *)
(***************************************************************************)
EXTENDS ClickAggregation, FiniteSetsExt

CONSTANTS
    BaseShard,         \* BaseShard[ad]: stable_shard(ad_id, shard_count)
    HotShards,         \* HotShards[ad]: virtual shards of the ad, 1 unless hot
    VirtualShard       \* VirtualShard[i]: stable_shard(impression_id, hot_shards)

(* MapNode.map: an ad has one partition, a hot ad one per virtual shard.   *)
PartitionKey(event) ==
    LET ad == CampaignOf[event.imp].ad IN
    IF HotShards[ad] > 1
    THEN <<BaseShard[ad], ad, VirtualShard[event.imp]>>
    ELSE <<BaseShard[ad], ad>>

Map(events) ==
    [i \in DOMAIN events |-> [partition |-> PartitionKey(events[i]), key |-> events[i].key]]

(* Mutant: partial aggregates of a partition forget the advertiser. *)
AggregateByAd(mapped) ==
    {[partition |-> g.partition, key |-> g.key,
      count |-> Cardinality({i \in DOMAIN mapped : /\ mapped[i].partition = g.partition
                                                   /\ mapped[i].key[2] = g.key[2]})]
        : g \in {mapped[i] : i \in DOMAIN mapped}}

(* AggregateNode.aggregate: one partial per partition, campaign and minute.*)
Aggregate(mapped) ==
    {[partition |-> g.partition, key |-> g.key,
      count |-> Cardinality({i \in DOMAIN mapped : mapped[i] = g})]
        : g \in {mapped[i] : i \in DOMAIN mapped}}

(* ReduceNode.reduce: the partials of one campaign and minute added up. *)
Reduce(partials) ==
    [k \in {p.key : p \in partials} |->
        SumFunctionOnSet([p \in partials |-> p.count], {p \in partials : p.key = k})]

Deltas(events) == Reduce(Aggregate(Map(events)))

(* Whatever batch a processor holds, the pipeline gives for each campaign  *)
(* and minute the number of its events, however they were partitioned, and *)
(* no other row.                                                           *)
DeltasAreClicks ==
    \A p \in {q \in Processors : pc[q] = "fetched"} :
        Deltas(SubSeq(raw, from[p] + 1, upto[p])) =
            [k \in {raw[i].key : i \in (from[p] + 1)..upto[p]} |-> Clicks(raw, k, from[p], upto[p])]
=============================================================================
