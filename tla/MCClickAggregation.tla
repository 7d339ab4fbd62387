------------------------- MODULE MCClickAggregation -------------------------
(***************************************************************************)
(* Instances of ClickAggregation and its pipeline.  In the small one all   *)
(* impressions are of one campaign, so that the keys are its minutes.  In  *)
(* the mixed one two advertisers share the id of a hot ad.                 *)
(***************************************************************************)
EXTENDS ClickPipeline, TLC

Campaign(advertiser, ad) == [advertiser |-> advertiser, ad |-> ad]

MCCampaigns == {Campaign("adv1", "ad1")}
MCCampaignOf == [i \in Impressions |-> Campaign("adv1", "ad1")]
MCVirtualShard == [i \in Impressions |-> 0]

MixedImpressions == 1..4
MixedCampaignOf ==
    <<Campaign("adv1", "ad1"), Campaign("adv1", "ad1"), Campaign("adv2", "ad1"), Campaign("adv2", "ad2")>>
MixedCampaigns == {MixedCampaignOf[i] : i \in MixedImpressions}
MixedVirtualShard == [i \in MixedImpressions |-> i % 2]

MCBaseShard == [ad \in {"ad1", "ad2"} |-> 0]
MCHotShards == [ad \in {"ad1", "ad2"} |-> IF ad = "ad1" THEN 2 ELSE 1]

Symmetry == Permutations(Requests) \cup Permutations(Impressions)
=============================================================================
