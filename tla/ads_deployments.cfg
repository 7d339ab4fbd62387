\* One worker alone on mixed batches, or two background processors beside it.
SPECIFICATION ScenarioSpec
CONSTANTS
  Requests = {r1, r2, r3, r4}
  BackgroundRequests = {r1, r2}
  Workers = {w1}
  Impressions <- MixedImpressions
  FirstImpressions = {1, 2}
  Campaigns <- MixedCampaigns
  CampaignOf <- MixedCampaignOf
  BaseShard <- MCBaseShard
  HotShards <- MCHotShards
  VirtualShard <- MixedVirtualShard
  Minutes = {0, 1}
  BatchSize = 3
  Background = FALSE
  MaxRebuilds = 0
  MaxCrashes = 1
INVARIANTS TypeOK NothingLost DeltasAreClicks
PROPERTIES SequentialLedgerRefinement EventuallyDrained
