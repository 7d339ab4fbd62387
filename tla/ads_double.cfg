\* A background processor and a worker fetch the same events.
SPECIFICATION Spec
CONSTANTS
  Requests = {r1, r2}
  Workers = {w1}
  Impressions = {i1, i2}
  Campaigns <- MCCampaigns
  CampaignOf <- MCCampaignOf
  BaseShard <- MCBaseShard
  HotShards <- MCHotShards
  VirtualShard <- MCVirtualShard
  Minutes = {0}
  BatchSize = 1
  Background = TRUE
  MaxRebuilds = 0
  MaxCrashes = 0
SYMMETRY Symmetry
INVARIANTS ExactlyOnce
