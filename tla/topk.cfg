\* The consumer with deaths and cut polls, and the loader with deaths.
SPECIFICATION Spec
CONSTANTS
    HourLength = 2
    DayLength = 4
    Months <- MCMonths
    Videos <- MCVideos
    ShardCount = 2
    KLimit = 1
    Partitions = {1, 2}
    PartitionOf <- MCPartitionOf
    Times <- MCTimes
    MaxMessagesChoices = {1, 9}
    MaxPollRecords = 2
    IdlePolls = 2
    MaxEvents = 3
    MaxRuns = 2
    Batches <- MCBatches
    MaxLoads = 2
INVARIANTS
    TypesOK
    StreamIsCounted ArchitecturesAgree RankingsAreCurrent ShardsAddUp
