SPECIFICATION Spec
CONSTANTS
    Path = {"old", "jan", "again"}
    Period <- MCPeriod
    Shard = {"s1", "s2", "s3", "s4"}
    PathOf <- MCPathOf
    Rows <- MCRows
    Day <- MCDay
    Bucket <- MCBucket
    User = {"internal_user_rw", "postgres"}
    Owner = {"postgres"}
    None = None
    MonthDays = 2
    ChunkSize = 1
    MaxErrors = 2
    MaxKills = 1
INVARIANTS
    TypeOK
    HistogramNeverOvercounts
    AcceptedIsLoaded
    PartitionsSuffice
