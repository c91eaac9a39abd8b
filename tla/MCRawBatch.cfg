SPECIFICATION FairSpec
CONSTANTS
    Minute = 2
    Step = 4
    Delay = 2
    FirstMarker = 3
    MaxRetries = 1
    MaxNow = 11
    MaxRecords = 2
    MaxWithdrawn = 1
    MaxFaults = 2
INVARIANTS
    TypeOK
    ReadIsArchived
PROPERTIES
    ArchiveLosesOnlyWithdrawn
    MarkerContiguous
    CatchesUp
