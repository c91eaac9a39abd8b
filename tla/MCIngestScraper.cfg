SPECIFICATION FairSpec
CONSTANTS
    Minute = 2
    Step = 4
    Delay = 1
    FirstMarker = 1
    Useful <- MCUseful
    FlowLimit = 1
    MaxRetries = 1
    MaxNow = 9
    MaxRecords = 2
    MaxFaults = 2
INVARIANTS
    TypeOK
    LostOnlyIfRefused
PROPERTIES
    MarkerContiguous
    FetchedIsPublished
