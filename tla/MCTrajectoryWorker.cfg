SPECIFICATION FairSpec
CONSTANTS
    Primary = {p1, p2}
    Backup = {b1}
    Chunk = {"plain", "export", "heavy", "skipped", "unsupported", "unrunnable", "undecodable"}
    Kind <- MCKind
    Segment = {"s1"}
    None = None
    MaxDeliveries = 4
    MaxSubmits = 1
    MaxCrashes = 1
    MaxErrors = 2
INVARIANTS
    TypeOK
    NoChunkVanishes
    DuplicatesNeedFailures
    DeadLetterNeedsFailures
PROPERTIES
    EveryChunkEnds
CHECK_DEADLOCK FALSE
