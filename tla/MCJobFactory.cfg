SPECIFICATION FairSpec
CONSTANTS
    Pod = {p1, p2}
    Twjd = {"airlineDay", "rehearsal", "nextDay", "longDay", "single", "byJob", "ambiguous", "garbage", "toxic", "tooSmall"}
    None = None
    Descriptor <- MCDescriptor
    Verdicts <- MCVerdicts
    Undecodable <- MCUndecodable
    Unfetchable <- MCUnfetchable
    MaxDeliveries = 2
    Batches <- MCTogether
    MaxCrashes = 1
    MaxErrors = 1
INVARIANTS
    TypeOK
    AckedIsAccounted
    LossBounded
    ResentNeedsRelapse
    DeadLetterNeedsFailure
PROPERTIES
    EverySubmissionEnds
CHECK_DEADLOCK FALSE
