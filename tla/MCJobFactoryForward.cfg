SPECIFICATION Spec
CONSTANTS
    Pod = {p1, p2}
    Twjd = {"airlineDay"}
    None = None
    Descriptor <- MCDescriptor
    Verdicts <- MCVerdicts
    Undecodable <- MCUndecodable
    Unfetchable <- MCUnfetchable
    MaxDeliveries = 3
    Batches <- MCAlone
    MaxCrashes = 1
    MaxErrors = 0
INVARIANTS
    FastForwardIsPublished
CHECK_DEADLOCK FALSE
