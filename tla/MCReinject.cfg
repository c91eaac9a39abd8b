\* Two runs may overlap; a batch of three exceeds the publisher's flow limit
\* and may hold the letter that cannot be decoded at any place.
CONSTANTS
    Cli = {c1, c2}
    Letter = {l1, l2, poison}
    Undecodable = {poison}
    None = None
    MaxCount = 3
    FlowLimit = 1
    MaxRuns = 3
    MaxFaults = 1
    MaxLapses = 1
SPECIFICATION Spec
SYMMETRY Symmetry
INVARIANTS
    TypeOK
    NoLetterVanishes
    DuplicatesNeedUnfinishedRuns
CHECK_DEADLOCK FALSE
