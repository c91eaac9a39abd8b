SPECIFICATION Spec
CONSTANTS
    Null = Null
    None = None
    Blank = Blank
    Flight <- MCFlight
    Airline = {"AA", Null}
    JobId = {"j", "k"}
    Table = {"lut"}
    Aircraft = {"x"}
    AircraftOf <- MCAircraftOf
    Report <- MCReport
    LowFlying = {}
    Lookup <- MCLookup
    Flaky <- MCFlaky
    Submission <- MCNullSubmission
    DayHours = 2
    PruneHead = 1
    PruneTail = 1
    MinNullRows = 1
    LastDay = 3
    Opening = 2
    MaxRows = 3
    MaxLate = 0
    MaxHeats = 1
    MaxOthers = 0
    MaxFetches = 1
INVARIANTS
    NullJobsTakeNullFlights
CHECK_DEADLOCK FALSE
