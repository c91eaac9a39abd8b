SPECIFICATION Spec
CONSTANTS
    Null = Null
    None = None
    Blank = Blank
    Flight <- MCFlight
    Airline = {"AA", Null}
    JobId = {"j", "k"}
    Table = {"lut"}
    Aircraft = {"x"}
    AircraftOf <- MCAircraftOf
    Report <- MCReport
    LowFlying = {"f2"}
    Lookup <- MCLookup
    Flaky <- MCFlaky
    Submission <- MCSubmission
    DayHours = 2
    PruneHead = 1
    PruneTail = 1
    MinNullRows = 1
    LastDay = 3
    Opening = 2
    MaxRows = 3
    MaxLate = 1
    MaxHeats = 2
    MaxOthers = 0
    MaxFetches = 2
INVARIANTS
    SourcesAgree
    MarkerPositionsAgree
    EarlyRunsMissOnlyTheDayAfter
    PublishedOnce
    EveryFlightIsSomeonesJob
    SubmittedIsMeant
CHECK_DEADLOCK FALSE
