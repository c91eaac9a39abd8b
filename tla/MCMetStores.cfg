SPECIFICATION MetSpec
CONSTANTS
    HalfHour = 2
    Interval = 24
    Day = 96
    Availability = 36
    Horizon = 288
    MaxAge = 48
    LastHour = 92
    Chunks <- MCChunks
    None = None
    MaxNow = 300
INVARIANTS
    ForecastCovers
    Era5NearlyCovers
PROPERTIES
    MostRecentUsable
CHECK_DEADLOCK FALSE
