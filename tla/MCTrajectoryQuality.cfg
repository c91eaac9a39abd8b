SPECIFICATION Spec
CONSTANTS
    Raw <- MCRaw
    Attribute = {"callsign", "airline"}
    Value = {1, 2}
    Null = Null
    Origin = 0
    Destination = 100
    Located = TRUE
    GroundLevel = 0
    Ceiling = 55
    Approach = 1
    MinSpeed = 5
    MaxSpeed = 20
    MaxPasses = 2
    MinReach = 2
    MaxReach = 40
    MaxShare = 10
    Minute = 2
    Cutoff = 2
    Violation = {"ROCDError", "FlightTooShortError"}
    Permitted = {"ROCDError"}
INVARIANTS
    HealedIsClean
    OutliersCostNoFlight
    AirportsOnlyForWholeTrips
    ObservedIsNearData
CHECK_DEADLOCK FALSE
