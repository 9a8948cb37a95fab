SPECIFICATION Spec
CONSTANTS
    Null = Null
    Airports <- TwoFields
    AirportPos <- FieldPos
    Profiles <- Racetrack
    RingSize = 7
    GapResetS = 1
    ArrivalDedupeS = 3
    GoAroundDedupeS = 3
    Lookback = 2
    AccrueWindowS = 6
    CloseAfterS = 2
    LateBy = 0
    MaxTs = 6
    MaxLosses = 1
INVARIANTS
    OpenHoldIsRecent
    HoldingWasFlown
PROPERTIES
    ClosedHoldIsReported
CHECK_DEADLOCK FALSE
