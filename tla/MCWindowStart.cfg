SPECIFICATION Spec
CONSTANTS
    Null = Null
    Airports <- TwoFields
    AirportPos <- FieldPos
    Profiles <- Landings
    RingSize = 4
    GapResetS = 1
    ArrivalDedupeS = 2
    GoAroundDedupeS = 2
    Lookback = 2
    AccrueWindowS = 3
    CloseAfterS = 2
    LateBy = 0
    MaxTs = 5
    MaxLosses = 0
INVARIANTS
    WindowStartsThisApproach
