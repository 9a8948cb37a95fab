SPECIFICATION Spec
CONSTANTS
    Null = Null
    Airports <- TwoFields
    AirportPos <- FieldPos
    Profiles <- Racetrack
    RingSize = 5
    GapResetS = 1
    ArrivalDedupeS = 3
    GoAroundDedupeS = 3
    Lookback = 2
    AccrueWindowS = 4
    CloseAfterS = 2
    LateBy = 0
    MaxTs = 6
    MaxLosses = 0
INVARIANTS
    NullsNeverRaise
