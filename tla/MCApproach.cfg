SPECIFICATION Spec
CONSTANTS
    Null = Null
    Airports <- TwoFields
    AirportPos <- FieldPos
    Profiles <- Approaches
    RingSize = 5
    GapResetS = 1
    ArrivalDedupeS = 3
    GoAroundDedupeS = 2
    Lookback = 3
    AccrueWindowS = 3
    CloseAfterS = 2
    LateBy = 0
    MaxTs = 5
    MaxLosses = 1
INVARIANTS
    TypeOK
    RingIsOneContact
    ArrivalsSpaced
    LandingReported
    ShortFinalReported
    GoAroundWasBalked
    GoAroundFoundOnce
    GroundArrivalWasAirborne
