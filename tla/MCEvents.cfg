SPECIFICATION LiveSpec
CONSTANTS
    Null = Null
    NoPosition = NoPosition
    Airports <- OneField
    AirportPos <- FieldPos
    Profiles <- Landing
    Aircraft <- TwoAircraft
    RingSize = 4
    GapResetS = 2
    ArrivalDedupeS = 3
    GoAroundDedupeS = 3
    Lookback = 2
    AccrueWindowS = 6
    CloseAfterS = 2
    MaxOffsetsPerTrigger = 2
    MaxLog = 3
    MaxTs = 1
    MaxCrashes = 1
    MaxResets = 1
INVARIANTS
    TypeOK
    LandingIsInTheTopic
PROPERTIES
    DetectedExactlyOnce
    EveryMessageConsumed
CHECK_DEADLOCK FALSE
