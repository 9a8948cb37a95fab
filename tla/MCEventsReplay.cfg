SPECIFICATION Spec
CONSTANTS
    Null = Null
    NoPosition = NoPosition
    Airports <- OneField
    AirportPos <- FieldPos
    Profiles <- Landing
    Aircraft <- OneAircraft
    RingSize = 4
    GapResetS = 2
    ArrivalDedupeS = 3
    GoAroundDedupeS = 3
    Lookback = 2
    AccrueWindowS = 6
    CloseAfterS = 2
    MaxOffsetsPerTrigger = 3
    MaxLog = 3
    MaxTs = 3
    MaxCrashes = 1
    MaxResets = 1
INVARIANTS
    EventHasOneRow
CHECK_DEADLOCK FALSE
