SPECIFICATION LiveSpec
CONSTANTS
    Null = Null
    Aircraft <- TwoAircraft
    MaxApiTs = 3
    MaxPollTs = 2
    MaxLog = 3
    MaxPolled = 2
    MaxFaults = 2
    MaxOffsetsPerTrigger = 2
    Delay = 1
INVARIANTS
    TypeOK
    OneRevocationOnePoll
    HiddenOnlyByPositionless
    BronzeOnce
    BronzeLosesOnlyLate
PROPERTIES
    NeverBackwards
    Polls
CHECK_DEADLOCK FALSE
