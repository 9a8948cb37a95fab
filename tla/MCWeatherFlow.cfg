SPECIFICATION LiveSpec
CONSTANTS
    Null = Null
    Stations <- OneStation
    Alerts <- OneAlert
    Order <- OneInTurn
    Signatures <- TwoSignatures
    MaxFaults = 2
    MaxChanges = 2
INVARIANTS
    TypeOK
    CommitNeverAhead
    ChangesNotHeartbeats
PROPERTIES
    TableFollowsSource
