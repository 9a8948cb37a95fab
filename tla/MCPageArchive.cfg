SPECIFICATION PageLiveSpec
CONSTANTS
    Null = Null
    None = None
    Routes <- OneRoute
    Streams <- TwoStreams
    Ttl = 2
    SSE_INTERVAL_S = 2
    SSE_MAX_PER_IP = 1
    MaxTime = 3
    HistoryKeys <- TwoSlices
    MaxDays = 3
    AIRPORTS <- TwoFields
    Volume <- Arrivals
    MaxToday = 4
    MaxBacklog = 1
    MaxRuns = 3
    MaxPolls = 2
    MaxNights = 2
PROPERTIES
    PollingKeepsTrying
CHECK_DEADLOCK FALSE
