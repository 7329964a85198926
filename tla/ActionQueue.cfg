SPECIFICATION QueueFairSpec
CONSTANTS
    MaxActions = 3
    BatchLimit = 3
    RetryMax = 2
    MaxFailures = 2
    MaxMishaps = 2
    NoReply = NoReply
INVARIANTS
    NothingFlickers
    RoundFinishedOnce
    OvertakenOnlyByBeacon
PROPERTIES
    EveryClickCounts
CHECK_DEADLOCK FALSE
