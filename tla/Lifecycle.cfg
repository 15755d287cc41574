\* Start, signals at any time and shutdown, with a clock and an indexer.
SPECIFICATION FairSpec
CONSTANTS
    HealthDisabled = FALSE
    MaxLag = 1
    Skew = 1
    ChannelCap = 1
    BatchSize = 2
    MaxTries = 2
    MaxTime = 4
    MaxBatches = 2
    MaxSignals = 2
INVARIANTS
    StartupMeansLaunched
    ReadyMeansRecentFetch
    NoLoopAfterExit
PROPERTIES
    SignalEndsProcess
CHECK_DEADLOCK FALSE
