\* Is nothing routed once the probes are refused?
SPECIFICATION FairSpec
CONSTANTS
    HealthDisabled = FALSE
    MaxLag = 1
    Skew = 1
    ChannelCap = 1
    BatchSize = 2
    MaxTries = 2
    MaxTime = 2
    MaxBatches = 2
    MaxSignals = 2
PROPERTIES
    NothingRoutedWhileDraining
CHECK_DEADLOCK FALSE
