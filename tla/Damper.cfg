\* Rounds 1 to 4 apart, summaries every 3, stamps up to 1 late.
SPECIFICATION Spec
CONSTANTS
    SummaryInterval = 3
    MaxGap = 4
    Delay = 1
    MaxClock = 12
INVARIANTS
    ErrorsRationed
PROPERTIES
    NoSilentOutage
CHECK_DEADLOCK FALSE
