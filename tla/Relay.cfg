\* Three events, a channel of one batch, three lives; one event may hang for ever.
SPECIFICATION RelayFairSpec
CONSTANTS
    Events <- MCEvents
    BlockOf <- MCBlockOf
    Machines <- MCMachines
    Tries = 1
    Stuck = {"b"}
    MaxBlock = 4
    StartInterval = 2
    ChanCap = 1
    MaxLives = 3
INVARIANTS
    TakenOncePerLife
    LostOnlyBelowWindow
    AskedOnlyInWindow
PROPERTIES
    EventuallySettled
CHECK_DEADLOCK FALSE
