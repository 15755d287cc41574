\* Three events in two blocks, three lives, a channel of one batch.
SPECIFICATION FairSpec
CONSTANTS
    Events <- MCEvents
    BlockOf <- MCBlockOf
    MaxBlock = 4
    StartInterval = 2
    ChanCap = 1
    MaxLives = 3
INVARIANTS
    ExactlyOnce
    LossOnlyBelowWindow
    CursorBehindReport
PROPERTIES
    KeepsCollection
    EventuallySent
    ListenerStops
CHECK_DEADLOCK FALSE
