\* Under FairSpec: two instructions, two attempts, one worker, room for one on each channel.
SPECIFICATION FairSpec
CONSTANTS
    Instrs = {i1, i2}
    Bodies = {"good", "odd"}
    TooBig = {}
    Unhashable = {"odd"}
    Empty = "empty"
    MaxAttempts = 2
    MaxWorkers = 1
    OutCap = 1
    ErrCap = 1
PROPERTIES
    Settles
    QueueStops
CHECK_DEADLOCK FALSE
