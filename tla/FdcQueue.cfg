\* Two instructions, two attempts, two workers, room for one on each channel.
SPECIFICATION Spec
CONSTANTS
    Instrs = {i1, i2}
    Bodies <- MCBodies
    TooBig <- MCTooBig
    Unhashable <- MCUnhashable
    Empty = "empty"
    MaxAttempts = 2
    MaxWorkers = 2
    OutCap = 1
    ErrCap = 1
INVARIANTS
    TypeOK
    EmittedIsConsistent
    OneHolder
    AttemptsBounded
PROPERTIES
    VerdictFinal
    KeepsPromise
CHECK_DEADLOCK FALSE
