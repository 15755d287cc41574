\* A cosigner with a remote signer, five logs in two batches; one of the
\* instructions may hang for ever.
SPECIFICATION FairSpec
CONSTANTS
    Logs <- MCLogs
    Parsable = {"plain", "fdc", "bad", "theirs"}
    OpOf <- MCOpOf
    ValidOps <- MCValidOps
    Cosigners <- MCCosigners
    TeeMachines <- MCTeeMachines
    Address = "me"
    IsCosigner = TRUE
    Remote = TRUE
    Extras = {"body"}
    NoExtra = "none"
    Batches <- MCBatches
    CToRCap = 1
    RToSCap = 1
    MaxPosts = 2
    Stuck = {"fdc"}
INVARIANTS
    ReceivedIsSignedForReceiver
    SenderNeverPanics
    EachMachineOnce
PROPERTIES
    KeepsDelivery
    NoHeadOfLineBlocking
    PipelineStops
CHECK_DEADLOCK FALSE
