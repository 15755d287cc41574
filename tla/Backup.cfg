\* A data provider restore and a direct restore, every answer of their hosts,
\* under fair scheduling.
SPECIFICATION FairSpec
CONSTANTS
    Restores = {"restore", "direct"}
    Direct = {"direct"}
    BackupIds = {"b1", "b2"}
    TeeIds = {"t1", "t2"}
    Actions = {"a1", "a2"}
    Asked <- MCAsked
    Junk = "junk"
    NoData = NoData
    OutCap = 1
INVARIANTS
    ForwardedMatchesRequest
    VerifiedBeforeSent
PROPERTIES
    KeepsRestorePromise
    RestoresSettle
CHECK_DEADLOCK FALSE
