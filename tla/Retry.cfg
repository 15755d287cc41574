\* All four schedules; every call and delay may end half a second late.
SPECIFICATION FairSpec
CONSTANTS
    Statuses = {0, 404, 429, 599, 600}
    Slack = 1
INVARIANTS
    GivesUpOnlyAfterAllAttempts
    DecidedByLastAttempt
    HistoryIsTrue
PROPERTIES
    CallerNeverHangs
CHECK_DEADLOCK FALSE
