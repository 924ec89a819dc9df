CONSTANTS
    Requests = {r1, r2}
    None = None
    Start = 6
    MaxFaults = 2
SPECIFICATION RecoverySpec
INVARIANTS
    ShownIsTrue
    ActsOnWhatWasShown
PROPERTIES
    OriginalKept
    ClosesSettled
    BlocksAreLifted
CHECK_DEADLOCK FALSE
