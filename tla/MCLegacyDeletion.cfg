CONSTANTS
    p1 = p1
    p2 = p2
    m1 = m1
    m2 = m2
    Sources = {s1}
    Proposals = {p1, p2}
    Memories = {m1, m2}
    Origin <- TwoRecords
    Supersedes <- OneSupersession
    MaxRequests = 2
    MaxAttempts = 2
    MaxFailed = 1
    MaxCrashes = 1
SPECIFICATION FairSpec
CHECK_DEADLOCK FALSE
INVARIANTS HistoryAccepted DeletedMeansGone
PROPERTY EveryRequestCompletes
