SPECIFICATION Spec
CONSTANTS
    Lineages = {a, b}
    MaxVersion = 2
    MaxSources = 2
    Proposals = {p1, p2, p3}
    Contents = {c}
    Memories = {m1, m2, m3}
    MemoryLineages = {k1, k2}
    NoMemory = NoMemory
    Times = {t1}
    NoTime = NoTime
    Starts = {t1}
    MaxDecisions = 3
SYMMETRY MemorySymmetry
CHECK_DEADLOCK FALSE
INVARIANTS EveryRecordLoads HistoryWellFormed RecallRestsOnActive ResolvedClosureAccepted DerivedExact
