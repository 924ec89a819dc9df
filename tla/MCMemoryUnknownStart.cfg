SPECIFICATION Spec
CONSTANTS
    Lineages = {a}
    MaxVersion = 1
    MaxSources = 2
    Proposals = {p1, p2}
    Contents = {c}
    Memories = {m1, m2}
    MemoryLineages = {k1}
    NoMemory = NoMemory
    Times = {t1}
    NoTime = NoTime
    Starts = {t1, NoTime}
    MaxDecisions = 2
CHECK_DEADLOCK FALSE
INVARIANT EveryRecordLoads
