CONSTANTS
    Hosts = {h1,h2}
    Requests = {r1, r2}
    Objects = {o1, o2}
    NoHost = NoHost
    NoRequest = NoRequest
    N = 3
    Erasing <- MCErasing
    Times = {1}
    MaxAttempts = 3
SPECIFICATION Spec
INVARIANTS
    NothingLeftBehind
    ReceiptsFormChain
    CompletedMeansGone
CHECK_DEADLOCK FALSE
SYMMETRY ExecutionSymmetry
