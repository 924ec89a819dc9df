SPECIFICATION Spec
CONSTANTS
    h1 = h1
    h2 = h2
    b1 = b1
    b2 = b2
    Hosts <- TwoHosts
    Bytes <- TwoBytes
    MaxSources = 3
    MaxLineages = 2
    MaxFailed = 1
SYMMETRY Symmetry
INVARIANTS
    LibrarySound
    ReceiptIsTrue
    AnswersAreOfTheCall
PROPERTIES
    ClosedStaysClosed
CHECK_DEADLOCK FALSE
