CONSTANTS
    Hosts = {h1, h2}
    Sources = {s1, s2}
    NoHost = NoHost
    Budget <- AllTrouble
SPECIFICATION FairSpec
INVARIANTS OneLibraryState
PROPERTIES ExportsOnlyActive DriftIsRepaired
