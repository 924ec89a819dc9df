CONSTANTS
    h3 = h3
    p1 = p1
    p2 = p2
    Hosts = {h1, h2, h3}
    Profiles = {p1, p2}
    Profile <- TwoDevices
    Keys = {k1, k2, k3}
    NoKey = NoKey
    NoHost = NoHost
    NoProfile = NoProfile
    MaxFails = 2
    MaxFaults = 3
SPECIFICATION LiveSpec
INVARIANTS
    OneKey
PROPERTIES
    KeyNeverReplaced
    CheckpointReached
CHECK_DEADLOCK FALSE
