CONSTANTS
    a = a
    Names <- TargetAndTemps
    Edited <- Target
    Removable <- TargetAndTemps
    Writers = {e1, e2}
    Temps = {t1, t2}
    User = User
    Chunks = {a, Bad}
    Bad = Bad
    Selected = "target"
    Body <- TwoChunks
    MaxBytes = 2
    MaxFiles = 3
    MaxEdits = 1
    MaxFaults = 1
SPECIFICATION Spec
SYMMETRY Symmetry
CHECK_DEADLOCK FALSE
INVARIANTS TargetIsWhole NothingLeftUnreported
PROPERTIES NeverTouchesOthers SnapshotIsOneMoment
