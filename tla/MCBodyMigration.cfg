CONSTANTS
    Sources = {s1, s2}
    Attempts = {a1, a2, a3}
    NoAttempt = NoAttempt
    NoBody = NoBody
SPECIFICATION LiveSpec
INVARIANTS
    NoBodyLost
    ResumeAccepted
PROPERTIES
    MovesEveryBody
    MigrationCompletes
CHECK_DEADLOCK FALSE
