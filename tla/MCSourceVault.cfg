CONSTANTS
    s1 = s1
    s2 = s2
    s3 = s3
    l1 = l1
    Sources = {s1, s2, s3}
    Attempts = {a1, a2, a3}
    NoAttempt = NoAttempt
    NoSource = NoSource
    NoLineage = NoLineage
    Lineages = {l1}
    Lineage <- MCLineage
    Supersedes <- MCSupersedes
    Body <- MCBody
SPECIFICATION LiveSpec
INVARIANTS
    ReferencesResolve
    RetiredLeavesNoFile
    LibraryOpens
    NoForkedLineage
PROPERTIES
    NoResurrection
    RetirementCompletes
CHECK_DEADLOCK FALSE
