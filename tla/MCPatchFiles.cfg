SPECIFICATION MCSpec
CONSTANTS
    a1 = a1
    a2 = a2
    Archives <- BothArchives
    Parallel = 2
    BackupModes <- WithAndWithout
    MaxRev <- Revisions
    NoArchive = NoArchive
INVARIANTS
    WholeInv
    Restorable
    CrashSafe
    WholeUnlessReported
PROPERTIES
    Returns
