SPECIFICATION Spec
CONSTANTS
    Files <- MCFiles
    Translatable <- MCTranslatable
    Listed <- MCListed
    ListedOld <- MCListedOld
    FlagSets <- LaunchAndRevert
    NoList = NoList
INVARIANTS
    CleanRunRepairs
