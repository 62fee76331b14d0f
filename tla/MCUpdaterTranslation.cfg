SPECIFICATION Spec
CONSTANTS
    Files <- MCFiles
    Translatable <- MCTranslatable
    Listed <- MCListed
    ListedOld <- MCListedOld
    FlagSets <- LaunchOnly
    NoList = NoList
INVARIANTS
    PatchesKeptUpToDate
