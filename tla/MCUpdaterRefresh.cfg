SPECIFICATION Spec
CONSTANTS
    Files <- MCFiles
    Translatable <- MCTranslatable
    Listed <- MCListed
    ListedOld <- MCListedOld
    FlagSets <- LaunchAndRefresh
    NoList = NoList
INVARIANTS
    CleanRunUpdates
