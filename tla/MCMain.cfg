SPECIFICATION MCSpec
CONSTANTS
    Files <- MCFiles
    Translatable <- MCTranslatable
    Listed <- MCListed
    ListedOld <- MCListedOld
    FlagSets <- UsesWithoutRefresh
    NoList = NoList
    Launchers = {"l", "m"}
    CommandLines <- MCCommandLines
    NoDll = NoDll
INVARIANTS
    CleanInv
    InstalledIsHonest
    CleanRunUpdates
    RevertRestores
    FoundIsAsked
    DllIsWanted
PROPERTIES
    CleanPruneIsSafe
