SPECIFICATION MCSpec
CONSTANTS
    Streams <- MCStreams
    BufferSize = 7
    Threshold = 4
    Lookbehind = 3
    MaxCopy = 3
    MaxRead = 3
    SeekChunk = 2
    Archives = {"a", "b"}
    FileNames = {"f", "g"}
    Identifiers = {"i"}
    Texts = {"o", "p"}
    Names = {"eng", "story"}
    Contents <- MCContents
    Tables <- MCTables
    Empty = ""
    NoString = "no text"
    NoName = "no name"
    MaxRuns = 3
    Files <- MCFiles
    Translations <- MCTranslations
INVARIANTS
    ReadsPlaintext
    CallsComplete
    WindowInv
    TextInv
    TextLayoutHolds
    TextRoundTrip
    DatabaseInv
    PatchesFollowDictionary
PROPERTIES
    Returns
    DictionaryImplemented
