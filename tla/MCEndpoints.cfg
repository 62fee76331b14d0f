SPECIFICATION MCSpec
CONSTANTS
    Games = {g1, g2}
    Ports <- MCPorts
    StartOrder <- MCStartOrder
    Kind <- MCKind
    Addresses <- MCAddresses
    Host <- MCHost
    Home <- MCHome
    Links <- MCLinks
    EntryPorts <- MCEntryPorts
    NoAddress = NoAddress
    NoPort = NoPort
    Sections = {"s", "t"}
    Whole = "whole"
    FileSize = 4
    HeldSize = 3
    ReadSizes = {4}
    SectionSizes = {2}
INVARIANTS
    FollowsAnnouncement
    EndpointInv
    ReaderInv
PROPERTIES
    SectionsImplemented
SYMMETRY Symmetry
CHECK_DEADLOCK FALSE
