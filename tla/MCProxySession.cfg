SPECIFICATION Spec
CONSTANTS
    Sessions = {s1}
    Window = 2
    NoConn = NoConn
INVARIANTS
    DestinationKnown
    NothingLeaks
    MapOutlivesRoutes
PROPERTIES
    ErrorEndsSession
    PeerLossEndsSession
CHECK_DEADLOCK FALSE
