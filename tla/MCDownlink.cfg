SPECIFICATION Spec
CONSTANTS
    MaxSent = 3
    PublicKeyFits = TRUE
PROPERTIES
    DownlinkRelays
CHECK_DEADLOCK FALSE
