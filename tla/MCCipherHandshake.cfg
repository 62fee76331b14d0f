SPECIFICATION Spec
CONSTANTS
    MaxSent = 4
    PublicKeyFits = TRUE
INVARIANTS
    CipherInv
    PeersInStep
    GarbledOnlyAfterMisreading
PROPERTIES
    KeyDelivered
    UplinkRelays
CHECK_DEADLOCK FALSE
