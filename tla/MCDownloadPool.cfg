SPECIFICATION Spec
CONSTANTS
    Files = {f1, f2, f3}
    Parallel = 2
    NoFile = NoFile
INVARIANTS
    ErrorsAreComplete
    PoolInv
PROPERTIES
    PoolImplemented
    ReturnsUnlessDeserted
CHECK_DEADLOCK FALSE
