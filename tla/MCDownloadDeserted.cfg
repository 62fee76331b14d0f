SPECIFICATION Spec
CONSTANTS
    Files = {f1, f2, f3}
    Parallel = 2
    NoFile = NoFile
PROPERTIES
    Returns
CHECK_DEADLOCK FALSE
