SPECIFICATION Spec
CONSTANTS
    Browsers = {b1, b2}
    Handlers = {h1, h2, h3}
    MaxRequests = 4
    MaxFaults = 1
INVARIANTS
    OneTokenPerLogin
    ForcedSignOutIsComplete
SYMMETRY Interchangeable
CHECK_DEADLOCK FALSE
