SPECIFICATION Spec
CONSTANTS
    Browsers = {b1, b2}
    Handlers = {h1}
    MaxRequests = 4
    MaxFaults = 0
INVARIANT
    ThisTabKeepsWorking
CHECK_DEADLOCK FALSE
