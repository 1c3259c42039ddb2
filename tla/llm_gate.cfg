SPECIFICATION FairSpec
CONSTANTS
    Requests = {r1, r2, r3, r4}
    Streaming = {r1, r2}
    Limits <- MCLimits
    QueueMax = 2
INVARIANTS
    SlotsAccounted
PROPERTIES
    OvertakingNeedsARaise
    WaitersServed
