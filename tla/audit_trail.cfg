SPECIFICATION FairSpec
CONSTANTS
    Handlers = {h}
    AiHandlers = {ai}
    Workers = {w}
    Auditors = {v}
    RetryMaxAttempts = 2
    RetryBatch = 2
    VerifyBatch = 1
    MaxEvents = 2
    MaxFaults = 3
    MaxCrashes = 1
INVARIANTS
    ChainIntact
    VerifierTruthful
    AnswersLeaveEvidence
    OnceUnlessDoubtful
PROPERTIES
    AppendOnly
    PendingSettles
