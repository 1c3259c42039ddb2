SPECIFICATION FairSpec
CONSTANTS
    Handlers = {h1}
    Queues = {"sideEffects"}
    Messages = {m}
    InWorkspace = {m}
    Texts <- MCTexts
    Users = {bob}
    Mentions <- MCMentions
    Entities = {e}
    Tokens <- MCTokens
    MaxAttempts = 2
    BatchSize = 2
    MaxWrites = 2
    MaxFaults = 2
    MaxCrashes = 1
INVARIANTS
    PushedOnce
PROPERTIES
    EveryMessageSettles
