SPECIFICATION FairSpec
CONSTANTS
    Handlers = {h1, h2}
    Queues = {"embedding"}
    Messages = {m}
    InWorkspace = {m}
    Texts <- MCTexts
    Users = {bob}
    Mentions <- MCMentions
    Entities = {e}
    Tokens <- MCTokens
    MaxAttempts = 2
    BatchSize = 2
    MaxWrites = 3
    MaxFaults = 2
    MaxCrashes = 1
INVARIANTS
    StaleIsOwed
PROPERTIES
    NoLostEdits
