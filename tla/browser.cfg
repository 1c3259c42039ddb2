SPECIFICATION MCSpec
CONSTANTS
    Keys = {a, b}
    Nothing = Nothing
    FirstRows = 2
    Tied = {1, 2}
    PageSize = 2
    MaxFetches = 3
    MaxLists = 2
    MaxChanges = 3
    Scopes = {north, south}
    Fields = {f1, f2}
    Summary = Summary
    Relationships = Relationships
    MaxSent = 3
    MaxWrites = 3
    MaxSelects = 1
    MaxFaults = 1
    Organizations = {"acme", "globex", "initech"}
    FirstOrgs <- MCFirstOrgs
    Workspaces = {"plant", "lab", "shop", "annex"}
    FirstList <- MCFirstList
    OrgOf <- MCOrgOf
    Rooms = {"floor", "bench", "counter", "nook", "dm"}
    HomeOf <- MCHomeOf
    NewRooms = {"nook"}
    Nowhere = "none"
    MaxClicks = 3
    MaxAwaited = 3
    People = {"ann", "guest"}
    Nobody = "nobody"
    Invited = "guest"
    MaxTokens = 4
    MaxCalls = 2
    MaxEvents = 4
    MaxTroubles = 1
INVARIANTS
    NewestIsShown
    PagesComplete
    ShownIsStored
    OpenBelongs
    SessionIsTrue
PROPERTIES
    SaveKeepsSaves
CHECK_DEADLOCK FALSE
SYMMETRY Interchangeable
