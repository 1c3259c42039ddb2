SPECIFICATION MCSpec
CONSTANTS
    ann = ann
    bob = bob
    cat = cat
    dan = dan
    eve = eve
    Users = {ann, bob, cat, dan, eve}
    Nobody = nobody
    Handlers = {h1, h2}
    MaxRequests = 2
    MaxOffers = 2
    MaxDirects = 2
INVARIANTS
    OneOwner
    WrittenStaysInside
    OffersAreAccepted
    NothingIsMadeTwice
    AdministratorRemains
PROPERTIES
    AnsweredIsFinal
    ArchivedIsClosed
SYMMETRY Interchangeable
CHECK_DEADLOCK FALSE
