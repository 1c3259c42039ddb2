SPECIFICATION MCSpec
CONSTANTS
    Mentions = {m1}
    MemberOffers = {o1}
    Calls = {c1, c2, c3}
    MaxClicks = 2
    MaxTroubles = 1
    Entities = {tavern, brewery}
    Names = {moes, duff, bar}
    NoName = NoName
    Members = {lenny, carl}
    MAX_ALIASES = 1
INVARIANTS
    BadgeIsTrue
    NoticesCanBeCleared
    OneEntityPerName
SYMMETRY Interchangeable
CHECK_DEADLOCK FALSE
