SPECIFICATION Spec
CONSTANTS
    Sockets = {s1, s2, s3}
    Users = {u1, u2}
    Channels = {c}
    Frames = {f1, f2}
    NoUser = NoUser
    MaxConnectionsPerUser = 2
    MaxDisables = 1
INVARIANTS
    RegistryMatchesSockets
    PresenceMatchesConnections
    LeaksAreOvertaken
SYMMETRY Interchangeable
