SPECIFICATION FeedSpec
CONSTANTS
    OwnChannels = {general}
    NoChannel = NoChannel
    MaxMessages = 2
    MaxSelects = 2
    MaxDrops = 1
INVARIANTS
    JoinedIsSubscribed
    FeedComplete
PROPERTIES
    SelectedIsJoined
CHECK_DEADLOCK FALSE
