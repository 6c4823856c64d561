SPECIFICATION Spec
CONSTANTS
    NoEntry = NoEntry
    Pubkeys = {p1}
    Bodies = {b1}
    MaxTime = 2
    Feeds = {f1}
    MaxFrames = 2
    MaxAbandoned = 2
    SubscribesFirst = TRUE
INVARIANTS
    TypeOK
    StatusTruth
PROPERTIES
    NewsShows
    EverySnapshotSeen
