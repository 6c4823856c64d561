SPECIFICATION Spec
CONSTANTS
    NoEntry = NoEntry
    Pubkeys = {p1, p2}
    Bodies = {b1}
    MaxTime = 1
    Feeds = {f1}
    MaxFrames = 2
    MaxAbandoned = 1
    SubscribesFirst = TRUE
PROPERTY
    PerPublisherLww
