SPECIFICATION Spec
CONSTANTS
    NoEntry = NoEntry
    Pubkeys = {p1}
    Bodies = {b1}
    MaxTime = 1
    Feeds = {f1}
    MaxFrames = 1
    MaxAbandoned = 1
    SubscribesFirst = TRUE
INVARIANT
    DroppedIsSilent
