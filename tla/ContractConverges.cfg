SPECIFICATION FairSpec
CONSTANTS
    NoEntry = NoEntry
    Nodes = {n1, n2}
    Pubkeys = {p1}
    Bodies = {b1, b2}
    MaxTime = 2
    FirstTime = 1
    StrictClock = TRUE
    MaxInFlight = 2
INVARIANTS
    SummaryDetermines
    OrderIrrelevant
PROPERTY
    Converges
