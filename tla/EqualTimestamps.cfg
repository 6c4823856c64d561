SPECIFICATION Spec
CONSTANTS
    NoEntry = NoEntry
    Nodes = {n1, n2}
    Pubkeys = {p1}
    Bodies = {b1,b2}
    MaxTime = 2
    FirstTime = 1
    StrictClock = FALSE
    MaxInFlight = 2
INVARIANT
    OrderIrrelevant
