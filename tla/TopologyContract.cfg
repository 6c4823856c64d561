SPECIFICATION Spec
CONSTANTS
    NoEntry = NoEntry
    Nodes = {n1, n2}
    Pubkeys = {p1, p2}
    Bodies = {b1}
    MaxTime = 2
    FirstTime = 1
    StrictClock = FALSE
    MaxInFlight = 2
SYMMETRY Symmetry
INVARIANTS
    TypeOK
    OnlySigned
    HeardIsBehind
    DeltaSuffices
PROPERTIES
    NeverRegress
    ImplementsLww
