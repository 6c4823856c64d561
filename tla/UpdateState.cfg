SPECIFICATION Spec
CONSTANTS
    p1 = p1
    p2 = p2
    a = a
    b = b
    NoEntry = NoEntry
    Pubkeys = {p1, p2}
    MaxTime = 2
    Bodies <- MCBodies
    Updates <- MCUpdates
    Inputs <- MCInputs
    Calls <- MCCalls
INVARIANTS
    TypeOK
    LoopIsMerge
    NothingOverlooked
    FailsIffMalformed
