SPECIFICATION Spec
CONSTANTS
    k1 = k1
    k2 = k2
    k3 = k3
    Keys <- MCKeys
    Copies <- MCCopies
    Flaky = {k3}
    Kinds = {"webapp", "data"}
    Budget = 2
INVARIANTS
    TypeOK
    ReprobesBounded
PROPERTY
    RedeployShows
