SPECIFICATION Spec
CONSTANTS
    k1 = k1
    k2 = k2
    k3 = k3
    Keys <- MCFewKeys
    Copies <- MCFewCopies
    Flaky = {k1}
    Kinds = {"webapp", "data"}
    Budget = 2
PROPERTY
    RedeployShows
