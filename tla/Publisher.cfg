SPECIFICATION Spec
CONSTANTS
    Contracts = {c1}
    Behaviours <- AllNodes
    MaxInbox = 2
    DrainLimit = 1
    BackoffMin = 1
    BackoffMax = 2
INVARIANTS
    TypeOK
    AliveInSession
    HealthMatchesPayload
    OneSlot
PROPERTIES
    VerdictsSurvive
    NotAskedAgain
    KeepsPublishing
