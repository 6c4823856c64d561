SPECIFICATION Spec
CONSTANTS
    NoHash = NoHash
    NoAddress = NoAddress
    NoPublisher = NoPublisher
    NoPin = NoPin
    Seed = Seed
    p1 = p1
    p2 = p2
    h1 = h1
    h2 = h2
    a1 = a1
    a2 = a2
    a3 = a3
    Publishers = {p1, p2}
    Hashes = {h1, h2}
    Addresses = {a1, a2, a3}
    Keys <- MCKeys
    Cursors = {c1}
    Spots = {s1}
    EntryPool <- MCPool
    KnownPool <- MCKnown
    DefaultKnown <- MCDefault
    MaxRenders = 2
INVARIANTS
    TypeOK
    ListIsReported
    RowsAccount
    RowHighlights
    FilterIsHosted
    GraphMatchesList
    LabelsSettle
    OneGesture
PROPERTIES
    KeepsPlace
