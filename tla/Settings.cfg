SPECIFICATION Spec
CONSTANTS
    Tabs = {t1, t2}
    DefaultList = DefaultList
    EmptyList = EmptyList
    Own = Own
    Long = Long
    Lists <- MCLists
    LongLists <- MCLong
    Widths = {100, 320, 400}
    Ticks = {0}
    Blobs <- MCBlobs
    Fragments <- MCFragments
    Garbage = Garbage
    Absent = Absent
    MaxOps = 4
INVARIANTS
    InRange
PROPERTIES
    SandboxRemembers
    TabKeepsOwn
    ResetSticks
SYMMETRY TabSymmetry
CHECK_DEADLOCK FALSE
