SPECIFICATION HostSpec
CONSTANTS
    root = root
    a = a
    b = b
    Groups <- MCGroups
    Leaves <- MCLeaves
    Root = root
    Entries <- MCEntries
    SetUpOf = {}
    TearDownOf <- MCGroups
    Options <- MCOptions
    MaxNoise = 1
    MaxWire = 1
    MaxLate = 0
    WritesMayFail = FALSE
    ExitsInFlush = TRUE
INVARIANT
    UserExitLeavesMarker
\* A process that has exited stops.
CHECK_DEADLOCK FALSE
