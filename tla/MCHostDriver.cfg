SPECIFICATION HostFairSpec
CONSTANTS
    root = root
    a = a
    b = b
    Groups <- MCGroups
    Leaves <- MCLeaves
    Root = root
    Entries <- MCEntries
    SetUpOf = {}
    TearDownOf <- MCGroups
    Options <- MCOptions
    MaxNoise = 1
    MaxWire = 1
    MaxLate = 1
    WritesMayFail = TRUE
    ExitsInFlush = FALSE
INVARIANTS
    HostTypeOK
    NoFalsePass
    MarkerGuardsReport
    FailureExplained
PROPERTIES
    Exits
    CompleteReportStays
    InterruptionNamed
\* A process that has exited stops.
CHECK_DEADLOCK FALSE
