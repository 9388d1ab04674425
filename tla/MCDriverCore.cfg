SPECIFICATION FairSpec
CONSTANTS
    root = root
    inner = inner
    a = a
    b = b
    c = c
    Groups <- MCGroups
    Leaves <- MCLeaves
    Root = root
    Entries <- MCEntries
    SetUpOf <- MCGroups
    TearDownOf <- MCGroups
    Options <- MCOptions
    MaxNoise = 2
    MaxWire = 2
INVARIANTS
    TypeOK
    OneRunAtATime
    VerdictReported
    HooksBracket
    ChosenOnly
PROPERTIES
    Completes
    OneRunPerCase
    InPlanOrder
\* A suite that has completed stops.
CHECK_DEADLOCK FALSE
