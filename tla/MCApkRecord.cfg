SPECIFICATION ApkSpec
CONSTANTS
    Nothing = Nothing
    Abis <- MCAbis
    Fat = "fat"
    RowCount = 3
    Checkouts <- MCOneCheckout
    Commands <- MCRecorders
    Invocations = {p, q}
    Sources <- MCSources
    FirstSource <- Source1
    Demo = "demo"
    Planted = "probe"
    ProbedModule = "m1"
PROPERTY RecordKeepsTheRest
\* Invocations end.
CHECK_DEADLOCK FALSE
