SPECIFICATION KernelSpec
CONSTANTS
    boot = boot
    test = test
    helper = helper
    app = app
    Uris <- MCUris
    Entry = boot
    InSeed <- MCInSeed
    Kept <- MCKept
    Prunable <- MCPrunable
    Versions <- MCVersions
    Imports <- MCImports
    b1 = b1
    b2 = b2
    k1 = k1
    k2 = k2
    k3 = k3
    t1 = t1
    t2 = t2
    Paths <- MCPaths
    Bases <- MCBases
    Keys <- MCKeys
    Temps <- MCTemps
    NoKey = NoKey
    NoBase = NoBase
    NoTemp = NoTemp
    SeedLimit = 2
    IoMayFail = TRUE
    MayKill = TRUE
INVARIANTS
    PruneSound
    WorkerTypeOK
    Hermetic
    LinksAreReal
PROPERTIES
    PrunePrecise
    LastSeedStays
    RequestAnswered
\* Bazel may start the worker no more.
CHECK_DEADLOCK FALSE
