SPECIFICATION WorkerSpec
CONSTANTS
    b1 = b1
    b2 = b2
    k1 = k1
    k2 = k2
    k3 = k3
    t1 = t1
    t2 = t2
    Paths <- MCSmall
    Bases <- MCOneBase
    Keys <- MCOneKey
    Temps <- MCTemps
    NoKey = NoKey
    NoBase = NoBase
    NoTemp = NoTemp
    SeedLimit = 2
    IoMayFail = FALSE
    MayKill = FALSE
INVARIANT
    MirrorMakesView
