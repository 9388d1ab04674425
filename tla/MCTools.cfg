CONSTANTS
    Absent = Absent
    BundleLists <- MCBundleLists
    JarLists <- MCJarLists
    Web <- MCWeb
    Projects <- MCProjects
    None = None
    Nothing = Nothing
    Abis <- MCAbis
    Fat = "fat"
    RowCount = 3
    Checkouts <- MCCheckouts
    Commands <- MCCommands
    Invocations = {p, q}
    Sources <- MCSources
    FirstSource <- Source1
    Demo = "demo"
    Planted = "probe"
    ProbedModule = "m1"
    Pipelines <- MCPipelines
    NoDigests = NoDigests
    Consumers <- MCConsumers
    Conventional = "conv"
    Custom = "cust"
    FirstRepos = {"pub"}
    SecondRepos = {"cpub"}
    ReleaseCalls = {"p"}
    DevCalls = {"d"}
    Kills = 2
    Worlds <- MCWorlds
    Forbidden = {"androidsdk", "androidndk"}
    CoreModules = {"a", "b", "c"}
    Pubspecs <- MCPubspecs
    Manifests <- MCManifests
    DartNames = {"app"}
    Numbers = {"1", "7"}
    Unsupported = {"transformers", "deferred-components"}
    NoFacts = NoFacts
    NotInjected = NotInjected
SPECIFICATION ToolsSpec
INVARIANTS AssetsSafe EntryIsExact TableSafe GreenMeansIt GuardsMeanIt ProbesMeanIt FactsHold
PROPERTY RunsKeepTheirWord
CHECK_DEADLOCK FALSE
