CONSTANTS
    Words <- MCWords
    Texts <- MCTexts
    EmptyQuotes = "''"
    Malformed <- MCMalformed
    PackageNames <- MCPackageNames
    Versions <- MCVersions
    Digests <- MCDigests
    Servers <- MCServers
    Identifiers <- MCPackageNames
    HubProjects <- MCProjects
    Up <- MCUp
    Here <- MCHere
    Hub = "pub"
    Tests <- MCTests
    ConfigName <- MCConfigName
    ParentName <- MCParentName
    Nowhere = Nowhere
SPECIFICATION AnalysisSpec
INVARIANTS ReaderIsExact PinnedByItself ReadersAgree HubSafe ReleaseIsReached LauncherSafe
\* A lock that is resolved or refused, a hub that is written, a test that runs: all are done.
CHECK_DEADLOCK FALSE
