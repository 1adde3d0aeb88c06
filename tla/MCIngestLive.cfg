SPECIFICATION FairSpec
CONSTANTS
    flowA = flowA
    flowB = flowB
    a1 = a1
    b1 = b1
    roads = roads
    terrain = terrain
    pRoads = pRoads
    part = part
    meta = meta
    int = int
    args = args
    NoItem = NoItem
    NoRun = NoRun
    Domains = {terrain}
    Items = {roads}
    Folders = {pRoads}
    Keys = {part, meta}
    Runs = {a1, b1}
    Classes = {int}
    Flows = {flowA, flowB}
    CliFlows = {}
    CacheKeys = {args}
    Kind <- MCKinds
    DomainOf <- MCDomainOf
    PrefixOf <- MCPrefixOf
    FolderOf <- MCFolderOf
    FlowOf <- MCFlowOf
    Order <- MCOrder
    Target <- MCTarget
    Tree <- MCTree
    Sidecar <- MCSidecar
    ClassOf <- MCClassOf
    Files <- MCFiles
    CacheKey <- MCCacheKey
    Retries = 2
    MaxFaults <- MCFaults
PROPERTIES
    PublishesAtomically
    SoundFilesGetCatalogued
    FlowsEnd
