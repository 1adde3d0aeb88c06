SPECIFICATION Spec
CONSTANTS
    flowA = flowA
    cmdB = cmdB
    a1 = a1
    a2 = a2
    b1 = b1
    roads = roads
    scan = scan
    terrain = terrain
    pRoads = pRoads
    pScan = pScan
    roadsPart = roadsPart
    roadsMeta = roadsMeta
    scanCopc = scanCopc
    scanMeta = scanMeta
    int = int
    NoItem = NoItem
    NoRun = NoRun
    Domains = {terrain}
    Items = {roads, scan}
    Folders = {pRoads, pScan}
    Keys = {roadsPart, roadsMeta, scanCopc, scanMeta}
    Runs = {a1, a2, b1}
    Classes = {int}
    Flows = {flowA, cmdB}
    CliFlows = {cmdB}
    CacheKeys = {a1, a2, b1}
    Kind <- MCKinds
    DomainOf <- MCDomainOf
    PrefixOf <- MCPrefixOf
    FolderOf <- MCFolderOf
    FlowOf <- MCFlowOf
    Order <- MCOrder
    Target <- MCTarget
    Tree <- MCTree
    Sidecar <- MCSidecar
    ClassOf <- MCClassOf
    Files <- MCFiles
    CacheKey <- MCCacheKey
    Retries = 2
    MaxFaults <- MCFaults
INVARIANTS
    IngestTypeOK
    ItemsBacked
    ReportsAreTrue
    RetriesAbsorb
    CompletedFlowsDelivered
