SPECIFICATION Spec
CONSTANTS
    flowA = flowA
    flowB = flowB
    a1 = a1
    b1 = b1
    monday = monday
    tuesday = tuesday
    terrain = terrain
    pMonday = pMonday
    pTuesday = pTuesday
    kMonday = kMonday
    kTuesday = kTuesday
    int = int
    args = args
    NoItem = NoItem
    NoRun = NoRun
    Domains = {terrain}
    Items = {monday, tuesday}
    Folders = {pMonday, pTuesday}
    Keys = {kMonday, kTuesday}
    Runs = {a1, b1}
    Classes = {int}
    Flows = {flowA, flowB}
    CliFlows = {}
    CacheKeys = {args}
    Kind <- MCKinds
    DomainOf <- MCDomainOf
    PrefixOf <- MCPrefixOf
    FolderOf <- MCFolderOf
    FlowOf <- MCFlowOf
    Order <- MCOrder
    Target <- MCTarget
    Tree <- MCTree
    Sidecar <- MCSidecar
    ClassOf <- MCClassOf
    Files <- MCFiles
    CacheKey <- MCCacheKey
    Retries = 2
    MaxFaults <- MCFaults
INVARIANTS
    CacheMeansSameContent
