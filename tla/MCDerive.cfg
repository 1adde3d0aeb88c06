SPECIFICATION DeriveSpec
CONSTANTS
    cmd = cmd
    a1 = a1
    gc1 = gc1
    p1 = p1
    p2 = p2
    roadsLayer = roadsLayer
    roads = roads
    terrain = terrain
    pRoads = pRoads
    part0 = part0
    part1 = part1
    meta = meta
    int = int
    roadsTable = roadsTable
    space = space
    NoItem = NoItem
    NoRun = NoRun
    NoTable = NoTable
    NoArchive = NoArchive
    Domains = {terrain}
    Items = {roads}
    Folders = {pRoads}
    Keys = {part0, part1, meta}
    Runs = {a1}
    Classes = {int}
    Flows = {cmd}
    CliFlows = {cmd}
    CacheKeys = {a1}
    Kind <- MCKinds
    DomainOf <- MCDomainOf
    PrefixOf <- MCPrefixOf
    FolderOf <- MCFolderOf
    FlowOf <- MCFlowOf
    Order <- MCOrder
    Target <- MCTarget
    Tree <- MCTree
    Sidecar <- MCSidecar
    ClassOf <- MCClassOf
    Files <- MCFiles
    CacheKey <- MCCacheKey
    Retries = 0
    MaxFaults <- MCFaults
    Stock <- MCStock
    Leftover = {}
    ByHand = {}
    Prunes = {}
    Table <- MCTable
    Expiring = {}
    PageSize = 1
    MaxPages = 1
    PruneFaults <- MCPruneFaults
    Removals = {}
    Victim <- MCVictim
    HasCreds <- MCHasCreds
    Sweeps = {gc1}
    Bucket <- MCBucket
    Promotions = {p1, p2}
    Dataset <- MCDataset
    Parts <- MCParts
    TableOf <- MCTableOf
    Tables = {roadsTable}
    Namespaces = {space}
    NamespaceOf <- MCNamespaceOf
    Layers = {roadsLayer}
    LayerDataset <- MCLayerDataset
    LayerParts <- MCLayerParts
    BackoffLimit = 2
    AtWork = {{p1, p2}, {p1, gc1}, {roadsLayer, gc1}}
CHECK_DEADLOCK FALSE
INVARIANTS
    DeriveTypeOK
    SnapshotsAreWhole
    AppendsAreKept
    ArchivesAreWhole
PROPERTIES
    LayersEnd
    TablesOnlyGrow
