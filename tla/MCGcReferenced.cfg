SPECIFICATION HousekeepingSpec
CONSTANTS
    gc1 = gc1
    rmHttp = rmHttp
    rmS3 = rmS3
    cmd = cmd
    again = again
    roads = roads
    scene = scene
    tile = tile
    terrain = terrain
    pRoads = pRoads
    pScene = pScene
    pTile = pTile
    kRoads = kRoads
    kScene = kScene
    kTile1 = kTile1
    kTile2 = kTile2
    int = int
    NoItem = NoItem
    NoRun = NoRun
    Domains = {terrain}
    Items = {roads, scene, tile}
    Folders = {pRoads, pScene, pTile}
    Keys = {kRoads, kScene, kTile1, kTile2}
    Runs = {again}
    Classes = {int}
    Flows = {cmd}
    CliFlows = {cmd}
    CacheKeys = {again}
    Kind <- MCKinds
    DomainOf <- MCDomainOf
    PrefixOf <- MCPrefixOf
    FolderOf <- MCFolderOf
    FlowOf <- MCFlowOf
    Order <- MCOrder
    Target <- MCTarget
    Tree <- MCTree
    Sidecar <- MCSidecar
    ClassOf <- MCClassOf
    Files <- MCFiles
    CacheKey <- MCCacheKey
    Retries = 0
    MaxFaults <- MCFaults
    Stock <- MCStock
    Leftover = {kTile1}
    ByHand = {tile}
    Prunes = {}
    Table <- MCTable
    Expiring = {}
    PageSize = 1
    MaxPages = 1
    PruneFaults <- MCPruneFaults
    Removals = {rmHttp, rmS3}
    Victim <- MCVictim
    HasCreds <- MCHasCreds
    Sweeps = {gc1}
    Bucket <- MCBucket
CHECK_DEADLOCK FALSE
PROPERTIES
    GcTakesOnlyUnreferenced
