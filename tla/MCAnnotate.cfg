SPECIFICATION AnnotateFair
CONSTANTS
    flowA = flowA
    a1 = a1
    a2 = a2
    enrich1 = enrich1
    tiles1 = tiles1
    trees = trees
    walls = walls
    terrain = terrain
    pTrees = pTrees
    pWalls = pWalls
    pTiles = pTiles
    treesLaz = treesLaz
    wallsLaz = wallsLaz
    tilesetJson = tilesetJson
    tilePnts = tilePnts
    pub = pub
    rst = rst
    NoItem = NoItem
    NoRun = NoRun
    Domains = {terrain}
    Items = {trees, walls}
    Folders = {pTrees, pWalls, pTiles}
    Keys = {treesLaz, wallsLaz, tilesetJson, tilePnts}
    Runs = {a1, a2}
    Classes = {pub, rst}
    Flows = {flowA}
    CliFlows = {}
    CacheKeys = {a1, a2}
    Kind <- MCKinds
    DomainOf <- MCDomainOf
    PrefixOf <- MCPrefixOf
    FolderOf <- MCFolderOf
    FlowOf <- MCFlowOf
    Order <- MCOrder
    Target <- MCTarget
    Tree <- MCTree
    Sidecar <- MCSidecar
    ClassOf <- MCClassOf
    Files <- MCFiles
    CacheKey <- MCCacheKey
    Retries = 0
    MaxFaults <- MCFaults
    Enrichers = {enrich1}
    Collection <- MCCollection
    Allowed = {pub}
    ListLimit = 2
    TileJobs = {tiles1}
    Cloud <- MCCloud
    Source <- MCSource
    TileKeys <- MCTileKeys
    TilesetJson <- MCTilesetJson
CHECK_DEADLOCK FALSE
INVARIANTS
    AnnotateTypeOK
    TilesetsBacked
    LostUpdatesAreExplained
    SensitiveIsNotSent
PROPERTIES
    AnnotationsEnd
