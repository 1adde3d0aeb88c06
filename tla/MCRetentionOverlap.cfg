SPECIFICATION HousekeepingSpec
CONSTANTS
    prune1 = prune1
    cmd = cmd
    again = again
    rm = rm
    scan = scan
    echo = echo
    swath = swath
    now = now
    archive = archive
    radar = radar
    survey = survey
    pScan = pScan
    pEcho = pEcho
    pSwath = pSwath
    pNow = pNow
    pArchive = pArchive
    scanPart = scanPart
    scanMeta = scanMeta
    kEcho = kEcho
    kSwath = kSwath
    kNow = kNow
    kArchive = kArchive
    int = int
    NoItem = NoItem
    NoRun = NoRun
    Domains = {radar, survey}
    Items = {scan, echo, swath, now, archive}
    Folders = {pScan, pEcho, pSwath, pNow, pArchive}
    Keys = {scanPart, scanMeta, kEcho, kSwath, kNow, kArchive}
    Runs = {again}
    Classes = {int}
    Flows = {cmd}
    CliFlows = {cmd}
    CacheKeys = {again}
    Kind <- MCKinds
    DomainOf <- MCDomainOf
    PrefixOf <- MCPrefixOf
    FolderOf <- MCFolderOf
    FlowOf <- MCFlowOf
    Order <- MCOrder
    Target <- MCTarget
    Tree <- MCTree
    Sidecar <- MCSidecar
    ClassOf <- MCClassOf
    Files <- MCFiles
    CacheKey <- MCCacheKey
    Retries = 2
    MaxFaults <- MCFaults
    Stock <- MCStock
    Leftover = {}
    ByHand = {}
    Prunes = {prune1}
    Table <- MCTable
    Expiring = {radar}
    PageSize = 2
    MaxPages = 2
    PruneFaults <- MCPruneFaults
    Removals = {rm}
    Victim <- MCVictim
    HasCreds <- MCHasCreds
    Sweeps = {}
    Bucket <- MCBucket
CHECK_DEADLOCK FALSE
PROPERTIES
    PruningGoneItemIsNoOp
