SPECIFICATION SubmitFair
CONSTANTS
    web = web
    cmd = cmd
    roads = roads
    readme = readme
    feed = feed
    torn = torn
    incoming = incoming
    terrain = terrain
    pub = pub
    int = int
    c1 = c1
    c2 = c2
    e1 = e1
    Clients = {web, cmd}
    Pages = {web}
    Registers = {cmd}
    Files = {roads, readme, feed, torn}
    Kind <- MCKind
    Picked <- MCPicked
    Named <- MCNamed
    Staged = {incoming}
    StagedFiles <- MCStagedFiles
    Domains = {terrain}
    Classes = {pub, int}
    Rank <- MCRank
    Asked <- MCAsked
    Ceilings <- MCCeilings
    Tries <- MCTries
    Creates = {c1, c2}
    Given <- MCGiven
    Ensures = {e1}
    DomainAt <- MCDomainAt
    Together = {{cmd, c1, c2, e1}, {web, c1, e1}, {web, cmd, c1}}
    Nothing = Nothing
CHECK_DEADLOCK FALSE
INVARIANTS
    SubmitTypeOK
    CeilingsHold
    ReportedCeilingsHold
    UploadsRunOnce
    AllOrNothing
PROPERTIES
    SubmissionsEnd
