SPECIFICATION MultipartFair
CONSTANTS
    web = web
    cli = cli
    Uploads = {web, cli}
    Browsers = {web}
    Workers = 2
    DefaultPart = 4
    MinPart = 2
    MaxParts = 4
    Mebi = 3
    Lengths <- MCLengths
CHECK_DEADLOCK FALSE
INVARIANTS
    MultipartTypeOK
    PlanCoversFile
    ObjectsAreWhole
    LeftPartsAreExplained
PROPERTIES
    UploadsEnd
