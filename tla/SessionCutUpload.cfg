CONSTANTS
    Clients = {cam}
    Artifacts = {fw}
    MaxToken = 3
    MaxBoots = 1
    MaxPuts = 2
    MaxRestarts = 0
    MaxStray = 1
    Duplicates = FALSE
    Lossy = TRUE
    NoSession = NoSession
    NoReceive = NoReceive
    NoBody = NoBody
SPECIFICATION Spec
INVARIANT UploadIsWhole
CHECK_DEADLOCK FALSE
