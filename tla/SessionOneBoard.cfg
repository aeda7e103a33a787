CONSTANTS
    Clients = {cam}
    Artifacts = {fw}
    MaxToken = 3
    MaxBoots = 2
    MaxPuts = 2
    MaxRestarts = 1
    MaxStray = 1
    Duplicates = TRUE
    Lossy = TRUE
    NoSession = NoSession
    NoReceive = NoReceive
    NoBody = NoBody
SPECIFICATION Spec
INVARIANTS TypeOK ReferencesMatchSessions ResumedAtMostOnce DeliveredIsOwnUpload OkMeansStored
PROPERTY LedgerKept
CHECK_DEADLOCK FALSE
