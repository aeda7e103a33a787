CONSTANTS
    Keys = {fw}
    Paths = {here, there}
    Source <- OneSource
    Callers = {cam1, cam2}
    Chunks = 2
    MaxReloads = 1
    MaxReleases = 1
    Reloads = TRUE
    ShortReads = TRUE
    NoFile = NoFile
    NoPath = NoPath
SPECIFICATION FairSpec
INVARIANTS TypeOK TempHasThread DoneIsInPlace NoReadRaises CleanPayloadIsWhole
PROPERTIES EntriesMoveForward FreshSinceReload WaitingEnds
CHECK_DEADLOCK FALSE
