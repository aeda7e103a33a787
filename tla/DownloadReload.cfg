CONSTANTS
    Keys = {fw}
    Paths = {here, there}
    Source <- OneSource
    Callers = {cam1, cam2}
    Chunks = 2
    MaxReloads = 1
    MaxReleases = 0
    Reloads = TRUE
    ShortReads = FALSE
    NoFile = NoFile
    NoPath = NoPath
SPECIFICATION Spec
INVARIANT PayloadIsWhole
CHECK_DEADLOCK FALSE
