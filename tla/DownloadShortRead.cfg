CONSTANTS
    Keys = {fw}
    Paths = {here, there}
    Source <- OneSource
    Callers = {cam1, cam2}
    Chunks = 2
    MaxReloads = 0
    MaxReleases = 0
    Reloads = FALSE
    ShortReads = TRUE
    NoFile = NoFile
    NoPath = NoPath
SPECIFICATION Spec
INVARIANT PayloadIsWhole
CHECK_DEADLOCK FALSE
