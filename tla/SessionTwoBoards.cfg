CONSTANTS
    Clients = {cam1, cam2}
    Artifacts = {fw}
    MaxToken = 4
    MaxBoots = 1
    MaxPuts = 1
    MaxRestarts = 1
    MaxStray = 0
    Duplicates = TRUE
    Lossy = TRUE
    NoSession = NoSession
    NoReceive = NoReceive
    NoBody = NoBody
SPECIFICATION Spec
INVARIANTS TokensArePrivate ReferencesMatchSessions
SYMMETRY ClientSymmetry
CHECK_DEADLOCK FALSE
