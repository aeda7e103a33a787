CONSTANTS
    Clients = {cam}
    Artifacts = {fw}
    MaxToken = 6
    MaxBoots = 1
    MaxPuts = 1
    MaxRestarts = 0
    MaxStray = 1
    Duplicates = FALSE
    Lossy = FALSE
    NoSession = NoSession
    NoReceive = NoReceive
    NoBody = NoBody
SPECIFICATION FairSpec
INVARIANTS BoardInStep DoneLeavesNothing
PROPERTY DialogueEnds
CHECK_DEADLOCK FALSE
