CONSTANTS
    Pids = {p1, p2}
    Configs <- MCConfigs
    First <- MCFirst
    Pidfiles = {"old", "new"}
    MaxEdits = 1
    MaxCalls = 4
    None = None
SPECIFICATION FairSpec
INVARIANTS TypeOK RuntimeIsOne NewestConfigIsUsed PidfileNamesInstance ReloadFindsLoneServer
PROPERTY ReloadsEnd
CHECK_DEADLOCK FALSE
