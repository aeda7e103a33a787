CONSTANTS
    Cmds = {source, setexpr, mw, bootflow}
    Assumed = {source}
    Unknown = {bootflow}
    Requests <- MCRequests
    Queued = {{setexpr}, {bootflow}}
    Snippet = mw
    MaxSteps = 4
    MaxNeeds = 2
    Empty = Empty
SPECIFICATION Spec
INVARIANTS TypeOK BodyRunsOnlyWhenAvailable SupportedIsTrue
PROPERTY AnswerTellsWhetherBodyRan
CHECK_DEADLOCK FALSE
