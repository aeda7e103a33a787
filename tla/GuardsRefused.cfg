CONSTANTS
    Cmds = {setexpr, mw}
    Assumed = {}
    Unknown = {}
    Requests <- MCRequests
    Queued = {{setexpr}}
    Snippet = mw
    MaxSteps = 5
    MaxNeeds = 1
    Empty = Empty
SPECIFICATION Spec
INVARIANT RefusedOnlyIfMissing
CHECK_DEADLOCK FALSE
