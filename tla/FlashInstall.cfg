CONSTANTS
    FlashSize = 6
    Contents = {"u", "k1", "k2", "r1", "r2", "n", "e1", "e2", "e3"}
    Requests <- MCRequests
    Published <- MCPublished
    Latest = "latest"
    Inside <- MCInside
    Variants <- MCVariants
    Family <- MCFamily
    Wildcards <- MCWildcards
    None = None
    Limits = {3, 6}
    MaxRuns = 2
    Failures = TRUE
    OthersStage = TRUE
    Open = Open
    Follows = Follows
    NoTable = NoTable
    Old = Old
    Erased = Erased
    Saved = Saved
    Junk = Junk
    Nothing = Nothing
SPECIFICATION Spec
INVARIANTS TypeOK OnlyPlannedAreasChange OriginalIsSaved BeforeIsSaved UpdatedUnlessLost
           RestoreAllOrNothing
PROPERTY NoFlashLoop ImagesSuitRequest
CHECK_DEADLOCK FALSE
