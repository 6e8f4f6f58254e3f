SPECIFICATION FairSpec
CONSTANTS
    t1 = t1
    None = None
    Tokens <- OneToken
    Horizon = 3
    MaxJumps = 1
    DeclareLimit = 1
    DeclareWindow = 2
    CoolDown = 1
    MaxRefused = 1
    MaxRedeclares = 1
    ControlCap = 1
    Buffer = 1
CHECK_DEADLOCK FALSE
INVARIANTS
    BreakBeforeMake
PROPERTIES
    DeclaresWithinLimits ReaderNeverStalls ServesWindow LeavesWithWindow StopsWhenAsked
