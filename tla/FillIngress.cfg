SPECIFICATION FairSpec
CONSTANTS
    MaxEvents = 6
    Fills <- AllButSecond
    Buffer = 2
INVARIANTS
    StreamHasNoGap NothingLostInTime StopReasonSurvives
PROPERTIES
    ShutdownEnds
CHECK_DEADLOCK FALSE
