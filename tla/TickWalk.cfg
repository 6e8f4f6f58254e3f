SPECIFICATION FairSpec
CONSTANTS
    Limits <- NearBoundaries
    Reach = 1100
INVARIANTS
    CapIsNearest StaysOnGrid
PROPERTIES
    StepIsAdjacent ReachesCap
CHECK_DEADLOCK FALSE
