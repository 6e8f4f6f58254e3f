SPECIFICATION FairSpec
CONSTANTS
    f1 = f1
    f2 = f2
    n1 = n1
    Fills <- TwoFills
    Notices <- OneNotice
    MaxEntries = 3
    MaxLen = 2
    BatchSize = 2
    MaxFaults = 3
INVARIANTS
    ReclaimedFirst
PROPERTIES
    SettledUnlessSkipped ImplementsAtLeastOnce
