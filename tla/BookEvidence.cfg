SPECIFICATION Spec
CONSTANTS
    d1 = d1
    d2 = d2
    None = None
    Depths <- TwoDepths
    MaxHour = 2
    MaxQty = 2
    MaxVol = 3
    MaxDay = 2
    MaxCrashes = 2
SYMMETRY DepthSymmetry
INVARIANTS
    ReplayAgrees SyncedIsFresh TapeAccountsForVolume ReplayAccepts
