SPECIFICATION Spec
CONSTANTS
    SendEnabled = TRUE
    RequireLedgerComplete = FALSE
    StepEvery = 1
    StaleAfter = 1
    Silence = 1
    Intents <- BothIntents
    Touches <- OneTouch
    MaxTime = 3
    MaxFaults = 2
    MaxStepsPerTick = 3
    LateDelivery = FALSE
INVARIANTS
    TypeOK NoBlindSend KeyUsedOnce MemoryIsDurable OneLiveOrder NoOverfill DoneMeansFlat FillsCountedOnce
    LimitRespected PricesOnGrid BackstopUnused
