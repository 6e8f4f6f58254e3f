SPECIFICATION LiveSpec
CONSTANTS
    SendEnabled = TRUE
    RequireLedgerComplete = TRUE
    StepEvery = 1
    StaleAfter = 1
    Silence = 1
    Intents <- LiveIntents
    Touches <- OneTouch
    MaxTime = 3
    MaxFaults = 1
    MaxStepsPerTick = 3
    LateDelivery = FALSE
INVARIANTS
    DoneMeansLedgerComplete
PROPERTIES
    ImplementsExecutor
