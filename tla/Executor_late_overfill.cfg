SPECIFICATION Spec
CONSTANTS
    SendEnabled = TRUE
    RequireLedgerComplete = FALSE
    StepEvery = 1
    StaleAfter = 1
    Silence = 1
    Intents <- BuyIntents
    Touches <- OneTouch
    MaxTime = 3
    MaxFaults = 1
    MaxStepsPerTick = 3
    LateDelivery = TRUE
INVARIANTS
    NoOverfill
