SPECIFICATION Spec
CONSTANTS
    SendEnabled = TRUE
    RequireLedgerComplete = TRUE
    StepEvery = 1
    StaleAfter = 1
    Silence = 1
    Intents <- BuyIntents
    Touches <- OneTouch
    MaxTime = 2
    MaxFaults = 2
    MaxStepsPerTick = 3
    LateDelivery = TRUE
INVARIANTS
    WithinE1Caps
