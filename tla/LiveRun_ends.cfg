SPECIFICATION FairLiveSpec
CONSTANTS
    SendEnabled = TRUE
    RequireLedgerComplete = TRUE
    StepEvery = 1
    StaleAfter = 1
    Silence = 1
    Intents <- OneShare
    Touches <- OneTouch
    MaxTime = 3
    MaxFaults = 1
    MaxStepsPerTick = 3
    LateDelivery = FALSE
PROPERTIES
    RunEnds
