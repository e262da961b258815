SPECIFICATION FairStageSpec
CONSTANTS
    Events <- MCEvents
    Zones = {"east"}
    ResetNames = {"actions", "memory"}
    EpochNames = {"actions", "map"}
    FreezeDuration = 1
    StageDuration = 4
    ZoneWindow = 0
    MaxRequests = 4
    MaxEvents = 3
    AllowSimTruth = TRUE
    MaxTime = 5
    MaxStages = 2
    MaxEpochs = 2
    NoZone = NoZone
    NoEvent = NoEvent
INVARIANTS MotionIsSafe OutcomeJustified NoStaleEvent
PROPERTIES NoInventedOrder StagesEnd
CHECK_DEADLOCK FALSE
