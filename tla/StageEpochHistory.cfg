SPECIFICATION HistorySpec
CONSTANTS
    Events <- MCEvents
    Zones = {"east"}
    ResetNames = {"actions", "memory"}
    EpochNames = {"actions", "map"}
    FreezeDuration = 1
    StageDuration = 4
    ZoneWindow = 0
    MaxRequests = 3
    MaxEvents = 3
    AllowSimTruth = FALSE
    MaxTime = 5
    MaxStages = 2
    MaxEpochs = 2
    NoZone = NoZone
    NoEvent = NoEvent
INVARIANT EpochProductsInvalidated
CHECK_DEADLOCK FALSE
