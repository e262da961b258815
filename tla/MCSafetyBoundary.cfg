SPECIFICATION BoundarySpec
CONSTANTS
    Stages = {s1}
    Hashes = {ours}
    ConfigHash = ours
    Lease = 2
    NoStage = nostage
    NoBeat = nobeat
    Sources <- MCSources
    Configs <- MCConfigs
    Vacant = vacant
    StopPeriod = 1
    MaxDelay = 1
    MaxDecision = 2
    LongSilence = 4
INVARIANTS
    StopDominates
    SilenceIsNoticed
PROPERTIES
    FaultOutlivesRestart
