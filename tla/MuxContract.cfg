SPECIFICATION ContractSpec
CONSTANTS
    Stages = {s1}
    Hashes = {ours}
    ConfigHash = ours
    Lease = 2
    NoStage = nostage
    NoBeat = nobeat
    Sources <- MCSources
    Configs <- MCShipped
    Vacant = vacant
    StopPeriod = 1
    MaxDelay = 1
    MaxDecision = 2
    LongSilence = 3
INVARIANT HighestFreshPriorityWins
