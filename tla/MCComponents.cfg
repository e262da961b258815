SPECIFICATION MCSpec
CONSTANTS
    Edges = {1, 2, 3, 4, 5}
    Junctions = {"a", "b", "c", "d"}
    FromNode <- MCFromNode
    ToNode <- MCToNode
    Length <- MCLength
    Blocked = {4}
    Frontiers = {"c"}
    PathBound <- MCPathBound
    MaxSpeed = 2
    MaxAge = 1
    Scans <- MCScans
    Groups = {1, 2}
    Measurements <- MCMeasurements
    LastTime = 2
    HysteresisDelta = 1
    MinimumDwell = 1
    Hold <- MCHold
    Keys = {"base", "route", "shortcut", "portal"}
    Evidence <- MCEvidence
    Worth <- MCWorth
    Standing <- MCStanding
    LastCycle = 3
    Timeout = 2
    LastRequest = 2
    LastTick = 4
    LastVersion = 1
    LastWork = 1
    GridCells = {1, 2}
    OffGrid = offgrid
    Batches <- MCBatches
    FreeEvidence = 3
    HitEvidence = 4
    FreeThreshold = 7
    OccupiedThreshold = 4
    MaxLogOdds = 20
    MaxBatchUpdate = 7
    MaxRays = 4
    LastStamp = 4
    LastMapVersion = 5
    Resolution = 2
    Origin <- MCOrigin
    Columns = 5
    Rows = 3
    SelfRadius = 1
    CorridorWidth = 4
    MaxPoints = 3
    Clouds <- MCClouds
    Radius = 1
    PoseError = 0
    WallMoves <- MCWallMoves
    PairMoves <- MCPairMoves
    Beams = 7
    SensorRange = 5
    Noise = 1
    Threshold = 2
    MinimumBeams = 2
    MaximumGap = 1
    Scenes <- MCScenes
    Sights <- MCSights
    NodeIds = {1, 2, 3, 4}
    Graphs <- MCGraphs
    Poses <- MCPoses
    RobotRadius = 1
    TreeLimit = 2
    LastFrame = 2
    None = none
INVARIANTS
    SupportContainsRival
    NeverSwingsBack
    AnswersAreFinal
    MovingThingsFade
    FreeIsSeen
    ContactIsExact
    PerceptionIsExact
    AnswerIsFresh
    SignatureIsMotion
PROPERTIES
    EveryRequestIsAnswered
CHECK_DEADLOCK FALSE
