\* Watchdog: two stages and two hashes, so that one of each is foreign; a
\* lease of one of two clock ticks; two heartbeats between rearms.
\* Decision: speeds up to 3 with a braking of 1, and leases of one or two
\* ticks of three.  Duel: six steps, a freeze that ends inside a step and an
\* end that cuts the last one short.  Geometry: a step in four instants.
\* Topology: maps of 4 by 3 cells, a footprint of less than and of one cell.
\* Routes: four nodes and six edges.
\* Records: two sessions of two records.  Learning: up to three records and
\* three backups.  Fusion: weights of quarters, durations up to two ticks.
\* Search: four genomes, a population of three, two generations, two fixtures.
SPECIFICATION MCSpec
CONSTANTS
    Stages = {s1, s2}
    Hashes = {ours, theirs}
    ConfigHash = ours
    Lease = 1
    NoStage = nostage
    NoBeat = nobeat
    MaxSeq = 2
    MaxTime = 2
    MaxHeard = 2
    Inputs <- MCInputs
    CandidateLease = 2
    ObstacleLease = 1
    EgoLease = 1
    Budget = 1
    Skew = 0
    Braking = 1
    Response = 1
    Acceleration = 1
    Margin = 1
    SpeedMax = 2
    YawMax = 2
    LateralMax = 2
    HalfSeparation = 1
    WheelSpeed = 3
    RotationRadius = 1
    RotationMargin = 1
    RestTolerance = 1
    YawAcceleration = 2
    AlignYawMax = 0
    LastClock = 3
    LastIdentity = 2
    Period = 2
    FreezeTime = 3
    EpisodeTime = 9
    MatchLease = 2
    MaxSteps = 6
    Nothing = Nothing
    Reach = 7
    Depth = 1
    Duels <- MCDuels
    Arrivals <- MCArrivals
    Parts = 60
    Width = 4
    Height = 3
    Grids <- MCGrids
    Inflations = {0, 1}
    NodeIds = {1, 2, 3, 4}
    Distance <- MCDistance
    Ends <- MCEnds
    Overlays <- MCOverlays
    Queries <- MCQueries
    Kinds = {"go", "stay"}
    SchemaName = "s"
    Boundaries = {2}
    Records <- MCRecords
    MaxRecords = 3
    Splits <- MCSplits
    Profile = "p"
    Nowhere = Nowhere
    Etas = {0, 1}
    MaxBackups = 3
    Scale = 512
    Models <- MCModels
    ModelOptions = {"go", "stay"}
    NextClasses = {"x", "y"}
    Whole = 4
    Unit = 4
    Tolerance = 1
    Worths <- MCWorths
    Publishers = {"match"}
    RecordLease = 2
    Delay = 1
    Downtime = 2
    Unknown = Unknown
    LastTime = 4
    LastSession = 2
    LastSeq = 1
    LastInForce = 2
    Genomes = {0, 1, 2, 3}
    Baseline = 0
    Child <- MCChild
    FirstSeed = 0
    PopulationSize = 3
    EliteCount = 2
    Generations = 2
    MaxAttempts = 3
    Fixtures = 2
    Episodes <- MCEpisodes
    References <- MCReferences
    MaxOverrides = 1
    CriticalSquared = 161
INVARIANTS
    NothingGoesBack
    ValuesAreShown
    FusionKeepsWorth
    SelectedIsSupported
    FaultsAreNotMissed
    MotionIsEntitled
    DuelIsOne
    RulingIsSound
    TopologyIsSound
    RouteIsCheapest
PROPERTIES
    ReleaseIsEarned
    EpisodeEnds
CHECK_DEADLOCK FALSE
