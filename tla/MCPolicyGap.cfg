\* Frames of an active stage only, with and without the rival, some of them
\* without a pose; the filter predicts one stamp ahead.
SPECIFICATION PolicySpec
CONSTANTS
    c1 = c1
    c2 = c2
    l1 = l1
    l2 = l2
    s1 = s1
    s2 = s2
    v1 = v1
    v2 = v2
    Clocks = {c1, c2}
    Localizations = {l1, l2}
    Stages = {s1, s2}
    Versions = {v1, v2}
    Nobody = nobody
    NoOne = none
    Instances <- MCInstances
    Epochs <- MCEpochs
    Actions <- MCActions
    Goals <- MCGoals
    Contexts <- MCContexts
    Hold <- MCHold
    Nodes <- MCNodes
    GoalNode = 2
    Endpoints = {"GUARDIAN", "EXPLORER", "LONE_EXPLORER"}
    FrameShapes <- SteadyShapes
    HysteresisDelta = 1
    MinimumDwell = 2
    ConfirmationCount = 2
    CoastingTimeout = 1
    BeliefTimeout = 2
    LostTimeout = 3
    MaxPrediction = 1
    CancelTimeouts = {1}
    MaxRecords = 3
    MaxGeneration = 5
    LastStamp = 4
    Horizon = 5
INVARIANT EveryFrameIsAnswered
