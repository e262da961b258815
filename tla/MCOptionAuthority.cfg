\* Three action ids against room for two records, so that the capacity is
\* reached; four generations, so that an option is planned, replanned and
\* replaced by another.
SPECIFICATION Spec
CONSTANTS
    o1 = o1
    o2 = o2
    o3 = o3
    s1 = s1
    s2 = s2
    e1 = e1
    e2 = e2
    v1 = v1
    v2 = v2
    Instances = {o1, o2, o3}
    Versions = {v1, v2}
    Epochs = {e1, e2}
    Stages = {s1, s2}
    Nobody = nobody
    MaxGeneration = 4
    Actions = {a1, a2, a3}
    Goals <- MCGoals
    Contexts <- MCContexts
    CancelTimeouts = {1, 2}
    MaxRecords = 2
    Horizon <- MCHorizon
SYMMETRY ActionSymmetry
INVARIANTS
    AdmittedIsCurrent
    StateAgreesWithLease
    LeaseCallsNeverRaise
PROPERTIES
    AccountsAreKept
    TokenSpec
