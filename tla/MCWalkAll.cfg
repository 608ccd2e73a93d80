SPECIFICATION FairWalk
CONSTANTS
    Key = {k1, k2, k3}
    MaxHops = 2
    MaxSigned = 2
    Lists <- FewEndpoints
    Withholding = TRUE
    NoRecord = NoRecord
CHECK_DEADLOCK FALSE
INVARIANTS
    PathIsReal
    CycleIsReal
    FollowsBelowLimit
    TriedInOrder
    ShareIsWeight
PROPERTY
    WalkEnds
