CONSTANTS
    p1 = p1
    p2 = p2
    IntWidth <- MCIntWidth
    XP = "xp"
    Procs <- MCProcs
    Users <- MCUsers
    Metrics <- MCMetrics
    Deltas <- MCDeltas
    Badges <- MCBadges
    Levels <- MCLevels
    MaxCalls = 2
    DelMayFail = TRUE
    Nil = Nil
SPECIFICATION Spec
INVARIANT PointsStayInt64
