CONSTANTS
    p1 = p1
    p2 = p2
    IntWidth <- MCIntWidth
    XP = "xp"
    Procs <- MCConcurrent
    Users <- MCUsers
    Blank = ""
    Metrics <- MCMetrics
    Deltas <- MCDeltas
    Badges <- MCBadges
    BadBadge = "bad badge"
    MaxCalls = 2
SPECIFICATION Spec
INVARIANT TypeOK
INVARIANT StoredTotalExact
INVARIANT LevelBackedByPoints
INVARIANT EngineBehindRoutes
