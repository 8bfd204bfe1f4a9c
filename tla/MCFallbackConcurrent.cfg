CONSTANTS
    p1 = p1
    p2 = p2
    gold = gold
    IntWidth <- MCIntWidth
    XP = "xp"
    Procs <- MCConcurrent
    Users <- MCUsers
    Metrics <- MCMetrics
    Deltas <- MCDeltas
    Badges <- MCBadges
    Lvls <- MCLvls
    MaxCalls = 2
    MaxAlloc = 4
SPECIFICATION Spec
INVARIANT FallbackTotalExact
