CONSTANTS
    IntWidth <- MCIntWidth
    XP = "xp"
    Users <- MCUsers
    Metrics <- MCMetrics
    Deltas <- MCDeltas
    Badges <- MCBadges
    Levels <- MCLevels
    MaxCalls = 4
    MaxCrashes = 1
    Nil = Nil
    Torn = Torn
SPECIFICATION Spec
INVARIANT RestartLoadsLastAck
PROPERTY JsonFileImplementsStorage
