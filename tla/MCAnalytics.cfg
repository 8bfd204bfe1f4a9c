CONSTANTS
    e1 = e1
    ws1 = ws1
    Nil = Nil
    Emitters <- MCEmitters
    Users <- MCUsers
    Deltas <- MCDeltas
    Kinds <- MCKinds
    WS <- MCWS
    Buffer = 1
    MaxEvents = 1
    MaxEmits = 2
    MaxAggs = 2
    TicksPerDay = 2
    MaxTime = 2
    TopKeys <- MCTopKeys
    TopPoints = {0, 1, 2}
    TopLimits = {0, 1, 2, 3, 5}
SPECIFICATION Spec
INVARIANT TypeOK
INVARIANT WeeklyCoversDays
INVARIANT TopMetricsAreTop
