CONSTANTS
    r1 = r1
    r2 = r2
    Nil = Nil
    NoHeader = NoHeader
    Blank = Blank
    Reqs <- MCReqs
    Requests <- MCRequests
    AuthOn = TRUE
    APIKeys = {"k1"}
    CORSOn = TRUE
    HubOn = TRUE
    BadUserIds = {" "}
    BadBadgeIds = {"gold!"}
    BadDeltas = {"x"}
    Burst = 2
    TicksPerToken = 2
    MaxTime = 3
    MaxCalls = 2
SPECIFICATION Spec
INVARIANT NoDenialWithinBurst
