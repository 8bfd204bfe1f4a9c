CONSTANTS
    b1 = b1
    b2 = b2
    Broadcasters <- MCBroadcasters
    MaxSubs = 2
    MaxBroadcasts = 2
    Buffer = 1
SPECIFICATION Spec
SYMMETRY BroadcasterSymmetry
INVARIANT NoSendOnClosedChannel
