CONSTANTS
    NDays = 2
    MaxVer = 2
    NzChoices <- MCNzChoices
    Batch = 2
    MaxHttpFails = 1
    MaxSegFails = 1
    Nil = Nil
SPECIFICATION FairSpec
INVARIANT BufferKeepsUnsent
INVARIANT BufferBounded
PROPERTY AllEventuallyExported
