CONSTANTS
    p1 = p1
    w1 = w1
    w2 = w2
    Types <- MCTypes
    Publishers <- MCPublishers
    Workers <- MCWorkers
    QueueCap = 1
    MaxPublish = 2
    MaxClients = 2
    Buffer = 1
SPECIFICATION FairSpec
INVARIANT TypeOK
PROPERTY AcceptedBroadcastUnlessClosed
