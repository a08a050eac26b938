\* Two handles and two connections; the second may get the handle of the first.
SPECIFICATION FairSpec
CONSTANTS
    MaxClients = 2
    QueueLen = 6
    MaxDecode = 2
    MaxSess = 2
    MaxReq = 2
    MaxSeg = 2
    Kinds <- AllKinds
CHECK_DEADLOCK FALSE
INVARIANTS NoBufferLeak
PROPERTIES ServedInOrder QueueDrains
