\* Four members, which give the heap three levels.
CONSTANTS
    HalfSpace = 4
    p1 = p1 p2 = p2 p3 = p3 p4 = p4 p5 = p5 p6 = p6
    Peers = {p1, p2, p3, p4}
    Attached = {p1, p2, p3, p4}
    XMITW_SAMPLES = 3
    SeqStart = 6
    MaxWrites = 5
    AckDelay = 3
SPECIFICATION FairSpec
INVARIANTS  BaseIsMin DrainingAwaitsMember
PROPERTY DrainingEnds
CHECK_DEADLOCK FALSE
