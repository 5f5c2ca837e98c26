\* Everything written is delivered and a full window drains.
CONSTANTS
    HalfSpace = 4
    XMITW_SAMPLES = 2
    XMITW_BYTES = 8
    TRANSPORT_MTU = 2
    MaskBits = 1
    Sizes = {1, 2}
    Packing = TRUE
    ClientMode = FALSE
    SeqStart = 6
    MaxWrites = 3
    LinkCap = 2
    Reordering = {}
SPECIFICATION FairSpec
PROPERTIES FifoLive DrainingEnds
CHECK_DEADLOCK FALSE
