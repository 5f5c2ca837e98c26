\* Wrap-around, packing, reordered ACKNACKs, a receiver that waits for a SYNCH.
CONSTANTS
    HalfSpace = 4
    XMITW_SAMPLES = 3
    XMITW_BYTES = 12
    TRANSPORT_MTU = 3
    MaskBits = 2
    Sizes = {1}
    Packing = TRUE
    ClientMode = FALSE
    SeqStart = 6
    MaxWrites = 4
    LinkCap = 2
    Reordering = {"ack"}
SPECIFICATION Spec
INVARIANTS TypeOK InOrder UnackedKept NackedExists DrainingAwaitsAcks
PROPERTIES OnlyDeliveryAdvances FifoSafe
CHECK_DEADLOCK FALSE
