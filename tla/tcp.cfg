\* Packets of two lengths over sockets that take four bytes, the longer frame.
CONSTANTS
    c = c s = s
    NONE = NONE
    Nodes = {c, s}
    Listeners = {s}
    PingAddrs <- OneWay
    MAX_CONNECTIONS <- Two
    TRANSPORT_MTU = 2
    Cap = 4
    Base = 2
    SCOUT <- Scout
    HELLO <- Hello
    DATA <- Data
    MaxSends = 2
    MaxFaults = 1
    SEQNUM_LEN = 14
    ZHE_MAX_RID = 16383
    N_OUT_CONDUITS = 8
    N_IN_CONDUITS = 8
    multicast_locators <- Locators
SPECIFICATION Spec
INVARIANTS FramesIntact  OneConnectionPerPing FrameIsWaitedFor
PROPERTIES Reconnects WireFormat
