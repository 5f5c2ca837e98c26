\* Two nodes, each with a spare entry, that lose messages and sessions, restart
\* and change address.
CONSTANTS
    n1 = n1 n2 = n2 a1 = a1 a2 = a2 a3 = a3 a4 = a4
    NoAddr = NoAddr NoId = NoId
    Nodes = {n1, n2}
    MAX_PEERS = 2
    OPENING_MAX = 2
    Addrs = {a1, a2, a3}
    HomeAddr <- TwoHomes
    Faults = {"loss", "expiry", "restart", "move"}
    MaxFaults = 2
    Reordering = FALSE
    Timely = TRUE
    NDEBUG = FALSE
SPECIFICATION FairSpec
INVARIANT OneSessionPerPeer
PROPERTY EventuallyConnected
