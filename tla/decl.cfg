\* A peer with room for everything and one with too little.
CONSTANTS
    Peers = {1, 2}
    MULTICAST = 0
    Members = {1, 2}
    MAX_ITEMS <- Few
    INVALID = 2
    Window = 2
    Room <- SmallSecond
    MaxSessions = 3
SPECIFICATION Spec
INVARIANTS TypeOK EverythingDeclared OneTransaction
 
\* the application may be done, and the sessions too
CHECK_DEADLOCK FALSE
