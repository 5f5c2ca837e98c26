\* A transaction of several DECLARE packets, one of which is refused.
CONSTANTS
    UNIT = 2
    URISPACE = 14
    MAX_BLOCKS = 1
    MAX_BYTES = 100
    Nobody = Nobody NONE = NONE SELF = SELF
    Peers = {1, 2}
    MAX_RESOURCES = 2
    short = short long = long
    Uris = {short, long}
    UriLen <- ShortAndLong
    Resources <- OneOrTwo
SPECIFICATION Spec
PROPERTY TransactionWhole
