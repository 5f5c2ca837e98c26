\* Two peers and the node itself; a buffer that holds two URIs, not any two,
\* and a collector that stops after every step.
CONSTANTS
    UNIT = 2
    URISPACE = 14
    MAX_BLOCKS = 1
    MAX_BYTES = 100
    Nobody = Nobody NONE = NONE SELF = SELF
    Peers = {1, 2}
    MAX_RESOURCES = 2
    short = short long = long
    Uris = {short, long}
    UriLen <- ShortAndLong
    Resources <- OneOrTwo
SPECIFICATION FairSpec
INVARIANTS TypeOK BufferSound UrisIntact NoSpaceLost CommittedFlag
PROPERTIES OnlyResetWithdraws AgainEnds
