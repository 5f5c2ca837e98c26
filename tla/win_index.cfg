\* The window with its index.
CONSTANTS
    HalfSpace = 4
    WB = 14
    xmitw_samples = 3
    PosSpace = 32
    ByteSpace = 4
    SampleIndex = TRUE
    Sizes = {1, 2, 5}
    Slack = 1
    MaxWrites = 8
SPECIFICATION Spec
INVARIANTS check_xmitw SpaceExact Retransmittable
CHECK_DEADLOCK FALSE
