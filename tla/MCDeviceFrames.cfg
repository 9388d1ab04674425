SPECIFICATION FramesSpec
CONSTANTS
    FrameMax = 16
    RunLengths <- MCRunLengths
    EventNumbers <- MCNumbers
    Lengths <- MCLengths
INVARIANTS
    FramesSafe
PROPERTY
    EncodeEnds
CHECK_DEADLOCK FALSE
