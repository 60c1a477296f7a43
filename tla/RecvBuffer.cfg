SPECIFICATION FairSpec
CONSTANTS
    HeadLen = 2
    MaxBuf = 5
    OverlapAsMemmove = TRUE
    Lens = {1, 2, 3, 5, 6}
    MaxFrames = 3
INVARIANTS
    TypeOK
    RecvHasRoom
    NothingStranded
PROPERTIES
    CutForCause
    ImplementsFrameChannel
    FramesPushed
CHECK_DEADLOCK FALSE
