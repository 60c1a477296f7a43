SPECIFICATION FairSpec
CONSTANTS
    HeadLen = 2
    MaxBuf = 6
    KernelBuf = 2
    MaxBytes = 9
INVARIANTS
    TypeOK
    OutIsStream
    NothingStranded
PROPERTIES
    Flushed
CHECK_DEADLOCK FALSE
