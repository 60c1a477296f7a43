SPECIFICATION FairSpec
CONSTANTS
    Data = {d1, d2}
    Capacity = 2
    MaxPush = 5
INVARIANTS
    TypeOK
PROPERTIES
    ImplementsFifo
    Delivered
