CONSTANTS
    Intervals = {2, 3, 4}
    Epoch = 4
    MaxTime = 16
SPECIFICATION Spec
PROPERTY OncePerInterval
PROPERTY NoStall
CHECK_DEADLOCK FALSE
