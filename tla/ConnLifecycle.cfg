SPECIFICATION Spec
CONSTANTS
    t1 = t1
    t2 = t2
    fd1 = fd1
    fd2 = fd2
    c1 = c1
    c2 = c2
    c3 = c3
    c4 = c4
    NoThread = NoThread
    NoFd = NoFd
    NoConn = NoConn
    Threads <- MCThreads
    Fds <- MCFds
    Conns <- MCConns
    MaxSessions = 2
    MaxFrames = 1
    MaxSends = 1
    RegisterFails = TRUE
    InitialPressures <- MCPressure
SYMMETRY Symmetry
INVARIANTS
    TypeOK
    DeviceIsItsSocket
    OneHolder
    SessionHasDevice
    DeviceHasSession
    TaskFindsSession
    OneNotification
PROPERTIES
    ImplementsSessionService
CHECK_DEADLOCK FALSE
