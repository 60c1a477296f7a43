SPECIFICATION FairSpec
CONSTANTS
    t1 = t1
    t2 = t2
    fd1 = fd1
    fd2 = fd2
    c1 = c1
    c2 = c2
    c3 = c3
    c4 = c4
    NoThread = NoThread
    NoFd = NoFd
    NoConn = NoConn
    Threads <- MCThreads
    Fds <- MCFds
    Conns <- MCOneConn
    MaxSessions = 1
    MaxFrames = 2
    MaxSends = 1
    RegisterFails = TRUE
    InitialPressures <- MCPressures
PROPERTIES
    PressureFollowsDevices
    DisconnectCleansUp
    ServerCloseCompletes
    FramesHandled
CHECK_DEADLOCK FALSE
