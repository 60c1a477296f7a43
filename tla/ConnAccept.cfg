SPECIFICATION FairSpec
CONSTANTS
    t1 = t1
    t2 = t2
    fd1 = fd1
    fd2 = fd2
    c1 = c1
    c2 = c2
    c3 = c3
    c4 = c4
    NoThread = NoThread
    NoFd = NoFd
    NoConn = NoConn
    Threads <- MCOneThread
    Fds <- MCFds
    Conns <- MCFourConns
    MaxSessions = 1
    MaxFrames = 0
    MaxSends = 0
    RegisterFails = FALSE
    InitialPressures <- MCPressure
PROPERTIES
    BacklogAccepted
CHECK_DEADLOCK FALSE
