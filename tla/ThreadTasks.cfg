SPECIFICATION FairSpec
CONSTANTS
    m1 = m1
    m2 = m2
    m3 = m3
    w1 = w1
    w2 = w2
    NoTask = NoTask
    MainTasks <- MCMainTasks
    WorkerTasks <- MCWorkerTasks
    Capacity = 1
    MaxPerFrame = 2
INVARIANTS
    PipelineInOrder
PROPERTIES
    ImplementsTaskLife
    TaskReturns
    FrameEnds
