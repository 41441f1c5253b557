SPECIFICATION Spec
CONSTANTS
    w1 = w1
    w2 = w2
    c1 = c1
    c2 = c2
    k1 = k1
    k2 = k2
    k3 = k3
    NoOne = NoOne
    NoTask = NoTask
    Workers <- MCWorkers
    Callers <- MCCallers
    Owner = c1
    Tasks <- MCTasks3
    Scenarios <- AllScenarios
    MaxCalls = 1
    MaxSpurious = 1
INVARIANTS
    TypeOK
    LockDiscipline
    TaskAccounting
    NoLostWakeup
    NoActiveThreads
    WaitAllRunsAll
    RunningCount
PROPERTIES
    ShutdownIsFinal
\* a failed pthread_create in m_thpool_add leaves the mutex locked and the program stuck
CHECK_DEADLOCK FALSE
SYMMETRY Symmetric
