SPECIFICATION FairSpec
CONSTANTS
    w1 = w1
    w2 = w2
    c1 = c1
    c2 = c2
    k1 = k1
    k2 = k2
    k3 = k3
    NoOne = NoOne
    NoTask = NoTask
    Workers <- MCWorkers
    Callers <- MCCallers
    Owner = c1
    Tasks <- MCTasks
    Scenarios <- LiveScenarios
    MaxCalls = 1
    MaxSpurious = 1
PROPERTIES
    TasksAreServed
    FreeReturns
    ImplementsTaskPool
