SPECIFICATION Spec
CONSTANTS
    NoData = NoData
    BstMax = 3
    Setups <- OneshotSetups
    PrivFds = {3, 4, 5, 6, 7, 8}
    Elems = {1, 2, 3}
    Periods = {3}
    Unlimited = 9
    MaxSrcs = 3
    MaxRuns = 2
    MaxEvents = 3
    IntHalf = 4
    OutOfInt <- IntMin
CHECK_DEADLOCK FALSE
PROPERTY OneshotOnce
