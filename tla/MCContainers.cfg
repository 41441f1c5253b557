SPECIFICATION ContainersSpec
CONSTANTS
    Items = {1, 2, 3, 4}
    NoItem = NoItem
    KeyOf <- Parity
    LinkedMax = 3
    NoData = NoData
    BstMax = 4
    Elems = {1, 2, 3, 4, 12}
    IntHalf = 5
    NoValue = NoValue
    Empty = Empty
    Keys = {1, 2, 3, 4}
    Versions = {1, 2}
    Hashes <- SmallHashes
    InitSize = 4
    MaxSize = 8
INVARIANTS
    LinkedContent
    LinkedOwned
    SearchTree
    DtorExact
    MapExact
    MapOwned
PROPERTIES
    LinkedIteration
    BstIteration
    MapIteration
    ClearEmpties
CHECK_DEADLOCK FALSE
