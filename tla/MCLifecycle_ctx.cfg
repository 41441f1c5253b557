SPECIFICATION Spec
CONSTANTS
    m1 = m1
    m2 = m2
    m3 = m3
    NoMod = NoMod
    Mods <- MCMods
    Name <- MCName
    Flags <- MCFlags
    Startups <- TwoModules
    Ops <- CtxDeregisterOnly
    Careful = FALSE
    SrcsFail = TRUE
    MaxCalls = 4
    MaxStack = 7
    MaxBatch = 2
INVARIANT CtxTakesModules
