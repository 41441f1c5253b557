SPECIFICATION FairSpec
CONSTANTS
    m1 = m1
    m2 = m2
    m3 = m3
    NoMod = NoMod
    Mods <- MCMods
    Name <- MCName
    Flags <- MCFlags
    Startups <- MCStartups
    Ops <- AllOps
    Careful = TRUE
    SrcsFail = TRUE
    MaxCalls = 4
    MaxStack = 7
    MaxBatch = 2
INVARIANTS
    TypeOK
    RunningModules
    ModRefs
    CtxRefs
    NoUseAfterFree
    CtxGoesWithLastModule
PROPERTIES
    EventsOnlyWhenStarted
    LegalTransitions
    LoopEnds
