SPECIFICATION FairSpec
CONSTANTS
    r1 = r1
    r2 = r2
    NoMod = NoMod
    NoTopic = NoTopic
    NoSub = NoSub
    Mods <- MCMods
    Topics <- MCTopics
    Patterns <- MCPatterns
    Match <- MCMatch
    Offers <- MCOffers
    Subscribed <- MCSubscribed
    Ops <- AllOps
    Sizes = {0, 2}
    Careful = TRUE
    PipeSize = 4
    MaxSends = 2
    MaxCalls = 3
INVARIANTS
    TypeOK
    Conserved
    InOrder
    NoUndefined
    PrioritiesHold
PROPERTIES
    MessagesArrive
CHECK_DEADLOCK FALSE
