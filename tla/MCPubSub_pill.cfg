SPECIFICATION FairSpec
CONSTANTS
    r1 = r1
    r2 = r2
    NoMod = NoMod
    NoTopic = NoTopic
    NoSub = NoSub
    Mods <- MCMods
    Topics <- MCTopics
    Patterns <- MCPatterns
    Match <- MCMatch
    Offers <- MCOffers
    Subscribed <- MCSubscribed
    Ops <- PillOps
    Sizes = {0, 2}
    Careful = TRUE
    PipeSize = 4
    MaxSends = 3
    MaxCalls = 2
PROPERTIES
    PillStops
CHECK_DEADLOCK FALSE
