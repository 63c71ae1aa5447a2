SPECIFICATION FairSpec
CONSTANTS
    Tokens = 2
    ForeignServers = TRUE
CHECK_DEADLOCK FALSE
INVARIANTS
    OneModelAtATime
    DecidesAsReplay
    NothingLeft
PROPERTIES
    TextSpec
    RunEnds
