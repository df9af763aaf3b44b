SPECIFICATION FairSpec
CONSTANTS
    MaxClients = 1
    MaxPresses = 1
    MaxSignals = 2
    stats_enabled = TRUE
INVARIANTS
    TypeOK
    Balanced
    FreshStart
    ExitClean
    LastReader
PROPERTIES
    KickEnds
    TermExits
CHECK_DEADLOCK FALSE
