SPECIFICATION FairSpec
CONSTANTS
    MaxClients = 1
    MaxPresses = 0
    MaxSignals = 1
    stats_enabled = TRUE
PROPERTY
    StopStops
CHECK_DEADLOCK FALSE
