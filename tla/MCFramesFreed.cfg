SPECIFICATION Spec
CONSTANTS
    MaxClients = 1
    MaxPresses = 1
    MaxSignals = 1
    stats_enabled = TRUE
INVARIANT
    FramesFreed
CHECK_DEADLOCK FALSE
