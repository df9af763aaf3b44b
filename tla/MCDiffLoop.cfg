SPECIFICATION Spec
CONSTANTS
    W = 3
    H = 2
    Colors = {0, 1, 2}
    Prevs <- Grey
    Nexts <- AllImages
    Screens <- GreyOrWhite
    Regions <- AllRegions
INVARIANTS
    LockStep
    Faithful
    Frugal
    Mirrors
    Refreshed
    BufferBound
    LoopInvariant
CHECK_DEADLOCK FALSE
