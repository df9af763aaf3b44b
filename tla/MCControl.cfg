SPECIFICATION Spec
CONSTANTS
    screen_width = 4
    screen_height = 3
    Readers <- TwoReaders
    Windows = {root, w1}
    Root = root
    Geometries <- Places
    windows_scale <- One
    desktop_scale <- Half2
    scale_factor <- Two
    move_step = 2
    MIN_SCALE <- Half2
    MAX_SCALE <- Two
    MaxPresses = 1
    MaxSide = 3
    None = None
INVARIANTS
    TypeOK
    ScaleInRange
PROPERTIES
    FrameFits
    Settles
    ZoomCentres
