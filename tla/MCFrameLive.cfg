SPECIFICATION FairSpec
CONSTANTS
    W = 2
    H = 1
    Colors = {0, 1}
    Frames <- TwoFrames
    width_divisor = 2
    height_divisor = 1
    SockBuf = 6
    ErrorLength = 2
PROPERTIES
    FrameEnds
    ReaderNotices
