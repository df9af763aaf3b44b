SPECIFICATION Spec
CONSTANTS
    W = 3
    H = 2
    Colors = {0, 1}
    Frames <- SomeFrames
    width_divisor = 2
    height_divisor = 1
    SockBuf = 6
    ErrorLength = 2
INVARIANT
    ColorsAgree
