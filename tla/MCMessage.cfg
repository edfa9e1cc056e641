SPECIFICATION Spec
CONSTANTS
    m1 = m1
    m2 = m2
    b1 = b1
    b2 = b2
    b3 = b3
    Junk = Junk
    NoBuffer = NoBuffer
    Msgs <- MCMsgs
    Bufs <- MCBufs
    Values <- MCValues
    Samples <- MCSamples
    SmallSize = 1
    MinGrow = 2
    MaxSize = 12
    MaxItems = 2
SYMMETRY Symmetry
INVARIANT OwnContent
INVARIANT ReadsBack
CHECK_DEADLOCK FALSE
