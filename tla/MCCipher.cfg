CONSTANTS
    Conns = {c1, c2}
    Pages = {p1, p2}
    Keys = {k1, k2}
    InitKey = k1
    NoKey = NoKey
    NoConn = NoConn
    NULL = NULL
    KeyLengths = {0, 32}
    MaxFrames = 3
    MaxCrashes = 1
SPECIFICATION Spec
INVARIANT TypeOK
