CONSTANTS
    Rows = {r1, r2}
    Vals = {a, b}
    MaxSize = 2
    ArrLen = 2
    Offsets = {0, 1}
    DestOffsets = {0, 1}
    Lengths = {1, 2}
    PinCanFail = FALSE
SPECIFICATION Spec
INVARIANT NoStrayAccess
