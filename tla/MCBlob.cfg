CONSTANTS
    Rows = {r1, r2}
    Vals = {a, b}
    MaxSize = 2
    ArrLen = 3
    Offsets = {0, 1}
    DestOffsets = {0, 1, 2}
    Lengths = {1, 2}
    PinCanFail = TRUE
SPECIFICATION Spec
INVARIANT TypeOK
INVARIANT JavaSeesRead
INVARIANT ColumnBlobIsRow
SYMMETRY Symmetry
CONSTRAINT BeforeStray
