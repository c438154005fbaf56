CONSTANTS
    Stmts = {s1, s2}
    ParamCount = 2
    Rows = 2
    Vals = {v1}
    NULL = NULL
SYMMETRY StmtSymmetry
SPECIFICATION Spec
INVARIANT ClearedMeansNoBindings
