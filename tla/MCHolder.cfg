CONSTANTS
    StatusVals = {n1, n2}
SPECIFICATION Spec
INVARIANT StatusReadBack
