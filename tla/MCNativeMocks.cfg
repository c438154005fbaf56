CONSTANTS
    ABILIST = ABILIST
    ABILIST32 = ABILIST32
    ABILIST64 = ABILIST64
    Keys = {ABILIST, ABILIST32, ABILIST64, other}
    Defaults = {dflt}
    IntDefaults <- MCIntDefaults
SPECIFICATION Spec
INVARIANT AnswersAsTabled
CHECK_DEADLOCK FALSE
