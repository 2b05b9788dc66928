SPECIFICATION TextSpec
CONSTANTS
    Registers = 4
    numparams = 1
    Value = {0, 1}
    Nil = 0
    Result <- MCResult
    MaxValues = 2
    SelfInPlace = FALSE
INVARIANT SameAsMachine
