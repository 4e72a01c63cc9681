SPECIFICATION Spec
CONSTANTS
    MaxNesting = 3
    MaxExprDepth = 5
    MaxChainDepth = 12
    Builtins <- MCBuiltins
    Sources <- MCSources
INVARIANTS FrontEndTypeOK JudgesRight ReadsAsWritten
CHECK_DEADLOCK FALSE
