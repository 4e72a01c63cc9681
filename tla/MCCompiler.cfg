CONSTANTS
    MaxImm = 65535
    LvnCap = 2
    NumCap = 2
    BreakCap = 2
    Generator <- MCGenerator
    Params <- MCParams
    Programs <- MCPrograms
    Witnesses <- MCWitnesses
    Inputs <- MCInputs
    Frames <- MCFrames
    FrameSize = 16
    CacheRegs = 3
    LoopFuel = 12
    StepFuel = 60
    OpFuel = 15
SPECIFICATION Spec
INVARIANTS TypeOK CodeMeansTheSource EveryFlawBites NativeAgrees
PROPERTY PassesKeepTheRun
CHECK_DEADLOCK FALSE
