SPECIFICATION Spec
CONSTANTS
    Params <- MCParams
    Results <- MCResults
    Names = {x}
    MaxTrees = 2
    MaxSteps = 11
INVARIANTS
    OneStepIsKept
PROPERTIES
    LoopStaysReadable
\* the steps are bounded
CHECK_DEADLOCK FALSE
