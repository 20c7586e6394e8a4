SPECIFICATION Spec
CONSTANTS
    Calls <- MCCalls
INVARIANTS
    PositionalsFillAStretch
    BindsAsPython
    RangeIsPythons
\* a call ends
CHECK_DEADLOCK FALSE
