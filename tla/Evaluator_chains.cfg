SPECIFICATION Spec
CONSTANTS
    Closeness = 50
    Callables <- MCCallables
    OtherNames <- MCOtherNames
    Called <- MCCalled
    Macros <- MCMacros
    Expansion <- MCExpansion
    Loop <- MCLoop
    Inputs <- MCInputs
    Operands <- MCOperands
    Calls <- MCCalls
    Testers <- MCTesters
    MaxSteps = 2
    MaxItems = 4
INVARIANTS
    FormsAgree
    ItemsKept
    OrderIsRight
    OperatorsAgree
    ResultsFit
\* a chain ends after MaxSteps
CHECK_DEADLOCK FALSE
