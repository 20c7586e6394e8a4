SPECIFICATION Spec
CONSTANTS
    Scripts <- MCScripts
    MaxDigits = 2
    BufferSize = 6
INVARIANTS
    CutIntoTokens
    LiteralsAreTheirText
