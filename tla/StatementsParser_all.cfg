\* Every statement, well formed or not, in short templates; well formed
\* conditions, loops and inheritance, nested and interleaved, in longer ones.
SPECIFICATION MCSpec
CONSTANTS
    MaxBlocks = 6
    Input <- AllInput
    Headers <- AllHeaders
    BlockNames = {"a", "b"}
    NoName = NoName
    HasEnv = TRUE
    DoEnabled = TRUE
INVARIANTS
    TypeOK
    CleanKeepsRoot
    NothingLostSilently
    DocumentOrder
    BlockOnExtends
PROPERTIES
    ClosedIsFinal
\* parsing ends
CHECK_DEADLOCK FALSE
