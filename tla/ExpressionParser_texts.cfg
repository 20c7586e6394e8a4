SPECIFICATION Spec
CONSTANTS
    Scripts <- MCScripts
    Trees <- MCTrees
INVARIANTS
    NothingLost
    BoundByPriority
    ReadAsMeant
    ErrorIsAtFault
\* a text has one answer
CHECK_DEADLOCK FALSE
