SPECIFICATION Spec
CONSTANTS
    None = None
    Moved = Moved
    MaxItems = 4
    VarCounts = {1, 2}
\* the rendering ends
CHECK_DEADLOCK FALSE
INVARIANTS
    RendersChosen
    LoopVarIsPosition
    BoundFromNearest
