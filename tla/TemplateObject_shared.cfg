SPECIFICATION Spec
CONSTANTS
    Users = {u1, u2}
    Names = {g1, g2}
    NoUser = NoUser
    MaxLoads = 3
    MaxDocs = 2
    MaxValues = 2
SYMMETRY Symmetry
INVARIANTS
    TextIsAlive
    SuccessMeansLoaded
    RacesAreKnown
    GlobalsOfOneMoment
\* the bounds are reached
CHECK_DEADLOCK FALSE
