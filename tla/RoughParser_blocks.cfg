SPECIFICATION Spec
CONSTANTS
    Templates <- MCTemplates
    Settings <- MCSettings
INVARIANTS
    BlocksInOrder
    OnlyMarkupIsLost
    LocationsAreRight
\* parsing ends
CHECK_DEADLOCK FALSE
