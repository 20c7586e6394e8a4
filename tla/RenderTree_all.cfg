SPECIFICATION Spec
CONSTANTS
    Programs <- AllPrograms
    Bodies <- AllBodies
    Main = "main"
    Params <- ParamValues
    Globals <- GlobalValues
    Private = {"_k"}
    MaxDepth = 20
\* rendering ends
CHECK_DEADLOCK FALSE
INVARIANTS
    Undisturbed
    DeadOnlyIfCopied
    ArgumentsAreSeen
    EmptyOnlyIfTaken
    RendersInheritance
