SPECIFICATION Spec
CONSTANTS
    MaxQueued = 1
    MaxBackoff = 0
    MayClose = FALSE
    Mistrust = TRUE
    LastSample = 3
    LastGeneration = 2
    Sizes = {1}
    None = None
INVARIANTS
    OneFrameLeaks
    ForgottenBounded
PROPERTIES
    ImplementsInterface
CHECK_DEADLOCK FALSE
