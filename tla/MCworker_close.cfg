SPECIFICATION LiveSpec
CONSTANTS
    MaxQueued = 1
    MaxBackoff = 1
    MayClose = TRUE
    Mistrust = TRUE
    LastSample = 1
    LastGeneration = 2
    Sizes = {1}
    None = None
INVARIANTS
    TypeOK
PROPERTIES
    CloseEndsWorker
    OnlyAnEndStartsOver
    ImplementsInterface
CHECK_DEADLOCK FALSE
