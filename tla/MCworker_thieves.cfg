SPECIFICATION LiveSpec
CONSTANTS
    MaxQueued = 1
    MaxBackoff = 0
    MayClose = TRUE
    Mistrust = FALSE
    LastSample = 1
    LastGeneration = 2
    Sizes = {1}
    None = None
PROPERTIES
    CloseStopsWorker
CHECK_DEADLOCK FALSE
