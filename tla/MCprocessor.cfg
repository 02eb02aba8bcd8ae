SPECIFICATION Spec
CONSTANTS
    None = None
    LastSample = 5
    Delay = 1
    ResponseWait = 1
    MaxBuffer = 3
    Sizes = {1, 2, 3}
    LastGeneration = 3
INVARIANTS
    OutputAligned
    RawIsTheWindow
    EnhancedInWindow
    NoFalseMistrust
CHECK_DEADLOCK FALSE
