SPECIFICATION Spec
CONSTANTS
    None = None
    Streams = {s1}
    StreamIds = {i1}
    HopSamples = 2
    InputQueueHops = 2
    OutputQueueHops = 2
    MaxActiveStreams = 1
    MaxBatchSize = 1
    MaxAudioChunkSamples = 5
    MaxSamples = 9
    MayStop = TRUE
    SlowClients = {}
SYMMETRY Symmetry
INVARIANTS
    SampleChain
CHECK_DEADLOCK FALSE
