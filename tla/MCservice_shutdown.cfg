SPECIFICATION Spec
CONSTANTS
    None = None
    Streams = {s1, s2}
    StreamIds = {i1, i2}
    HopSamples = 1
    InputQueueHops = 2
    OutputQueueHops = 1
    MaxActiveStreams = 2
    MaxBatchSize = 2
    MaxAudioChunkSamples = 2
    MaxSamples = 2
    MayStop = TRUE
    SlowClients = {}
SYMMETRY Symmetry
INVARIANTS
    GaugesMatchQueues
    RegistryExact
CHECK_DEADLOCK FALSE
