SPECIFICATION Spec
CONSTANTS
    None = None
    Streams = {s1, s2}
    StreamIds = {i1, i2}
    HopSamples = 2
    InputQueueHops = 2
    OutputQueueHops = 2
    MaxActiveStreams = 2
    MaxBatchSize = 2
    MaxAudioChunkSamples = 2
    MaxSamples = 3
    MayStop = FALSE
    SlowClients = {}
SYMMETRY Symmetry
INVARIANTS
    TypeOK
    GaugesMatchQueues
    RegistryExact
    WaitsOnce
    NoLostWakeup
    SampleChain
    AudioIsOwn
    CompletionAccounts
PROPERTIES
    CancelledIsFinal
    ImplementsPipeline
CHECK_DEADLOCK FALSE
