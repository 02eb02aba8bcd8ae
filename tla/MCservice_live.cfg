SPECIFICATION FairSpec
CONSTANTS
    None = None
    Streams = {s1, s2}
    StreamIds = {i1, i2}
    HopSamples = 1
    InputQueueHops = 2
    OutputQueueHops = 1
    MaxActiveStreams = 2
    MaxBatchSize = 2
    MaxAudioChunkSamples = 1
    MaxSamples = 1
    MayStop = FALSE
    SlowClients = {s1}
PROPERTIES
    OpenedRPCsClose
CHECK_DEADLOCK FALSE
