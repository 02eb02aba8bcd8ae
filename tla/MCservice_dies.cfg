SPECIFICATION Spec
CONSTANTS
    None = None
    Streams = {s1, s2, s3}
    StreamIds = {i1, i2}
    HopSamples = 1
    InputQueueHops = 2
    OutputQueueHops = 1
    MaxActiveStreams = 2
    MaxBatchSize = 1
    MaxAudioChunkSamples = 1
    MaxSamples = 1
    MayStop = FALSE
    SlowClients = {}
SYMMETRY Symmetry
INVARIANTS
    SchedulerSurvives
CHECK_DEADLOCK FALSE
