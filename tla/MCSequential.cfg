SPECIFICATION SequentialSpec
CONSTANTS
    Nothing = Nothing
    None = None
    Streams = {s1, s2}
    HopSamples = 2
    MaxSamples = 5
    RechunkSamples = 3
    MaxPendingSamples = 6
    MaxChunk = 7
    MaxAppended = 11
    Radix = 4
    Fine = 4
    MaxConverted = 2
    Excess = 2
    BatchStreams = {b1, b2, b3}
    RfFreq = 3
    RnnBlocks = 3
    MaxHops = 4
    LastPosition = 4
    Takes = {t1, t2}
SYMMETRY Symmetry
INVARIANTS
    DelayCompensated
    ProducedContiguous
    Recut
    WireIsLittleEndian
    NearestLevel
    BatchingIsTransparent
    ReadsAreLookups
PROPERTIES
    ImplementsMap
    DiscardsThePast
CHECK_DEADLOCK FALSE
