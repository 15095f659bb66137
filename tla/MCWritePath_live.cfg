SPECIFICATION FairSpec
CONSTANTS
    MaxIno = 1
    Paths = {"a", "b"}
    FlushThreshold = 2
    ChunkRetries = 1
    MaxStaging = 2
    MaxBlob = 3
    WholeFileCeiling = 1
    MaxFds = 1
    WriteSizes = {1, 2}
    MaxCalls = 4
    MaxDrains = 1
    MaxSessions = 2
    MaxStops = 1
INVARIANT AckedChunksAreOnServer
PROPERTY SavedFileIsWhole UntouchedChunksAreExact KernelCallReturns
CHECK_DEADLOCK FALSE
