SPECIFICATION FairSpec
CONSTANTS
    SyncIds = {1, 2}
    Paths = {1, 2, 3}
    InitRoots <- PausedDownload
    RootTypes = {"UploadOnly"}
    DiffRoot = 1
    RemoteEntries <- TwoFiles
    Trees <- OneFile
    EventBatches <- RefusedName
    BadPaths = {3}
    NoIdPaths = {2}
    BatchLimit = 2
    MaxOps = 1
    OverflowMax = 1
    Limit = 1
    Propagate = TRUE
    MaxChange = 2
    MaxCrash = 1
    MaxIpc = 2
    MaxFault = 1
INVARIANTS
    InFlightDurable
    BetweenRootsDurable
    CursorBehindIngest
PROPERTIES
    InterruptedWorkRequeued
    CursorNeverRewinds
    AckOnlyOwnTransfer
    WorkIsLedgered
    CycleCompletes
    ActiveRootsServed
