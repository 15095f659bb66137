SPECIFICATION SteadyFairSpec
CONSTANTS
    SyncIds = {1, 2, 3}
    Paths = {1, 2}
    Plans <- BusyPlans
    max_parallel_uploads = 2
    max_parallel_downloads = 2
    MaxQueue = 5
    MaxDispatched = 0
PROPERTY NoRootStarves
