SPECIFICATION SchedulerSpec
CONSTANTS
    SyncIds = {1, 2}
    Paths = {1, 2}
    Plans <- MCPlans
    max_parallel_uploads = 1
    max_parallel_downloads = 1
    MaxQueue = 3
    MaxDispatched = 1
PROPERTIES
    BatchConserves
    NoOvertaking
    RestartRequeues
