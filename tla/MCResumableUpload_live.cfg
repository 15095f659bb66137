SPECIFICATION FairSpec
CONSTANTS
    Payloads <- MCPayloads
    Targets = {"t1", "t2"}
    MaxAttempts = 2
    MaxRuns = 3
    MaxSessions = 3
    MaxCrashes = 1
INVARIANT RowBehindServer
PROPERTY SavedIsPayload DoneIsSaved RunReturns
CHECK_DEADLOCK FALSE
