SPECIFICATION Spec
CONSTANTS
    Total = 2
    Controllers = {"k1", "k2"}
    MaxCalls = 4
    MaxSends = 5
INVARIANT LateCallsSendNothing ReportedBytesReceived OkMeansWhole
CHECK_DEADLOCK FALSE
