SPECIFICATION FairSpec
CONSTANTS
    Callers = {"c1", "c2", "c3"}
    FailureThreshold = 2
    MaxAttempts = 3
    Capacity = 1
    RateMode = "Shed"
    MaxCalls = 3
INVARIANTS
    ProbeHasOwner
    BudgetAccounts
PROPERTIES
    Contract
    CallReturns
CHECK_DEADLOCK FALSE
