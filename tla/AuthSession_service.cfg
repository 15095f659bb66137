SPECIFICATION Spec
CONSTANTS
    Users = {"u1", "u2"}
    Backend = "service"
    DefaultDurable = TRUE
    BootLogins = {"token"}
    MaxCalls = 4
    MaxFaults = 0
    MaxCrashes = 1
INVARIANT
    SignedOutStaysOut
