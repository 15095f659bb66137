SPECIFICATION Spec
CONSTANTS
    Users = {"u1", "u2"}
    Backend = "file"
    DefaultDurable = FALSE
    BootLogins = {"token", "password"}
    MaxCalls = 5
    MaxFaults = 2
    MaxCrashes = 2
INVARIANTS
    SignedOutStaysOut
    OptedOutLeavesNoToken
    AuthsaveAllOrNothing
    TokenHasItsUser
