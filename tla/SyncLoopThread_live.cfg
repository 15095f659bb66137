SPECIFICATION ThreadSpec
CONSTANT Enabled = TRUE
INVARIANTS
    NoSleepOnWake
    PausedLoopSaysSo
PROPERTIES
    ShutdownCompletes
    NoLostWake
    PauseHolds
