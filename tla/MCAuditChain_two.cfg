SPECIFICATION Spec
CONSTANTS
    Writers = {"ipc", "loop"}
    Events = {"login", "sync"}
    Legacy <- Migrated
    BootKeys = {"none", "k1", "k2"}
    MaxRows = 4
    MaxRestart = 2
    MaxLoadFault = 1
INVARIANT NoFalseAlarm
PROPERTY ChainBreaksExactly
