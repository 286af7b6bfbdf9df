SPECIFICATION Spec
CONSTANTS
    Ring = 2
    Channel = 1
    KeepLogs = 3
    MaxSeq = 4
    MaxLives = 2
    MaxConnects = 2
CHECK_DEADLOCK FALSE
INVARIANT LiveIsCurrent
