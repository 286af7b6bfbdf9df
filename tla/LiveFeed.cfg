SPECIFICATION FairSpec
CONSTANTS
    Ring = 2
    Channel = 1
    KeepLogs = 3
    MaxSeq = 4
    MaxLives = 2
    MaxConnects = 3
INVARIANTS TypeOK ShownInOrder NoHoles
PROPERTY FirstLifeIsShown
CHECK_DEADLOCK FALSE
