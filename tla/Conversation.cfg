SPECIFICATION Spec
CONSTANTS
    Friend = {a}
    Suspect = {s}
    ToolUser = {a}
    MaxContext = 2
    Keep = 1
    Hard = 3
    KeepTurns = 1
    MaxEvents = 2
INVARIANTS TypeOK ExchangesStayTogether SettledOnDisk LockIsReturned
PROPERTIES NothingLost ScreenedLeaveTheHistory
CHECK_DEADLOCK FALSE
