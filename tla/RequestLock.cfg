CONSTANTS
    Request = {r1, r2, r3}
    Operator = {o1, o2}
    MaxLimit = 2
SPECIFICATION FairSpec
INVARIANTS
    TypeOK
    QueueOK
    HeldIsOwned
    NoLostWakeup
    BoundedByHighestLimit
PROPERTIES ImplementsSemaphore WaitersLeaveTheQueue
    ImplementsSemaphore
