SPECIFICATION FairSpec
CONSTANTS
    f1 = f1
    f2 = f2
    a1 = a1
    c1 = c1
    Jobs = {f1, f2, a1, c1}
    Workers = {w1, w2}
    KindOf <- MCKinds
    MaxAttempts = 2
    MaxRepeat = 2
    MaxRequests = 2
    UserDeletes = {"audio"}
    FaultBudgets <- MCFaults
    NoJob = NoJob
    NoWorker = NoWorker
INVARIANTS
    WorkersOwnLock
    OutputOfOneJob
    PassesCountedOnce
PROPERTIES
    UserUnblocked
CHECK_DEADLOCK FALSE
