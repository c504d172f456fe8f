CONSTANTS
    w1 = w1
    w2 = w2
    i1 = i1
    i2 = i2
    Messages = {m1, m2}
    Workers = {w1, w2}
    Instances = {i1, i2}
    InstanceOf <- TwoInstances
    Tools = {"write"}
    MaxIterations = 2
    MaxAttempts = 2
    Kinds = {"aiError", "toolError", "writeError", "toolTimeout", "storeError", "requestError", "reportError", "crash", "stall", "cancel", "disconnect", "deleteHistory"}
    MaxActs = 1
    NoWorker = NoWorker
    NoMessage = NoMessage
    NoTool = NoTool
SPECIFICATION FairSpec
INVARIANTS
    OnlyConfirmedWrites
    OneWritePerMessage
    ToldOnce
    CancelledForCause
PROPERTIES
    EveryMessageAnswered
CHECK_DEADLOCK FALSE
