CONSTANTS
    Requests = {q1}
    Pollers = {p1}
    Workers = {w1}
    MaxEsc = 1
    MaxAttempts = 2
    MaxChain = 2
    BatchSize = 2
    UserEdits = {"disable"}
    SixthPass = FALSE
    FaultBudgets <- RecoveryFaults
    NoSlot = NoSlot
    NoWorker = NoWorker
SPECIFICATION FairSpec
PROPERTIES
    InFlightRecovered
