CONSTANTS
    Requests = {q1, q2}
    Pollers = {p1}
    Workers = {w1, w2}
    MaxEsc = 1
    MaxAttempts = 2
    MaxChain = 1
    BatchSize = 1
    UserEdits = {"delete"}
    SixthPass = TRUE
    FaultBudgets <- OneFault
    NoSlot = NoSlot
    NoWorker = NoWorker
SPECIFICATION Spec
SYMMETRY Symmetry
INVARIANTS
    SendExclusive
    MailedOnce
    OneLiveInitial
    SentHasEscalations
    CallsBounded
PROPERTIES
    TerminalIsFinal
    ImplementsIntent
