CONSTANTS
    Sups = {1, 2}
    Existing = {1}
    Emails = {e1, e2}
    Calls = {c1, c2}
    MaxCalls = 3
    MaxFaults = 1
    NoRow = NoRow
    Slots = {r1, r2}
    Ips = {ip}
    Tokens <- MCTokens
    Watched <- MCWatched
    Budget <- MCBudget
SPECIFICATION PipelineSpec
SYMMETRY Symmetry
CHECK_DEADLOCK FALSE
INVARIANTS
    BothSidesAgree
    DispatchedAsDeclared
    DeactivatedLockedOut
PROPERTIES
    ThrottledByOwnRequests
