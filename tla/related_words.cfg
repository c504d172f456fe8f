SPECIFICATION Spec
CONSTANTS
    Ids <- MCIds
    Existing <- MCExisting
    Procs = {p1, p2}
    Rels = {synonym, antonym}
    MaxOps = 3
    MaxWords = 1
    NoProc = NoProc
INVARIANTS
    LinksMirrored
    OneRowPerPair
    DeadlockNeedsSecondBatch
PROPERTIES
    RequestsEnd
CHECK_DEADLOCK FALSE
