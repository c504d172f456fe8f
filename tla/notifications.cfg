SPECIFICATION Spec
CONSTANTS
    Users = {u1, u2}
    Tokens = {t1}
    Jobs = {j1}
    Runners = {r1, r2}
    Calls = {c1, c2}
    NoteIds <- MCNoteIds
    Attempts = 2
    MaxUpsets = 2
    MaxRequests = 1
    MaxPushes = 3
    Nobody = Nobody
SYMMETRY Sym
INVARIANTS
    JobsAccounted
    DevicesToldTruly
CHECK_DEADLOCK FALSE
