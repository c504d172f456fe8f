SPECIFICATION CacheSpec
CONSTANTS
    Calls = {c1, c2}
    MaxCuts = 1
SYMMETRY Sym
INVARIANTS
    StaleOnlyIfOverlapped
