SPECIFICATION Spec
CONSTANTS
    Ids <- MCIds
    SubIds <- MCSubIds
    Foreign <- MCForeign
    Calls = {c1, c2}
    Workers = {w1, w2}
    Lower <- MCLower
    Empty = ""
    Translations = {"x"}
    Inputs <- MCInputs
    VocabLimit = 1
    SubjectLimit = 1
    Attempts = 2
    MaxCalls = 3
    MaxFaults = 2
    Nobody = Nobody
SYMMETRY Sym
INVARIANTS
    TranslationAccounted
    GuestQuota
    SubjectQuota
    ImportLands
CHECK_DEADLOCK FALSE
