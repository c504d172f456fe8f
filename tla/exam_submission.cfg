CONSTANTS
    w1 = w1
    w2 = w2
    Words = {w1, w2}
    Procs = {p1, p2}
    TextsOf <- Homonyms
    LanguageOf <- TwoLanguages
    LinksOf <- OneSubject
    PageSize = 1
    Assignments <- OneOrBoth
    Replies = {"a", "b"}
    StartRepeat = 1
    Repeats = {0, 2}
    MaxRepeat = 2
    MaxAttempts = 2
    MaxUpsets = 1
    MaxScore = 2
    NoWord = NoWord
    NoMastery = NoMastery
SPECIFICATION Spec
SYMMETRY Symmetry
INVARIANTS
    ScoreEarned
    AnswersCountedOnce
    PassesEarned
    ResultsOfOneExam
    DashboardAgrees
CHECK_DEADLOCK FALSE
