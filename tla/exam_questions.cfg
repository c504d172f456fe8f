SPECIFICATION Spec
CONSTANTS
    t1 = t1
    t2 = t2
    t3 = t3
    t4 = t4
    Trainers = {t1, t2, t3, t4}
    Requests = {r1, r2, r3, r4}
    QuestionType <- MCTypes
    MaxUpsets = 2
    None = None
SYMMETRY Sym
INVARIANTS
    WaitIsAnswered
    QuestionsAccounted
CHECK_DEADLOCK FALSE
