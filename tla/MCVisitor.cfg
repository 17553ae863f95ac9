SPECIFICATION Spec
CONSTANTS
    Tabs = {t1, t2}
    Lessons = {l1, l2, l3}
    HintAfter = 1
    SolutionAfter = 2
    MaxTracked = 2
    MaxTokens = 2
    MaxGraded = 4
SYMMETRY VisitorSymmetry
INVARIANTS
    HelpIsEarned
    TriesAreExact
    FormsStayGood
