SPECIFICATION Spec
CONSTANTS
    Requests = {r1, r2}
    Codes <- MCCodes
    Checkable <- MCCheckable
    BreaksRules <- MCBreaksRules
    Compilable <- MCCodes
    Satisfying <- MCSatisfying
    Executes <- MCExecutes
    Runnable = TRUE
    HintAfter = 1
    SolutionAfter = 2
    Labels = {"typed"}
    DatabaseFails = TRUE
    MaxRows = 3
INVARIANTS
    StatusMatchesTimestamp
    HelpIsEarned
    OwnFailureCounts
    SoloIsUnaided
PROPERTIES
    NoSoloByRetyping
    VerdictsAreFair
SYMMETRY RequestSymmetry
