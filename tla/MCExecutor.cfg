SPECIFICATION FairSpec
CONSTANTS
    r1 = r1
    r2 = r2
    r3 = r3
    Requests = {r1, r2}
    Sources <- MCSources
    Runtimes = {"embedded", "full"}
    Keys <- MCKeys
    Modules <- MCModules
    Size <- MCSize
    Limit = 2
    Compilable <- MCCompilable
    MaxConcurrentCompiles = 1
    MaxOrphans = 1
    NoSubmission = NoSubmission
INVARIANTS
    SlotsAreHeld
    RunsWhatWasSubmitted
PROPERTIES
    EveryCallReturns
