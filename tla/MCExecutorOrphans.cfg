SPECIFICATION Spec
CONSTANTS
    r1 = r1
    r2 = r2
    r3 = r3
    Requests = {r1,r2,r3}
    Sources <- SmallSources
    Runtimes = {"embedded", "full"}
    Keys <- MCKeys
    Modules <- MCModules
    Size <- MCSize
    Limit = 3
    Compilable <- MCCompilable
    MaxConcurrentCompiles = 2
    MaxOrphans = 1
    NoSubmission = NoSubmission
SYMMETRY Symmetry
INVARIANTS
    ContainerCeiling
