SPECIFICATION HistorySpec
CONSTANTS
    k1 = k1
    k2 = k2
    k3 = k3
    Keys <- MCKeys
    Modules <- MCModules
    Size <- MCSize
    Limit <- MCLimit
INVARIANTS
    ListMatchesMap
    BytesAreAccounted
PROPERTIES
    EvictsLeastRecentlyUsed
    EvictsOnlyToBudget
    StoreContract
