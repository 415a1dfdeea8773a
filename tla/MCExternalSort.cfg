SPECIFICATION SortFairSpec
CONSTANTS
    Value = {1, 2, 3}
    MaxValues = 5
    OldSizes = {0, 2, 6}
    MemSizes = {8, 20, 24, 32}
INVARIANTS
    SortTypeOK
    ValuesConserved
    MergeOrdered
    BlocksWithinFiles
PROPERTIES
    ImplementsSortTask
    SortReturns
CHECK_DEADLOCK FALSE
