SPECIFICATION JoinFairSpec
CONSTANTS
    Table = {0, 1, 2, 3, 4, 5, 6, 7}
    Queries <- AllQueries
    BigTable = 5
    A = 0
    T1 = 6
    T2 = 7
    T1T2Card = 4
    T2T1Card = 1
    Statistics <- AllStatistics
    DBL_MAX = 100000
    Unset = {0, 100000}
INVARIANTS
    JoinTypeOK
    CachedPlansHaveNoCrossProduct
    CachedCostsAreEstimates
    OrderedUnlessUnset
    BigTableLast
PROPERTIES
    OrderReturned
CHECK_DEADLOCK FALSE
