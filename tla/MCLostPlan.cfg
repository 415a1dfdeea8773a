SPECIFICATION JoinSpec
CONSTANTS
    Table = {0, 1, 2, 3, 4, 5, 6, 7}
    Queries <- TestQuery
    BigTable = 5
    A = 0
    T1 = 6
    T2 = 7
    T1T2Card = 4
    T2T1Card = 1
    Statistics <- AllStatistics
    DBL_MAX = 100000
    Unset = {0, 100000}
INVARIANTS
    EveryJoinOrdered
CHECK_DEADLOCK FALSE
