SPECIFICATION FairSpec
CONSTANTS
    NumFiles = 3
    Worker = {w1, w2}
INVARIANTS
    TidyTypeOK
    TasksCounted
    ReportExact
    ZeroMeansClean
    CleanUpUndisturbed
PROPERTIES
    EndsUnlessStuck
CHECK_DEADLOCK FALSE
