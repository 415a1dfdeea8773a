SPECIFICATION LockFairSpec
CONSTANTS
    Txn = {1, 2, 3}
    Page = {1}
INVARIANTS
    LockTypeOK
    GrantedCompatible
    GrantedTracked
    OnlyConflictsWait
    HeldRecorded
PROPERTIES
    ImplementsLockTable
    AcquireEnds
