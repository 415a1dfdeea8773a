SPECIFICATION BufferFairSpec
CONSTANTS
    Txn = {1, 2}
    Page = {1, 2}
    Frame = {f1, f2}
    NoFrame = NoFrame
    NoPage = NoPage
    AbortPaths = {"transaction_abort", "abort_txn"}
INVARIANTS
    BufferTypeOK
    FramesConserved
    LockedPagesNoted
    DurableWhileClean
    IsolatedWhileClean
PROPERTIES
    PoolMutexReleased
CHECK_DEADLOCK FALSE
