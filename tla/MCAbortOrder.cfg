SPECIFICATION BufferSpec
CONSTANTS
    Txn = {1, 2}
    Page = {1}
    Frame = {f1, f2}
    NoFrame = NoFrame
    NoPage = NoPage
    AbortPaths = {"transaction_abort"}
INVARIANT
    NoAbortedWriteSeen
CHECK_DEADLOCK FALSE
