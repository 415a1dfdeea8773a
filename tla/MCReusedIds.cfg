SPECIFICATION Spec
CONSTANTS
    MaxTxns = 2
    MaxCheckpoints = 0
    TxnId = {1, 2}
    Value = {1, 2}
    Page = {0, 1}
    Slot = {1, 2}
    Empty = 0
    NotBuffered = NotBuffered
    FlushBeforeAbort = TRUE
    CrashInCalls = FALSE
    CrashAfterReuse = TRUE
INVARIANT
    LosersGone
CHECK_DEADLOCK FALSE
