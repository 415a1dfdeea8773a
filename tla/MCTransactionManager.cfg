SPECIFICATION Spec
CONSTANTS
    MaxTxns = 2
    MaxCheckpoints = 1
    TxnId = {1, 2}
    Value = {1, 2}
    Page = {0, 1}
    Slot = {1, 2}
    Empty = 0
    NotBuffered = NotBuffered
    FlushBeforeAbort = TRUE
    CrashInCalls = TRUE
    CrashAfterReuse = FALSE
INVARIANTS
    TypeOK
    Recoverable
    LoggedBeforeDisk
    ScanExact
    CommittedOnDisk
CHECK_DEADLOCK FALSE
