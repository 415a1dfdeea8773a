SPECIFICATION LockSpec
CONSTANTS
    Txn = {1, 2}
    Page = {1}
INVARIANT
    HeldCompatible
