--------------------------- MODULE MCLockManager ---------------------------
(* LockManager on a small instance: transactions 1..3 and pages 1..2 are   *)
(* given as plain numbers, since the code orders both.                     *)
EXTENDS LockManager
=============================================================================
