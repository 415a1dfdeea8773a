------------------------ MODULE MCTransactionManager ------------------------
(* TransactionManager on a small instance: the sets of numbers the code    *)
(* counts through (ids, pages, slots) are given element by element.        *)
EXTENDS TransactionManager
=============================================================================
