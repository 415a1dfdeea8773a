-------------------------- MODULE MCBufferManager --------------------------
(* BufferManager with two transactions, two pages and two frames: enough   *)
(* for locks held crosswise, shared pages, upgrades and recycled frames.   *)
EXTENDS BufferManager
=============================================================================
