------------------------ MODULE BufferManagerProofs ------------------------
(***************************************************************************)
(* What BufferManager guarantees for any transactions, pages and frames.   *)
(* It keeps to the lock manager's protocol, so that every invariant of the *)
(* lock manager carries over; BufferInv adds what joins the two: where a   *)
(* thread is in either, and which of its locked pages it has noted.        *)
(***************************************************************************)
EXTENDS BufferManager, LockManagerProofs

\* A frame being fixed, read or used is a frame, and so is its page.
RefAtBpc ==
    \A t \in Txn : bpc[t] \in {"fix", "load", "read", "use"} =>
                       ref[t].frame \in Frame /\ ref[t].page \in Page

\* A thread is in acquire_lock only in fix_page, which goes on when it returns ...
PcAtBpc ==
    \A t \in Txn :
        /\ pc[t] \in Acquire => bpc[t] \in {"fix", "load"}
        /\ bpc[t] \in {"fix", "load"} => pc[t] \in Acquire \cup {"thrown"}

\* ... and until it ends it has noted every page it has locked but the one it is about to.
LocksNoted ==
    \A t \in Txn : bpc[t] \in {"run", "fix", "load", "read", "use"} =>
        txn_locks[t] \subseteq txn_pages[t] \cup (IF pc[t] = "granted" THEN {req[t].page} ELSE {})

BufferInv ==
    /\ LockInv
    /\ BufferTypeOK
    /\ RefAtBpc
    /\ PcAtBpc
    /\ LocksNoted
    /\ FramesConserved

USE DEF Mode, Modes, Request, Acquire, Pcs, Goto

-----------------------------------------------------------------------------
(* The buffer manager is a client of the lock manager.                     *)

\* A step of a transaction, without the history variable that all of them share.
TxnStep(t) ==
    \/ \E p \in Page, m \in Mode : FixMapped(t, p, m) \/ FixUnmapped(t, p, m)
    \/ BufferStep(t) \/ FlushPages(t) \/ TransactionAbort(t) \/ AbortTxn(t)

LEMMA LockNextOfBufferNext == ASSUME [BufferNext]_bufferVars PROVE [LockNext]_lockVars
  <1>1. CASE UNCHANGED bufferVars
    BY <1>1 DEF bufferVars
  <1>2. ASSUME NEW t \in Txn, TxnStep(t)
        PROVE  [LockNext]_lockVars
    <2>1. CASE \E p \in Page, m \in Mode : FixMapped(t, p, m) \/ FixUnmapped(t, p, m)
      <3>1. \E p \in Page, m \in Mode : AcquireLock(t, p, m)
        BY <2>1, Zenon DEF FixMapped, FixUnmapped
      <3> QED BY <3>1, Zenon DEF LockNext
    <2>2. CASE InLockManager(t)
      BY <2>2, Zenon DEF InLockManager, LockNext
    <2>3. CASE FixLocked(t)
      BY <2>3, Zenon DEF FixLocked, LockNext
    <2>4. CASE CompleteReleases(t) \/ TransactionAbort(t)
      BY <2>4, Zenon DEF CompleteReleases, TransactionAbort, LockNext
    <2>5. CASE \/ ReadFrame(t) \/ UseFrame(t) \/ CompleteEnds(t)
               \/ AbortEnds(t) \/ FlushPages(t) \/ AbortTxn(t)
      BY <2>5, Zenon DEF ReadFrame, UseFrame, CompleteEnds, AbortEnds, FlushPages, AbortTxn
    <2> QED BY <1>2, <2>1, <2>2, <2>3, <2>4, <2>5 DEF TxnStep, BufferStep
  <1>3. BufferNext => \E t \in Txn : TxnStep(t)
    BY Zenon DEF BufferNext, TxnStep
  <1> QED BY <1>1, <1>2, <1>3

\* fix_page, transaction_complete and transaction_abort call acquire_lock and
\* release_all_locks only in the order and under the mutex that LockManager assumes.
THEOREM LockProtocolKept == BufferSpec => KeepsLockProtocol
  <1>1. BufferInit => LockInit
    BY DEF BufferInit
  <1>2. [BufferNext]_bufferVars => [LockNext]_lockVars
    BY LockNextOfBufferNext
  <1> QED BY <1>1, <1>2, PTL DEF BufferSpec, LockSpec, KeepsLockProtocol

\* Locks recorded for the clients of the buffer manager are compatible.
THEOREM BufferLocksCompatible == BufferSpec => []GrantedCompatible
  BY LockProtocolKept, RecordedLocksCompatible, PTL DEF KeepsLockProtocol

-----------------------------------------------------------------------------
(* BufferInv is inductive.                                                 *)

\* What a step inside the lock manager does to the calling thread and its locks.
LEMMA LockStepEffect ==
    ASSUME NEW t \in Txn, LockInv, LockStep(t)
    PROVE  /\ \A u \in Txn \ {t} : /\ pc'[u] = pc[u]
                                   /\ req'[u] = req[u]
                                   /\ txn_locks'[u] = txn_locks[u]
           /\ pc[t] # "granted"
           /\ pc[t] \in Acquire => pc'[t] \in Acquire \cup {"thrown"}
           /\ pc[t] \notin Acquire => pc'[t] \notin Acquire \cup {"thrown"}
           /\ pc[t] # "thrown"
           /\ txn_locks'[t] \subseteq
                 txn_locks[t] \cup (IF pc'[t] = "granted" THEN {req'[t].page} ELSE {})
  <1> USE DEF LockInv, LockTypeOK
  <1>1. CASE Scan(t)
    BY <1>1 DEF Scan
  <1>2. CASE CheckDeadlock(t)
    <2>1. PICK h \in req[t].holders :
             \/ /\ pc' = [pc EXCEPT ![t] = "thrown"]
                /\ req' = [req EXCEPT ![t] = NoRequest]
             \/ /\ pc' = [pc EXCEPT ![t] = IF req[t].holders \ {h} = {} THEN "grant"
                                           ELSE "deadlock"]
                /\ req' = [req EXCEPT ![t].holders = req[t].holders \ {h}]
      BY <1>2, Zenon DEF CheckDeadlock
    <2>2. pc[t] = "deadlock" /\ UNCHANGED txn_locks
      BY <1>2 DEF CheckDeadlock
    <2> QED BY <2>1, <2>2
  <1>3. CASE GrantLock(t)
    BY <1>3 DEF GrantLock
  <1>4. CASE WakeGrant(t) \/ WakeUpgrade(t) \/ Timeout(t)
    BY <1>4 DEF WakeGrant, WakeUpgrade, Timeout
  <1>5. CASE RecordLock(t)
    BY <1>5 DEF RecordLock
  <1>6. CASE ReleaseFrame(t)
    BY <1>6 DEF ReleaseFrame
  <1>7. CASE Untrack(t)
    BY <1>7 DEF Untrack
  <1> QED BY <1>1, <1>2, <1>3, <1>4, <1>5, <1>6, <1>7 DEF LockStep

LEMMA NoRefType == NoRef \in Ref
  BY DEF NoRef, Ref

\* A frame can be given another state with the same page.
LEMMA PoolUpdate ==
    ASSUME NEW P \in [Frame -> FrameState], NEW f \in Frame, NEW r \in FrameState,
           r.page = P[f].page
    PROVE  /\ [P EXCEPT ![f] = r] \in [Frame -> FrameState]
           /\ \A g \in Frame : [P EXCEPT ![f] = r][g].page = P[g].page
  OBVIOUS

LEMMA BufferInitInv == BufferInit => BufferInv
  <1> SUFFICES ASSUME BufferInit PROVE BufferInv
    OBVIOUS
  <1>1. LockInv
    BY LockInitInv DEF BufferInit
  <1>2. BufferTypeOK
    BY NoRefType DEF BufferInit, BufferTypeOK, FrameState, Content, BufferPcs
  <1>3. RefAtBpc /\ PcAtBpc /\ LocksNoted
    BY DEF BufferInit, LockInit, RefAtBpc, PcAtBpc, LocksNoted
  <1>4. FramesConserved
    BY BufferAssumption DEF BufferInit, FramesConserved
  <1> QED BY <1>1, <1>2, <1>3, <1>4 DEF BufferInv

\* The page is in the pool: the frame returned is the one it is mapped to.
LEMMA FixMappedInv ==
    ASSUME NEW t \in Txn, NEW p \in Page, NEW m \in Mode, BufferInv, LockInv',
           clean' \in BOOLEAN, FixMapped(t, p, m)
    PROVE  BufferInv'
  <1> USE DEF BufferInv, FixMapped, At, Running, history
  <1>1. page_table[p] \in Frame /\ pc[t] = "idle" /\ bpc[t] = "run"
    BY DEF BufferTypeOK
  <1>2. BufferTypeOK'
    BY <1>1 DEF BufferTypeOK, BufferPcs, Ref
  <1>3. RefAtBpc'
    BY <1>1 DEF RefAtBpc, BufferTypeOK
  <1>4. PcAtBpc'
    BY <1>1 DEF PcAtBpc, BufferTypeOK, AcquireLock, LockInv, LockTypeOK
  <1>5. LocksNoted'
    BY <1>1 DEF LocksNoted, BufferTypeOK, AcquireLock, LockInv, LockTypeOK
  <1>6. FramesConserved'
    BY DEF FramesConserved
  <1> QED BY <1>2, <1>3, <1>4, <1>5, <1>6

\* It is not: a free frame, mapped by no page, is mapped by p alone.
LEMMA FixUnmappedInv ==
    ASSUME NEW t \in Txn, NEW p \in Page, NEW m \in Mode, BufferInv, LockInv',
           clean' \in BOOLEAN, FixUnmapped(t, p, m)
    PROVE  BufferInv'
  <1> USE DEF BufferInv, At, Running
  <1>1. PICK f \in free_frames :
           /\ free_frames' = free_frames \ {f}
           /\ page_table' = [page_table EXCEPT ![p] = f]
           /\ pool' = [pool EXCEPT ![f].page = p]
           /\ ref' = [ref EXCEPT ![t] = [frame |-> f, page |-> p, mode |-> m]]
           /\ loaded' = [loaded EXCEPT ![f] = FALSE]
    BY Zenon DEF FixUnmapped
  <1>2. /\ page_table[p] = NoFrame
        /\ AcquireLock(t, p, m)
        /\ bpc[t] = "run" /\ pc[t] = "idle"
        /\ txn_pages' = [txn_pages EXCEPT ![t] = @ \cup {p}]
        /\ bpc' = [bpc EXCEPT ![t] = "load"]
        /\ UNCHANGED <<disk, committed, wrote>>
    BY DEF FixUnmapped
  <1>3. f \in Frame
    BY DEF BufferTypeOK
  <1>4. BufferTypeOK'
    <2>1. pool' \in [Frame -> FrameState]
      BY <1>1, <1>3 DEF BufferTypeOK, FrameState
    <2>2. /\ page_table' \in [Page -> Frame \cup {NoFrame}]
          /\ free_frames' \subseteq Frame
          /\ txn_pages' \in [Txn -> SUBSET Page]
          /\ bpc' \in [Txn -> BufferPcs]
          /\ loaded' \in [Frame -> BOOLEAN]
      BY <1>1, <1>2, <1>3 DEF BufferTypeOK, BufferPcs
    <2>3. ref' \in [Txn -> Ref]
      BY <1>1, <1>3 DEF BufferTypeOK, Ref
    <2> QED BY <1>2, <2>1, <2>2, <2>3 DEF BufferTypeOK
  <1>5. RefAtBpc'
    BY <1>1, <1>2, <1>3 DEF RefAtBpc, BufferTypeOK
  <1>6. PcAtBpc'
    BY <1>2 DEF PcAtBpc, BufferTypeOK, AcquireLock, LockInv, LockTypeOK
  <1>7. LocksNoted'
    BY <1>2 DEF LocksNoted, BufferTypeOK, AcquireLock, LockInv, LockTypeOK
  <1>8. FramesConserved'
    <2>1. \A q \in Page : page_table[q] # f
      BY <1>3 DEF FramesConserved
    <2>2. \A q \in Page : page_table'[q] = IF q = p THEN f ELSE page_table[q]
      BY <1>1 DEF BufferTypeOK
    <2>3. \A g \in Frame : pool'[g].page = IF g = f THEN p ELSE pool[g].page
      BY <1>1, <1>3 DEF BufferTypeOK, FrameState
    <2>4. \A q \in Page : page_table[q] # NoFrame => page_table[q] \in Frame
      BY DEF BufferTypeOK
    <2>5. NoFrame \notin Frame /\ f # NoFrame /\ free_frames \subseteq Frame
      BY <1>3, BufferAssumption DEF BufferTypeOK
    <2>6. \A g \in Frame : g \in free_frames' <=> \A q \in Page : page_table'[q] # g
      <3>1. \A g \in Frame : g \in free_frames <=> \A q \in Page : page_table[q] # g
        BY DEF FramesConserved
      <3> QED BY <1>1, <1>2, <2>2, <2>5, <3>1
    <2>7. \A q, r \in Page : (q # r /\ page_table'[q] # NoFrame) => page_table'[q] # page_table'[r]
      BY <2>1, <2>2, <2>5 DEF FramesConserved
    <2>8. \A q \in Page : page_table'[q] # NoFrame => pool'[page_table'[q]].page = q
      BY <1>3, <2>1, <2>2, <2>3, <2>4 DEF FramesConserved
    <2>9. \A g \in free_frames' : pool'[g].page = NoPage
      BY <1>1, <2>3, <2>5 DEF FramesConserved
    <2> QED BY <2>6, <2>7, <2>8, <2>9 DEF FramesConserved
  <1> QED BY <1>4, <1>5, <1>6, <1>7, <1>8

\* A step inside the lock manager: what it tracks it has noted, or is about to note.
LEMMA InLockManagerInv ==
    ASSUME NEW t \in Txn, BufferInv, LockInv', clean' \in BOOLEAN, InLockManager(t)
    PROVE  BufferInv'
  <1> USE DEF BufferInv, InLockManager, codeVars, history
  <1>1. BufferTypeOK'
    BY DEF BufferTypeOK
  <1>2. RefAtBpc'
    BY DEF RefAtBpc
  <1>3. PcAtBpc'
    BY LockStepEffect DEF PcAtBpc
  <1>4. LocksNoted'
    <2> SUFFICES ASSUME NEW u \in Txn, bpc[u] \in {"run", "fix", "load", "read", "use"}
                 PROVE  txn_locks'[u] \subseteq txn_pages[u] \cup
                            (IF pc'[u] = "granted" THEN {req'[u].page} ELSE {})
      BY DEF LocksNoted
    <2>1. CASE u = t
      BY <2>1, LockStepEffect DEF LocksNoted
    <2>2. CASE u # t
      BY <2>2, LockStepEffect DEF LocksNoted
    <2> QED BY <2>1, <2>2
  <1>5. FramesConserved'
    BY DEF FramesConserved
  <1> QED BY <1>1, <1>2, <1>3, <1>4, <1>5

\* The return of acquire_lock to fix_page, which notes the page.
LEMMA FixLockedInv ==
    ASSUME NEW t \in Txn, BufferInv, LockInv', clean' \in BOOLEAN, FixLocked(t)
    PROVE  BufferInv'
  <1> USE DEF BufferInv, FixLocked, AcquireReturns, At, history
  <1>1. req[t].page \in Page /\ bpc[t] \in {"fix", "load"}
    BY DEF LockInv, LockTypeOK, PcAtBpc
  <1>2. BufferTypeOK'
    BY <1>1 DEF BufferTypeOK, BufferPcs
  <1>3. RefAtBpc'
    BY <1>1 DEF RefAtBpc, BufferTypeOK
  <1>4. PcAtBpc'
    BY <1>1 DEF PcAtBpc, BufferTypeOK, LockInv, LockTypeOK
  <1>5. LocksNoted'
    BY <1>1 DEF LocksNoted, BufferTypeOK, LockInv, LockTypeOK
  <1>6. FramesConserved'
    BY DEF FramesConserved
  <1> QED BY <1>2, <1>3, <1>4, <1>5, <1>6

\* Reading and using a frame leaves it where it is in the pool.
LEMMA ReadFrameInv ==
    ASSUME NEW t \in Txn, BufferInv, LockInv', clean' \in BOOLEAN, ReadFrame(t)
    PROVE  BufferInv'
  <1> USE DEF BufferInv, ReadFrame, At, lockVars
  <1> DEFINE f == ref[t].frame
  <1>1. f \in Frame /\ bpc[t] = "read"
    BY DEF RefAtBpc
  <1>2. /\ pool' \in [Frame -> FrameState]
        /\ \A g \in Frame : pool'[g].page = pool[g].page
    <2>1. CASE pool[f].page = NoPage
      BY <2>1 DEF BufferTypeOK
    <2>2. CASE pool[f].page # NoPage
      <3>1. disk[pool[f].page] \in Content
        BY <1>1, <2>2 DEF BufferTypeOK, FrameState
      <3>2. pool' = [pool EXCEPT ![f].data = disk[pool[f].page]]
        BY <2>2
      <3>3. pool \in [Frame -> FrameState]
        BY DEF BufferTypeOK
      <3>4. ASSUME NEW r \in FrameState, NEW d \in Content
            PROVE  [r EXCEPT !.data = d] \in FrameState /\ [r EXCEPT !.data = d].page = r.page
        <4> HIDE DEF Content
        <4> QED BY DEF FrameState
      <3>5. pool' = [pool EXCEPT ![f] = [pool[f] EXCEPT !.data = disk[pool[f].page]]]
        BY <3>2, Zenon
      <3>6. pool[f] \in FrameState
        BY <1>1, <3>3, Zenon
      <3> HIDE DEF f, Content, FrameState, ReadFrame, BufferInv
      <3> QED BY <1>1, <3>1, <3>3, <3>4, <3>5, <3>6, PoolUpdate
    <2> QED BY <2>1, <2>2
  <1>3. BufferTypeOK'
    BY <1>1, <1>2 DEF BufferTypeOK, BufferPcs
  <1>4. RefAtBpc'
    BY <1>1 DEF RefAtBpc, BufferTypeOK
  <1>5. PcAtBpc'
    BY <1>1 DEF PcAtBpc, BufferTypeOK
  <1>6. LocksNoted'
    BY <1>1 DEF LocksNoted, BufferTypeOK
  <1>7. FramesConserved'
    BY <1>2 DEF FramesConserved, BufferTypeOK
  <1> QED BY <1>3, <1>4, <1>5, <1>6, <1>7

LEMMA UseFrameInv ==
    ASSUME NEW t \in Txn, BufferInv, LockInv', clean' \in BOOLEAN, UseFrame(t)
    PROVE  BufferInv'
  <1> USE DEF BufferInv, UseFrame, At, lockVars
  <1> DEFINE f == ref[t].frame
  <1>1. f \in Frame /\ ref[t].page \in Page /\ bpc[t] = "use"
    BY DEF RefAtBpc
  <1>2. /\ pool' \in [Frame -> FrameState]
        /\ \A g \in Frame : pool'[g].page = pool[g].page
        /\ wrote' \in [Txn -> SUBSET Page]
    <2>1. CASE ref[t].mode = "exclusive"
      <3>1. pool' = [pool EXCEPT ![f].data.last = t, ![f].dirty = TRUE]
        BY <2>1
      <3>2. wrote' = [wrote EXCEPT ![t] = @ \cup {ref[t].page}]
        BY <2>1
      <3>3. pool \in [Frame -> FrameState]
        BY DEF BufferTypeOK
      <3>4. ASSUME NEW r \in FrameState
            PROVE  /\ [r EXCEPT !.data.last = t, !.dirty = TRUE] \in FrameState
                   /\ [r EXCEPT !.data.last = t, !.dirty = TRUE].page = r.page
        BY DEF FrameState, Content
      <3>5. /\ pool' \in [Frame -> FrameState]
            /\ \A g \in Frame : pool'[g].page = pool[g].page
        <4>1. pool' = [pool EXCEPT ![f] = [pool[f] EXCEPT !.data.last = t, !.dirty = TRUE]]
          BY <3>1
        <4>2. pool[f] \in FrameState
          BY <1>1, <3>3, Zenon
        <4> HIDE DEF f, FrameState, UseFrame, BufferInv
        <4> QED BY <1>1, <3>3, <3>4, <4>1, <4>2, PoolUpdate
      <3>6. wrote' \in [Txn -> SUBSET Page]
        BY <1>1, <3>2 DEF BufferTypeOK
      <3> QED BY <3>5, <3>6
    <2>2. CASE ref[t].mode # "exclusive"
      BY <2>2 DEF BufferTypeOK
    <2> QED BY <2>1, <2>2
  <1>3. BufferTypeOK'
    BY <1>1, <1>2, NoRefType DEF BufferTypeOK, BufferPcs
  <1>4. RefAtBpc'
    BY <1>1 DEF RefAtBpc, BufferTypeOK
  <1>5. PcAtBpc'
    BY <1>1 DEF PcAtBpc, BufferTypeOK
  <1>6. LocksNoted'
    BY <1>1 DEF LocksNoted, BufferTypeOK
  <1>7. FramesConserved'
    BY <1>2 DEF FramesConserved, BufferTypeOK
  <1> QED BY <1>3, <1>4, <1>5, <1>6, <1>7

-----------------------------------------------------------------------------
(* The end of a transaction.                                               *)

\* A flush writes bytes out and cleans frames; it moves none.
LEMMA FlushPagesInv ==
    ASSUME NEW t \in Txn, BufferInv, LockInv', clean' \in BOOLEAN, FlushPages(t)
    PROVE  BufferInv'
  <1> USE DEF BufferInv, FlushPages, At, lockVars
  <1>1. /\ disk' = [p \in Page |-> IF p \in DirtyPages(t) THEN pool[page_table[p]].data ELSE disk[p]]
        /\ pool' = [f \in Frame |-> IF \E p \in DirtyPages(t) : page_table[p] = f
                                   THEN [pool[f] EXCEPT !.dirty = FALSE] ELSE pool[f]]
    BY Zenon
  <1>2. disk' \in [Page -> Content]
    <2>1. \A p \in DirtyPages(t) : page_table[p] \in Frame
      BY DEF DirtyPages, BufferTypeOK
    <2>2. \A f \in Frame : pool[f].data \in Content
      BY DEF BufferTypeOK, FrameState
    <2> HIDE DEF Content
    <2> QED BY <1>1, <2>1, <2>2 DEF BufferTypeOK
  <1>3. /\ pool' \in [Frame -> FrameState]
        /\ \A f \in Frame : pool'[f].page = pool[f].page
    <2>1. ASSUME NEW r \in FrameState
          PROVE  [r EXCEPT !.dirty = FALSE] \in FrameState /\ [r EXCEPT !.dirty = FALSE].page = r.page
      BY DEF FrameState
    <2> HIDE DEF FrameState
    <2> QED BY <1>1, <2>1 DEF BufferTypeOK
  <1>4. BufferTypeOK'
    BY <1>2, <1>3 DEF BufferTypeOK, BufferPcs
  <1>5. RefAtBpc'
    BY DEF RefAtBpc, BufferTypeOK
  <1>6. PcAtBpc'
    BY DEF PcAtBpc, BufferTypeOK, Running
  <1>7. LocksNoted'
    BY DEF LocksNoted, BufferTypeOK
  <1>8. FramesConserved'
    BY <1>3 DEF FramesConserved, BufferTypeOK
  <1> QED BY <1>4, <1>5, <1>6, <1>7, <1>8

\* So does handing the locks back, and the steps around it.
LEMMA ReleaseInv ==
    ASSUME NEW t \in Txn, BufferInv, LockInv', clean' \in BOOLEAN,
           CompleteReleases(t) \/ CompleteEnds(t) \/ TransactionAbort(t)
    PROVE  BufferInv'
  <1> USE DEF BufferInv, At, lockVars
  <1>1. CASE CompleteReleases(t)
    <2> USE <1>1 DEF CompleteReleases, ReleaseAllLocks, history
    <2>1. BufferTypeOK' BY DEF BufferTypeOK, BufferPcs
    <2>2. RefAtBpc' BY DEF RefAtBpc, BufferTypeOK
    <2>3. PcAtBpc' BY DEF PcAtBpc, BufferTypeOK, LockInv, LockTypeOK
    <2>4. LocksNoted' BY DEF LocksNoted, BufferTypeOK, LockInv, LockTypeOK
    <2>5. FramesConserved' BY DEF FramesConserved
    <2> QED BY <2>1, <2>2, <2>3, <2>4, <2>5
  <1>2. CASE CompleteEnds(t)
    <2> USE <1>2 DEF CompleteEnds, history
    <2>1. BufferTypeOK' BY DEF BufferTypeOK, BufferPcs
    <2>2. RefAtBpc' BY DEF RefAtBpc, BufferTypeOK
    <2>3. PcAtBpc' BY DEF PcAtBpc, BufferTypeOK
    <2>4. LocksNoted' BY DEF LocksNoted, BufferTypeOK
    <2>5. FramesConserved' BY DEF FramesConserved
    <2> QED BY <2>1, <2>2, <2>3, <2>4, <2>5
  <1>3. CASE TransactionAbort(t)
    <2> USE <1>3, NoRefType DEF TransactionAbort, ReleaseAllLocks
    <2>1. BufferTypeOK' BY DEF BufferTypeOK, BufferPcs
    <2>2. RefAtBpc' BY DEF RefAtBpc, BufferTypeOK
    <2>3. PcAtBpc' BY DEF PcAtBpc, BufferTypeOK, LockInv, LockTypeOK
    <2>4. LocksNoted' BY DEF LocksNoted, BufferTypeOK, LockInv, LockTypeOK
    <2>5. FramesConserved' BY DEF FramesConserved
    <2> QED BY <2>1, <2>2, <2>3, <2>4, <2>5
  <1> QED BY <1>1, <1>2, <1>3

\* Discarding unmaps a page and frees its frame together, and never frees one twice.
LEMMA DiscardPagesFrames ==
    ASSUME NEW t \in Txn, BufferTypeOK, FramesConserved, DiscardPages(t)
    PROVE  /\ page_table' \in [Page -> Frame \cup {NoFrame}]
           /\ pool' \in [Frame -> FrameState]
           /\ free_frames' \subseteq Frame
           /\ txn_pages' \in [Txn -> SUBSET Page]
           /\ FramesConserved'
  <1> DEFINE gone == {p \in txn_pages[t] : page_table[p] # NoFrame}
             freed == {page_table[p] : p \in gone}
  <1>1. /\ page_table' = [p \in Page |-> IF p \in gone THEN NoFrame ELSE page_table[p]]
        /\ pool' = [f \in Frame |-> IF f \in freed
                                    THEN [pool[f] EXCEPT !.page = NoPage, !.dirty = FALSE]
                                    ELSE pool[f]]
        /\ free_frames' = free_frames \cup freed
        /\ txn_pages' = [txn_pages EXCEPT ![t] = {}]
    BY DEF DiscardPages
  <1>2. gone \subseteq Page /\ freed \subseteq Frame
    BY DEF BufferTypeOK
  <1>3. \A p \in Page : page_table[p] \in freed <=> p \in gone
    BY <1>2 DEF FramesConserved
  <1>4. NoFrame \notin Frame
    BY BufferAssumption
  <1>5. pool' \in [Frame -> FrameState] /\ \A f \in Frame :
            pool'[f].page = IF f \in freed THEN NoPage ELSE pool[f].page
    <2>1. ASSUME NEW r \in FrameState
          PROVE  /\ [r EXCEPT !.page = NoPage, !.dirty = FALSE] \in FrameState
                 /\ [r EXCEPT !.page = NoPage, !.dirty = FALSE].page = NoPage
      BY DEF FrameState
    <2>2. pool \in [Frame -> FrameState]
      BY DEF BufferTypeOK
    <2> HIDE DEF FrameState, gone, freed
    <2>3. \A f \in Frame : pool[f] \in FrameState
      BY <2>2
    <2> QED BY <1>1, <2>1, <2>3
  <1> HIDE DEF gone, freed
  <1>6. /\ page_table' \in [Page -> Frame \cup {NoFrame}]
        /\ free_frames' \subseteq Frame
        /\ txn_pages' \in [Txn -> SUBSET Page]
    BY <1>1, <1>2 DEF BufferTypeOK
  <1>7. \A f \in Frame : f \in free_frames' <=> \A p \in Page : page_table'[p] # f
    <2> SUFFICES ASSUME NEW f \in Frame
                 PROVE  f \in free_frames' <=> \A p \in Page : page_table'[p] # f
      OBVIOUS
    <2>1. f \in free_frames <=> \A p \in Page : page_table[p] # f
      BY DEF FramesConserved
    <2>2. f \in freed => \E p \in gone : page_table[p] = f
      BY DEF freed
    <2> QED BY <1>1, <1>2, <1>3, <1>4, <2>1, <2>2
  <1>8. \A p, q \in Page : (p # q /\ page_table'[p] # NoFrame) => page_table'[p] # page_table'[q]
    BY <1>1 DEF FramesConserved
  <1>9. \A p \in Page : page_table'[p] # NoFrame => pool'[page_table'[p]].page = p
    <2> SUFFICES ASSUME NEW p \in Page, page_table'[p] # NoFrame
                 PROVE  pool'[page_table'[p]].page = p
      OBVIOUS
    <2>1. page_table'[p] = page_table[p] /\ p \notin gone /\ page_table[p] # NoFrame
      BY <1>1
    <2>2. page_table[p] \in Frame /\ page_table[p] \notin freed
      BY <1>3, <2>1 DEF BufferTypeOK
    <2> QED BY <1>5, <2>1, <2>2 DEF FramesConserved
  <1>10. \A f \in free_frames' : pool'[f].page = NoPage
    BY <1>1, <1>2, <1>5 DEF FramesConserved, BufferTypeOK
  <1> QED BY <1>5, <1>6, <1>7, <1>8, <1>9, <1>10 DEF FramesConserved

LEMMA AbortInv ==
    ASSUME NEW t \in Txn, BufferInv, LockInv', clean' \in BOOLEAN,
           AbortEnds(t) \/ AbortTxn(t)
    PROVE  BufferInv'
  <1>1. DiscardPages(t)
    BY DEF AbortEnds, AbortTxn
  <1>2. /\ page_table' \in [Page -> Frame \cup {NoFrame}]
        /\ pool' \in [Frame -> FrameState]
        /\ free_frames' \subseteq Frame
        /\ txn_pages' \in [Txn -> SUBSET Page]
        /\ FramesConserved'
    BY <1>1, DiscardPagesFrames DEF BufferInv
  <1>3. txn_pages' = [txn_pages EXCEPT ![t] = {}]
    BY <1>1 DEF DiscardPages
  <1>4. /\ \E place \in {"done", "discarded"} : bpc' = [bpc EXCEPT ![t] = place]
        /\ ref' = ref \/ ref' = [ref EXCEPT ![t] = NoRef]
        /\ wrote' = wrote \/ wrote' = [wrote EXCEPT ![t] = {}]
        /\ bpc[t] = "aborting" \/ Running(t) \/ pc[t] = "thrown"
        /\ pc[t] = "thrown" => bpc'[t] = "discarded"
        /\ UNCHANGED <<pc, req, txn_locks, disk, committed, loaded>>
    BY DEF AbortEnds, AbortTxn, MayAbort, At, lockVars, history, BufferInv, BufferTypeOK
  <1> USE DEF BufferInv
  <1>5. BufferTypeOK'
    BY <1>2, <1>4, NoRefType DEF BufferTypeOK, BufferPcs
  <1>6. RefAtBpc'
    BY <1>4 DEF RefAtBpc, BufferTypeOK
  <1>7. PcAtBpc'
    BY <1>4 DEF PcAtBpc, BufferTypeOK, Running
  <1>8. LocksNoted'
    BY <1>3, <1>4 DEF LocksNoted, BufferTypeOK
  <1> QED BY <1>2, <1>5, <1>6, <1>7, <1>8

LEMMA BufferNextInv == ASSUME BufferInv, LockInv', [BufferNext]_bufferVars PROVE BufferInv'
  <1>1. CASE UNCHANGED bufferVars
    <2> USE <1>1 DEF BufferInv, bufferVars, lockVars, codeVars, history
    <2>1. BufferTypeOK' BY DEF BufferTypeOK
    <2>2. RefAtBpc' /\ PcAtBpc' /\ LocksNoted' BY DEF RefAtBpc, PcAtBpc, LocksNoted
    <2>3. FramesConserved' BY DEF FramesConserved
    <2> QED BY <2>1, <2>2, <2>3
  <1>2. CASE BufferNext
    <2>1. clean' \in BOOLEAN
      BY <1>2 DEF BufferNext
    <2>2. PICK t \in Txn : TxnStep(t)
      BY <1>2, Zenon DEF BufferNext, TxnStep
    <2>3. CASE \E p \in Page, m \in Mode : FixMapped(t, p, m) \/ FixUnmapped(t, p, m)
      BY <2>1, <2>3, FixMappedInv, FixUnmappedInv
    <2>4. CASE InLockManager(t) \/ FixLocked(t) \/ ReadFrame(t) \/ UseFrame(t)
      BY <2>1, <2>4, InLockManagerInv, FixLockedInv, ReadFrameInv, UseFrameInv
    <2>5. CASE CompleteReleases(t) \/ CompleteEnds(t) \/ TransactionAbort(t)
      BY <2>1, <2>5, ReleaseInv
    <2>6. CASE FlushPages(t) \/ AbortEnds(t) \/ AbortTxn(t)
      BY <2>1, <2>6, FlushPagesInv, AbortInv
    <2> QED BY <2>2, <2>3, <2>4, <2>5, <2>6 DEF TxnStep, BufferStep
  <1> QED BY <1>1, <1>2

\* BufferInv is an invariant of the buffer manager; LockInv, one of its conjuncts, is known
\* from the protocol it keeps.
THEOREM BufferInvariant == BufferSpec => []BufferInv
  <1>1. BufferSpec => []LockInv
    BY LockProtocolKept, LockInvariant, PTL DEF KeepsLockProtocol
  <1>2. LockInv' /\ BufferInv /\ [BufferNext]_bufferVars => BufferInv'
    BY BufferNextInv
  <1> QED BY <1>1, <1>2, BufferInitInv, PTL DEF BufferSpec

\* Type correctness, as the invariant the run checks.
THEOREM BufferTypeCorrect == BufferSpec => []BufferTypeOK
  <1>1. BufferInv => BufferTypeOK BY DEF BufferInv
  <1> QED BY <1>1, BufferInvariant, PTL

\* No frame leaks and none is mapped twice, however fixes fail and discards are ordered.
THEOREM NoFrameIsLost == BufferSpec => []FramesConserved
  <1>1. BufferInv => FramesConserved BY DEF BufferInv
  <1> QED BY <1>1, BufferInvariant, PTL

\* What transaction_complete flushes covers every page the transaction has locked.
THEOREM FlushCoversLockedPages == BufferSpec => []LockedPagesNoted
  <1>1. BufferInv => LockedPagesNoted
    BY DEF BufferInv, LocksNoted, LockedPagesNoted, Running
  <1> QED BY <1>1, BufferInvariant, PTL

-----------------------------------------------------------------------------
(* Commits of lab 3 are durable and isolated until the first abort,        *)
(* refused lock or lost upgrade, for any transactions, pages and frames.   *)
(*                                                                         *)
(* Isolated is what is inductive until then: a writer of a page is alone   *)
(* on it until its flush, so that a frame is either written by one         *)
(* transaction that has noted its page, or is what was committed last.     *)
(* The hard part is a frame that is mapped and not yet read, which a       *)
(* second transaction may be given to use: it must not write it.           *)

\* No abort is under way, and every exclusive lock held is recorded as one.
NoneAborts ==
    \A t \in Txn : /\ pc[t] # "thrown"
                   /\ bpc[t] \notin {"aborting", "discarded"}
                   /\ Unrecorded(t) = {}

\* A page being fixed or used is mapped to the frame its fix_page returns, and what has
\* been returned is locked and noted.
AtPage ==
    \A t \in Txn : bpc[t] \in {"fix", "load", "read", "use"} =>
        LET p == ref[t].page
        IN  /\ ref[t].mode \in Mode
            /\ page_table[p] = ref[t].frame
            /\ pc[t] \in Acquire => req[t].page = p /\ req[t].mode = ref[t].mode
            /\ bpc[t] \in {"read", "use"} =>
                  /\ p \in txn_pages[t]
                  /\ held[t][p] # "none"
                  /\ ref[t].mode = "exclusive" => held[t][p] = "exclusive"

\* A transaction still at work; it is so from its start to its flush.
Working(t) == bpc[t] \in {"run", "fix", "load", "read", "use"}

\* Pages are locked while they are in the pool, and noted pages are locked.
LocksOfPages ==
    /\ \A p \in Page : page_table[p] = NoFrame => \A t \in Txn : held[t][p] = "none"
    /\ \A t \in Txn : Working(t) =>
          \A p \in txn_pages[t] :
              held[t][p] # "none" \/ (bpc[t] = "load" /\ ref[t].page = p)

Loads(t) == bpc[t] \in {"load", "read"}

\* A page that is not read yet has one thread on its way to read it; before that thread has
\* its lock, nobody has one.
Loading ==
    /\ \A p \in Page : (page_table[p] # NoFrame /\ ~loaded[page_table[p]]) =>
          \E t \in Txn : Loads(t) /\ ref[t].page = p
    /\ \A t \in Txn : Loads(t) => ~loaded[ref[t].frame]
    /\ \A t, u \in Txn : (t # u /\ Loads(t) /\ Loads(u)) => ref[t].page # ref[u].page
    /\ \A t, u \in Txn : bpc[t] = "load" => held[u][ref[t].page] = "none"

\* What a transaction has written is in the frame, and locked and noted until the flush.
Written ==
    \A t \in Txn : \A p \in wrote[t] :
        /\ Working(t)
        /\ held[t][p] = "exclusive"
        /\ p \in txn_pages[t]
        /\ page_table[p] # NoFrame
        /\ loaded[page_table[p]]
        /\ pool[page_table[p]].dirty
        /\ pool[page_table[p]].data = [base |-> p, last |-> t]

\* All other frames are clean, and hold what was committed last.
Unwritten ==
    /\ \A f \in free_frames : ~pool[f].dirty
    /\ \A p \in Page : (page_table[p] # NoFrame /\ \A t \in Txn : p \notin wrote[t]) =>
          /\ ~pool[page_table[p]].dirty
          /\ loaded[page_table[p]] =>
                pool[page_table[p]].data = [base |-> p, last |-> committed[p]]

DiskExact == \A p \in Page : disk[p] = [base |-> p, last |-> committed[p]]

Isolated ==
    /\ NoneAborts
    /\ AtPage
    /\ LocksOfPages
    /\ Loading
    /\ Written
    /\ Unwritten
    /\ DiskExact

CleanInv == clean => Isolated

USE DEF Mode, Modes, Request, Acquire, Pcs, Goto

-----------------------------------------------------------------------------
(* What locks and frames give.                                             *)

\* Who holds a page exclusively holds it alone.
LEMMA HeldAlone ==
    ASSUME BufferInv, NoneAborts, NEW t \in Txn, NEW u \in Txn, t # u, NEW p \in Page,
           held[t][p] = "exclusive"
    PROVE  held[u][p] = "none"
  <1>1. LockTypeOK /\ GrantedCompatible /\ HeldRecorded
    BY DEF BufferInv, LockInv
  <1>2. granted[p][t] = "exclusive"
    BY DEF NoneAborts, Unrecorded
  <1>3. granted[p][u] = "none"
    BY <1>1, <1>2 DEF GrantedCompatible
  <1> QED BY <1>1, <1>3 DEF HeldRecorded

\* So nobody but a holder has written a page.
LEMMA WrittenByHolder ==
    ASSUME BufferInv, Isolated, NEW t \in Txn, NEW u \in Txn, t # u, NEW p \in Page,
           held[t][p] # "none"
    PROVE  p \notin wrote[u]
  BY HeldAlone DEF Isolated, Written

LEMMA FramesDiffer ==
    ASSUME BufferInv, NEW p \in Page, NEW q \in Page, p # q, page_table[p] # NoFrame
    PROVE  /\ page_table[p] # page_table[q] /\ page_table[p] \in Frame
           /\ page_table[p] \notin free_frames
  BY DEF BufferInv, FramesConserved, BufferTypeOK

LEMMA FrameOfPage ==
    ASSUME BufferInv, NEW p \in Page, page_table[p] # NoFrame
    PROVE  /\ page_table[p] \in Frame /\ page_table[p] \notin free_frames
           /\ pool[page_table[p]].page = p /\ pool[page_table[p]] \in FrameState
  BY DEF BufferInv, FramesConserved, BufferTypeOK

\* The page and the frame of a fix, while pages are not unmapped.
LEMMA PageInUse ==
    ASSUME BufferInv, Isolated, NEW t \in Txn, bpc[t] \in {"fix", "load", "read", "use"}
    PROVE  /\ ref[t].page \in Page /\ ref[t].frame \in Frame
           /\ page_table[ref[t].page] = ref[t].frame
           /\ page_table[ref[t].page] # NoFrame
  BY BufferAssumption DEF BufferInv, RefAtBpc, Isolated, AtPage

\* A step in acquire_lock keeps the arguments, and no step inside the lock manager tells
\* anyone of a lock.
LEMMA LockStepLocals ==
    ASSUME NEW t \in Txn, LockInv, LockStep(t)
    PROVE  /\ held' = held
           /\ pc'[t] \in Acquire =>
                 /\ pc[t] \in Acquire
                 /\ req'[t].page = req[t].page /\ req'[t].mode = req[t].mode
  <1> USE DEF LockInv, LockTypeOK
  <1>1. CASE Scan(t)
    BY <1>1 DEF Scan
  <1>2. CASE CheckDeadlock(t)
    <2>1. PICK h \in req[t].holders :
             \/ /\ pc' = [pc EXCEPT ![t] = "thrown"]
                /\ req' = [req EXCEPT ![t] = NoRequest]
             \/ /\ pc' = [pc EXCEPT ![t] = IF req[t].holders \ {h} = {} THEN "grant"
                                           ELSE "deadlock"]
                /\ req' = [req EXCEPT ![t].holders = req[t].holders \ {h}]
      BY <1>2, Zenon DEF CheckDeadlock
    <2>2. pc[t] = "deadlock" /\ UNCHANGED held
      BY <1>2 DEF CheckDeadlock
    <2> QED BY <2>1, <2>2
  <1>3. CASE GrantLock(t)
    BY <1>3 DEF GrantLock
  <1>4. CASE WakeGrant(t) \/ WakeUpgrade(t) \/ Timeout(t)
    BY <1>4 DEF WakeGrant, WakeUpgrade, Timeout
  <1>5. CASE RecordLock(t)
    BY <1>5 DEF RecordLock
  <1>6. CASE ReleaseFrame(t)
    BY <1>6 DEF ReleaseFrame
  <1>7. CASE Untrack(t)
    BY <1>7 DEF Untrack
  <1> QED BY <1>1, <1>2, <1>3, <1>4, <1>5, <1>6, <1>7 DEF LockStep

-----------------------------------------------------------------------------
(* Every step that leaves clean as it is preserves Isolated.               *)

LEMMA IsolatedInit == BufferInit => Isolated
  <1> SUFFICES ASSUME BufferInit PROVE Isolated
    OBVIOUS
  <1>1. NoneAborts
    BY DEF BufferInit, LockInit, NoneAborts, Unrecorded
  <1>2. AtPage /\ LocksOfPages /\ Loading
    BY DEF BufferInit, LockInit, AtPage, LocksOfPages, Loading, Loads
  <1>3. Written /\ Unwritten /\ DiskExact
    BY DEF BufferInit, Written, Unwritten, DiskExact
  <1> QED BY <1>1, <1>2, <1>3 DEF Isolated

\* Steps that change no frame and nothing that is written.
LEMMA WrittenKept ==
    ASSUME Written, UNCHANGED <<page_table, pool, wrote, loaded>>,
           \A u \in Txn : Working(u) => Working(u)',
           \A u \in Txn : Working(u) => txn_pages[u] \subseteq txn_pages'[u],
           \A u \in Txn : \A q \in wrote[u] :
              held[u][q] = "exclusive" => held'[u][q] = "exclusive"
    PROVE  Written'
  <1> SUFFICES ASSUME NEW u \in Txn, NEW q \in wrote'[u]
               PROVE  /\ Working(u)'
                      /\ held'[u][q] = "exclusive"
                      /\ q \in txn_pages'[u]
                      /\ page_table'[q] # NoFrame
                      /\ loaded'[page_table'[q]]
                      /\ pool'[page_table'[q]].dirty
                      /\ pool'[page_table'[q]].data = [base |-> q, last |-> u]
    BY Zenon DEF Written
  <1>1. /\ Working(u)
        /\ held[u][q] = "exclusive"
        /\ q \in txn_pages[u]
        /\ page_table[q] # NoFrame
        /\ loaded[page_table[q]]
        /\ pool[page_table[q]].dirty
        /\ pool[page_table[q]].data = [base |-> q, last |-> u]
    BY DEF Written
  <1> QED BY <1>1

LEMMA InLockManagerIso ==
    ASSUME NEW t \in Txn, BufferInv, Isolated, NoneAborts', InLockManager(t)
    PROVE  Isolated'
  <1>1. /\ LockStep(t) /\ LockInv
        /\ UNCHANGED <<page_table, pool, free_frames, txn_pages, disk, bpc, ref,
                       committed, wrote, loaded>>
    BY DEF InLockManager, codeVars, history, BufferInv
  <1>2. UNCHANGED held
    BY <1>1, LockStepLocals
  <1>3. AtPage'
    <2>1. \A u \in Txn \ {t} : pc'[u] = pc[u] /\ req'[u] = req[u]
      BY <1>1, LockStepEffect
    <2>2. pc'[t] \in Acquire =>
             /\ pc[t] \in Acquire
             /\ req'[t].page = req[t].page /\ req'[t].mode = req[t].mode
      BY <1>1, LockStepLocals
    <2> QED BY <1>1, <1>2, <2>1, <2>2 DEF Isolated, AtPage
  <1>4. LocksOfPages'
    BY <1>1, <1>2 DEF Isolated, LocksOfPages, Working
  <1>5. Loading'
    BY <1>1, <1>2 DEF Isolated, Loading, Loads
  <1>6. Written'
    BY <1>1, <1>2, WrittenKept DEF Isolated, Working
  <1>7. Unwritten' /\ DiskExact'
    BY <1>1 DEF Isolated, Unwritten, DiskExact
  <1> QED BY <1>3, <1>4, <1>5, <1>6, <1>7 DEF Isolated

LEMMA FixMappedIso ==
    ASSUME NEW t \in Txn, NEW p \in Page, NEW m \in Mode, BufferInv, Isolated, NoneAborts',
           FixMapped(t, p, m)
    PROVE  Isolated'
  <1>1. /\ bpc[t] = "run" /\ page_table[p] # NoFrame
        /\ bpc' = [bpc EXCEPT ![t] = "fix"]
        /\ ref' = [ref EXCEPT ![t] = [frame |-> page_table[p], page |-> p, mode |-> m]]
        /\ AcquireLock(t, p, m)
        /\ UNCHANGED <<page_table, pool, free_frames, txn_pages, disk, committed, wrote, loaded>>
    BY DEF FixMapped, Running, At, history
  <1>2. UNCHANGED held /\ req' = [req EXCEPT ![t] = [page |-> p, mode |-> m, holders |-> {},
                                                    conflict |-> FALSE, ref |-> 0]]
    BY <1>1 DEF AcquireLock
  <1>3. \A u \in Txn \ {t} : pc'[u] = pc[u] /\ req'[u] = req[u]
    BY <1>1, <1>2 DEF AcquireLock, BufferInv, LockInv, LockTypeOK
  <1>4. \A u \in Txn \ {t} : bpc'[u] = bpc[u] /\ ref'[u] = ref[u]
    BY <1>1 DEF BufferInv, BufferTypeOK
  <1>5. /\ bpc'[t] = "fix" /\ ref'[t] = [frame |-> page_table[p], page |-> p, mode |-> m]
        /\ req'[t].page = p /\ req'[t].mode = m
    BY <1>1, <1>2 DEF BufferInv, BufferTypeOK, LockInv, LockTypeOK
  <1>6. AtPage'
    <2> SUFFICES ASSUME NEW u \in Txn, bpc'[u] \in {"fix", "load", "read", "use"}
                 PROVE  /\ ref'[u].mode \in Mode
                        /\ page_table'[ref'[u].page] = ref'[u].frame
                        /\ pc'[u] \in Acquire =>
                              req'[u].page = ref'[u].page /\ req'[u].mode = ref'[u].mode
                        /\ bpc'[u] \in {"read", "use"} =>
                              /\ ref'[u].page \in txn_pages'[u]
                              /\ held'[u][ref'[u].page] # "none"
                              /\ ref'[u].mode = "exclusive" =>
                                    held'[u][ref'[u].page] = "exclusive"
      BY DEF AtPage
    <2>1. CASE u = t
      BY <1>1, <1>5, <2>1
    <2>2. CASE u # t
      BY <1>1, <1>2, <1>3, <1>4, <2>2 DEF Isolated, AtPage
    <2> QED BY <2>1, <2>2
  <1>7. LocksOfPages'
    BY <1>1, <1>2, <1>4, <1>5 DEF Isolated, LocksOfPages, Working
  <1>8. Loading'
    <2>1. \A u \in Txn : Loads(u)' <=> Loads(u)
      BY <1>1, <1>4, <1>5 DEF Loads
    <2>2. \A u \in Txn : Loads(u) => ref'[u] = ref[u]
      BY <1>1, <1>4 DEF Loads
    <2>3. \A u \in Txn : bpc'[u] = "load" => bpc[u] = "load" /\ ref'[u] = ref[u]
      BY <1>1, <1>4, <1>5
    <2> QED BY <1>1, <1>2, <2>1, <2>2, <2>3 DEF Isolated, Loading
  <1>9. Written'
    <2>1. \A u \in Txn : Working(u) => Working(u)'
      BY <1>4, <1>5 DEF Working
    <2> QED BY <1>1, <1>2, <2>1, WrittenKept DEF Isolated
  <1>10. Unwritten' /\ DiskExact'
    BY <1>1 DEF Isolated, Unwritten, DiskExact
  <1> QED BY <1>6, <1>7, <1>8, <1>9, <1>10 DEF Isolated

\* A page comes into the pool: nobody has it locked, and its frame was free.
LEMMA FixUnmappedIso ==
    ASSUME NEW t \in Txn, NEW p \in Page, NEW m \in Mode, BufferInv, Isolated, NoneAborts',
           FixUnmapped(t, p, m)
    PROVE  Isolated'
  <1>1. PICK f \in free_frames :
           /\ free_frames' = free_frames \ {f}
           /\ page_table' = [page_table EXCEPT ![p] = f]
           /\ pool' = [pool EXCEPT ![f].page = p]
           /\ ref' = [ref EXCEPT ![t] = [frame |-> f, page |-> p, mode |-> m]]
           /\ loaded' = [loaded EXCEPT ![f] = FALSE]
    BY Zenon DEF FixUnmapped
  <1>2. /\ page_table[p] = NoFrame /\ AcquireLock(t, p, m) /\ bpc[t] = "run"
        /\ txn_pages' = [txn_pages EXCEPT ![t] = @ \cup {p}]
        /\ bpc' = [bpc EXCEPT ![t] = "load"]
        /\ UNCHANGED <<disk, committed, wrote>>
    BY DEF FixUnmapped, Running, At
  <1>3. UNCHANGED held /\ req' = [req EXCEPT ![t] = [page |-> p, mode |-> m, holders |-> {},
                                                    conflict |-> FALSE, ref |-> 0]]
    BY <1>2 DEF AcquireLock
  <1>4. \A u \in Txn \ {t} : pc'[u] = pc[u] /\ req'[u] = req[u] /\ bpc'[u] = bpc[u]
                             /\ ref'[u] = ref[u] /\ txn_pages'[u] = txn_pages[u]
    BY <1>1, <1>2, <1>3 DEF AcquireLock, BufferInv, LockInv, LockTypeOK, BufferTypeOK
  <1>5. /\ bpc'[t] = "load" /\ ref'[t] = [frame |-> f, page |-> p, mode |-> m]
        /\ req'[t].page = p /\ req'[t].mode = m /\ txn_pages'[t] = txn_pages[t] \cup {p}
    BY <1>1, <1>2, <1>3 DEF BufferInv, BufferTypeOK, LockInv, LockTypeOK
  <1>6. /\ f \in Frame /\ f # NoFrame /\ page_table'[p] = f
        /\ \A q \in Page : q # p => page_table'[q] = page_table[q]
        /\ \A q \in Page : page_table[q] # f
    BY <1>1, BufferAssumption DEF BufferInv, BufferTypeOK, FramesConserved
  <1>7. /\ ~loaded'[f] /\ \A g \in Frame : g # f => loaded'[g] = loaded[g]
        /\ \A g \in Frame : pool'[g].dirty = pool[g].dirty
        /\ \A g \in Frame : g # f => pool'[g] = pool[g]
    BY <1>1, <1>6 DEF BufferInv, BufferTypeOK, FrameState
  <1>8. \A u \in Txn : bpc[u] \in {"fix", "load", "read", "use"} =>
           /\ u # t /\ ref[u].page \in Page /\ ref[u].page # p
           /\ ref[u].frame \in Frame /\ ref[u].frame # f
           /\ page_table[ref[u].page] = ref[u].frame
    BY <1>2, <1>6, PageInUse
  <1>9. AtPage'
    <2> SUFFICES ASSUME NEW u \in Txn, bpc'[u] \in {"fix", "load", "read", "use"}
                 PROVE  /\ ref'[u].mode \in Mode
                        /\ page_table'[ref'[u].page] = ref'[u].frame
                        /\ pc'[u] \in Acquire =>
                              req'[u].page = ref'[u].page /\ req'[u].mode = ref'[u].mode
                        /\ bpc'[u] \in {"read", "use"} =>
                              /\ ref'[u].page \in txn_pages'[u]
                              /\ held'[u][ref'[u].page] # "none"
                              /\ ref'[u].mode = "exclusive" =>
                                    held'[u][ref'[u].page] = "exclusive"
      BY DEF AtPage
    <2>1. CASE u = t
      BY <1>5, <1>6, <2>1
    <2>2. CASE u # t
      BY <1>3, <1>4, <1>6, <1>8, <2>2 DEF Isolated, AtPage
    <2> QED BY <2>1, <2>2
  <1>10. LocksOfPages'
    <2>1. \A q \in Page : page_table'[q] = NoFrame => \A u \in Txn : held'[u][q] = "none"
      BY <1>3, <1>6 DEF Isolated, LocksOfPages
    <2>2. ASSUME NEW u \in Txn, Working(u)', NEW q \in txn_pages'[u]
          PROVE  held'[u][q] # "none" \/ (bpc'[u] = "load" /\ ref'[u].page = q)
      <3>1. CASE u = t
        <4>1. CASE q = p
          BY <1>5, <3>1, <4>1
        <4>2. CASE q # p
          BY <1>2, <1>3, <1>5, <2>2, <3>1, <4>2 DEF Isolated, LocksOfPages, Working
        <4> QED BY <4>1, <4>2
      <3>2. CASE u # t
        BY <1>3, <1>4, <2>2, <3>2 DEF Isolated, LocksOfPages, Working
      <3> QED BY <3>1, <3>2
    <2> QED BY <2>1, <2>2 DEF LocksOfPages
  <1>11. Loading'
    <2>1. ASSUME NEW q \in Page, page_table'[q] # NoFrame, ~loaded'[page_table'[q]]
          PROVE  \E u \in Txn : Loads(u)' /\ ref'[u].page = q
      <3>1. CASE q = p
        BY <1>5, <3>1 DEF Loads
      <3>2. CASE q # p
        <4>1. page_table[q] # NoFrame /\ ~loaded[page_table[q]]
          BY <1>6, <1>7, <2>1, <3>2, FrameOfPage
        <4>2. PICK u \in Txn : Loads(u) /\ ref[u].page = q
          BY <4>1 DEF Isolated, Loading
        <4>3. u # t
          BY <1>2, <4>2 DEF Loads
        <4> QED BY <1>4, <4>2, <4>3 DEF Loads
      <3> QED BY <3>1, <3>2
    <2>2. \A u \in Txn : Loads(u)' => ~loaded'[ref'[u].frame]
      BY <1>4, <1>5, <1>7, <1>8 DEF Isolated, Loading, Loads
    <2>3. \A u, v \in Txn : (u # v /\ Loads(u)' /\ Loads(v)') => ref'[u].page # ref'[v].page
      BY <1>4, <1>5, <1>8 DEF Isolated, Loading, Loads
    <2>4. \A u, v \in Txn : bpc'[u] = "load" => held'[v][ref'[u].page] = "none"
      BY <1>2, <1>3, <1>4, <1>5 DEF Isolated, Loading, LocksOfPages
    <2> QED BY <2>1, <2>2, <2>3, <2>4 DEF Loading
  <1>12. Written'
    <2> SUFFICES ASSUME NEW u \in Txn, NEW q \in wrote'[u]
                 PROVE  /\ Working(u)'
                        /\ held'[u][q] = "exclusive"
                        /\ q \in txn_pages'[u]
                        /\ page_table'[q] # NoFrame
                        /\ loaded'[page_table'[q]]
                        /\ pool'[page_table'[q]].dirty
                        /\ pool'[page_table'[q]].data = [base |-> q, last |-> u]
      BY Zenon DEF Written
    <2>1. q \in wrote[u] /\ q \in Page
      BY <1>2 DEF BufferInv, BufferTypeOK
    <2>2. /\ Working(u) /\ held[u][q] = "exclusive" /\ q \in txn_pages[u]
          /\ page_table[q] # NoFrame /\ loaded[page_table[q]]
          /\ pool[page_table[q]].dirty
          /\ pool[page_table[q]].data = [base |-> q, last |-> u]
      BY <2>1 DEF Isolated, Written
    <2>3. page_table'[q] = page_table[q] /\ page_table[q] \in Frame /\ page_table[q] # f
      BY <1>2, <1>6, <2>1, <2>2, FrameOfPage
    <2>4. Working(u)' /\ q \in txn_pages'[u]
      BY <1>4, <1>5, <2>2 DEF Working
    <2> QED BY <1>3, <1>7, <2>2, <2>3, <2>4
  <1>13. Unwritten'
    <2>1. \A g \in free_frames' : ~pool'[g].dirty
      BY <1>1, <1>7 DEF Isolated, Unwritten, BufferInv, BufferTypeOK
    <2>2. ASSUME NEW q \in Page, page_table'[q] # NoFrame, \A u \in Txn : q \notin wrote'[u]
          PROVE  /\ ~pool'[page_table'[q]].dirty
                 /\ loaded'[page_table'[q]] =>
                       pool'[page_table'[q]].data = [base |-> q, last |-> committed'[q]]
      <3>1. CASE q = p
        BY <1>1, <1>6, <1>7, <3>1 DEF Isolated, Unwritten
      <3>2. CASE q # p
        <4>1. page_table'[q] = page_table[q] /\ page_table[q] \in Frame /\ page_table[q] # f
          BY <1>6, <2>2, <3>2, FrameOfPage
        <4>2. /\ ~pool[page_table[q]].dirty
              /\ loaded[page_table[q]] =>
                    pool[page_table[q]].data = [base |-> q, last |-> committed[q]]
          BY <1>2, <2>2, <4>1 DEF Isolated, Unwritten
        <4> QED BY <1>2, <1>7, <4>1, <4>2
      <3> QED BY <3>1, <3>2
    <2> QED BY <2>1, <2>2 DEF Unwritten
  <1>14. DiskExact'
    BY <1>2 DEF Isolated, DiskExact
  <1> QED BY <1>9, <1>10, <1>11, <1>12, <1>13, <1>14 DEF Isolated

\* acquire_lock returns: no other thread is in fix_page, to load a page or otherwise.
LEMMA FixLockedIso ==
    ASSUME NEW t \in Txn, BufferInv, Isolated, NoneAborts', FixLocked(t)
    PROVE  Isolated'
  <1> DEFINE p == ref[t].page
             place == IF bpc[t] = "load" THEN "read" ELSE "use"
  <1>1. /\ pc[t] = "granted"
        /\ held' = [held EXCEPT ![t][req[t].page] =
                      IF @ = "exclusive" THEN @ ELSE req[t].mode]
        /\ req' = [req EXCEPT ![t] = NoRequest] /\ pc' = [pc EXCEPT ![t] = "idle"]
        /\ txn_pages' = [txn_pages EXCEPT ![t] = @ \cup {req[t].page}]
        /\ bpc' = [bpc EXCEPT ![t] = place]
        /\ UNCHANGED <<page_table, pool, free_frames, disk, ref, committed, wrote, loaded>>
    BY DEF FixLocked, AcquireReturns, At, history
  <1>2. bpc[t] \in {"fix", "load"}
    BY <1>1 DEF BufferInv, PcAtBpc
  <1>3. /\ req[t].page = p /\ req[t].mode = ref[t].mode /\ ref[t].mode \in Mode
        /\ p \in Page /\ page_table[p] = ref[t].frame /\ page_table[p] # NoFrame
    BY <1>1, <1>2, PageInUse DEF Isolated, AtPage
  <1>4. \A u \in Txn \ {t} : pc'[u] = pc[u] /\ req'[u] = req[u] /\ bpc'[u] = bpc[u]
                             /\ txn_pages'[u] = txn_pages[u] /\ held'[u] = held[u]
    BY <1>1 DEF BufferInv, LockInv, LockTypeOK, BufferTypeOK
  <1>5. /\ bpc'[t] = place /\ pc'[t] = "idle" /\ txn_pages'[t] = txn_pages[t] \cup {p}
        /\ held'[t][p] # "none"
        /\ ref[t].mode = "exclusive" => held'[t][p] = "exclusive"
        /\ \A q \in Page : q # p => held'[t][q] = held[t][q]
        /\ held[t][p] = "exclusive" => held'[t][p] = "exclusive"
    BY <1>1, <1>3 DEF BufferInv, LockInv, LockTypeOK, BufferTypeOK
  <1>6. \A u \in Txn \ {t} : bpc[u] \notin {"fix", "load"}
    BY <1>1 DEF BufferInv, LockInv, Serial, PcAtBpc, Isolated, NoneAborts
  <1>7. AtPage'
    <2> SUFFICES ASSUME NEW u \in Txn, bpc'[u] \in {"fix", "load", "read", "use"}
                 PROVE  /\ ref'[u].mode \in Mode
                        /\ page_table'[ref'[u].page] = ref'[u].frame
                        /\ pc'[u] \in Acquire =>
                              req'[u].page = ref'[u].page /\ req'[u].mode = ref'[u].mode
                        /\ bpc'[u] \in {"read", "use"} =>
                              /\ ref'[u].page \in txn_pages'[u]
                              /\ held'[u][ref'[u].page] # "none"
                              /\ ref'[u].mode = "exclusive" =>
                                    held'[u][ref'[u].page] = "exclusive"
      BY DEF AtPage
    <2>1. CASE u = t
      BY <1>1, <1>3, <1>5, <2>1
    <2>2. CASE u # t
      BY <1>1, <1>4, <2>2 DEF Isolated, AtPage
    <2> QED BY <2>1, <2>2
  <1>8. LocksOfPages'
    <2>1. \A q \in Page : page_table'[q] = NoFrame => \A u \in Txn : held'[u][q] = "none"
      BY <1>1, <1>3, <1>4, <1>5 DEF Isolated, LocksOfPages
    <2>2. ASSUME NEW u \in Txn, Working(u)', NEW q \in txn_pages'[u]
          PROVE  held'[u][q] # "none" \/ (bpc'[u] = "load" /\ ref'[u].page = q)
      <3>1. CASE u = t /\ q = p
        BY <1>5, <3>1
      <3>2. CASE u = t /\ q # p
        <4>1. q \in txn_pages[t] /\ q \in Page
          BY <1>5, <2>2, <3>2 DEF BufferInv, BufferTypeOK
        <4> QED BY <1>2, <1>5, <3>2, <4>1 DEF Isolated, LocksOfPages, Working
      <3>3. CASE u # t
        BY <1>1, <1>4, <2>2, <3>3 DEF Isolated, LocksOfPages, Working
      <3> QED BY <3>1, <3>2, <3>3
    <2> QED BY <2>1, <2>2 DEF LocksOfPages
  <1>9. Loading'
    <2>1. \A u \in Txn : Loads(u)' <=> Loads(u)
      BY <1>2, <1>4, <1>5 DEF Loads
    <2>2. \A u \in Txn : bpc'[u] # "load"
      BY <1>4, <1>5, <1>6
    <2> QED BY <1>1, <2>1, <2>2 DEF Isolated, Loading
  <1>10. Written'
    <2>1. \A u \in Txn : Working(u) => Working(u)'
      BY <1>4, <1>5 DEF Working
    <2>2. \A u \in Txn : txn_pages[u] \subseteq txn_pages'[u]
      BY <1>4, <1>5
    <2>3. \A u \in Txn : \A q \in wrote[u] :
             held[u][q] = "exclusive" => held'[u][q] = "exclusive"
      BY <1>4, <1>5 DEF BufferInv, BufferTypeOK
    <2> QED BY <1>1, <2>1, <2>2, <2>3, WrittenKept DEF Isolated
  <1>11. Unwritten' /\ DiskExact'
    BY <1>1 DEF Isolated, Unwritten, DiskExact
  <1> QED BY <1>7, <1>8, <1>9, <1>10, <1>11 DEF Isolated

\* Reading a page that nobody has written brings what is on disk.
LEMMA ReadFrameIso ==
    ASSUME NEW t \in Txn, BufferInv, Isolated, NoneAborts', ReadFrame(t)
    PROVE  Isolated'
  <1> DEFINE p == ref[t].page
             f == ref[t].frame
  <1>1. bpc[t] = "read" /\ p \in Page /\ f \in Frame /\ page_table[p] = f /\ f # NoFrame
    BY PageInUse DEF ReadFrame
  <1>2. pool[f].page = p /\ p # NoPage /\ f \notin free_frames
    BY <1>1, FrameOfPage, BufferAssumption
  <1>3. /\ pool' = [pool EXCEPT ![f].data = disk[p]]
        /\ loaded' = [loaded EXCEPT ![f] = TRUE]
        /\ bpc' = [bpc EXCEPT ![t] = "use"]
        /\ UNCHANGED <<page_table, free_frames, txn_pages, disk, ref, committed, wrote,
                       held, pc, req>>
    BY <1>2 DEF ReadFrame, At, lockVars
  <1>4. /\ loaded'[f] /\ \A g \in Frame : g # f => loaded'[g] = loaded[g]
        /\ pool'[f].data = disk[p]
        /\ \A g \in Frame : pool'[g].dirty = pool[g].dirty
        /\ \A g \in Frame : g # f => pool'[g] = pool[g]
    BY <1>1, <1>3 DEF BufferInv, BufferTypeOK, FrameState
  <1>5. /\ bpc'[t] = "use"
        /\ \A u \in Txn \ {t} : bpc'[u] = bpc[u]
    BY <1>3 DEF BufferInv, BufferTypeOK
  <1>6. ~loaded[f] /\ \A u \in Txn : p \notin wrote[u]
    BY <1>1 DEF Isolated, Loading, Loads, Written
  <1>7. \A q \in Page : q # p /\ page_table[q] # NoFrame =>
           page_table[q] # f /\ page_table[q] \in Frame
    BY <1>1, FramesDiffer
  <1>8. AtPage'
    BY <1>1, <1>3, <1>5 DEF Isolated, AtPage
  <1>9. LocksOfPages'
    BY <1>1, <1>3, <1>5 DEF Isolated, LocksOfPages, Working
  <1>10. Loading'
    <2>1. ASSUME NEW q \in Page, page_table'[q] # NoFrame, ~loaded'[page_table'[q]]
          PROVE  \E u \in Txn : Loads(u)' /\ ref'[u].page = q
      <3>1. q # p
        BY <1>1, <1>3, <1>4, <2>1
      <3>2. page_table[q] # NoFrame /\ ~loaded[page_table[q]]
        BY <1>3, <1>4, <1>7, <2>1, <3>1
      <3>3. PICK u \in Txn : Loads(u) /\ ref[u].page = q
        BY <3>2 DEF Isolated, Loading
      <3> QED BY <1>3, <1>5, <3>1, <3>3 DEF Loads
    <2>2. \A u \in Txn : Loads(u)' => u # t /\ Loads(u)
      BY <1>5 DEF Loads
    <2>3. \A u \in Txn : Loads(u)' => ~loaded'[ref'[u].frame]
      <3> SUFFICES ASSUME NEW u \in Txn, Loads(u)' PROVE ~loaded'[ref'[u].frame]
        OBVIOUS
      <3>1. u # t /\ Loads(u) /\ Loads(t)
        BY <1>1, <2>2 DEF Loads
      <3>2. ref[u].page # p /\ ~loaded[ref[u].frame]
        BY <3>1 DEF Isolated, Loading
      <3>3. /\ ref[u].page \in Page /\ page_table[ref[u].page] = ref[u].frame
            /\ page_table[ref[u].page] # NoFrame
        BY <3>1, PageInUse DEF Loads
      <3> QED BY <1>3, <1>4, <1>7, <3>2, <3>3
    <2>4. \A u, v \in Txn : (u # v /\ Loads(u)' /\ Loads(v)') => ref'[u].page # ref'[v].page
      BY <1>3, <2>2 DEF Isolated, Loading
    <2>5. \A u, v \in Txn : bpc'[u] = "load" => held'[v][ref'[u].page] = "none"
      BY <1>3, <1>5 DEF Isolated, Loading
    <2> QED BY <2>1, <2>3, <2>4, <2>5 DEF Loading
  <1>11. Written'
    <2> SUFFICES ASSUME NEW u \in Txn, NEW q \in wrote'[u]
                 PROVE  /\ Working(u)'
                        /\ held'[u][q] = "exclusive"
                        /\ q \in txn_pages'[u]
                        /\ page_table'[q] # NoFrame
                        /\ loaded'[page_table'[q]]
                        /\ pool'[page_table'[q]].dirty
                        /\ pool'[page_table'[q]].data = [base |-> q, last |-> u]
      BY Zenon DEF Written
    <2>1. q \in wrote[u] /\ q \in Page /\ q # p
      BY <1>3, <1>6 DEF BufferInv, BufferTypeOK
    <2>2. /\ Working(u) /\ held[u][q] = "exclusive" /\ q \in txn_pages[u]
          /\ page_table[q] # NoFrame /\ loaded[page_table[q]]
          /\ pool[page_table[q]].dirty
          /\ pool[page_table[q]].data = [base |-> q, last |-> u]
      BY <2>1 DEF Isolated, Written
    <2>3. Working(u)'
      BY <1>5, <2>2 DEF Working
    <2> QED BY <1>3, <1>4, <1>7, <2>1, <2>2, <2>3
  <1>12. Unwritten'
    <2>1. \A g \in free_frames' : ~pool'[g].dirty
      BY <1>3, <1>4 DEF Isolated, Unwritten, BufferInv, BufferTypeOK
    <2>2. ASSUME NEW q \in Page, page_table'[q] # NoFrame, \A u \in Txn : q \notin wrote'[u]
          PROVE  /\ ~pool'[page_table'[q]].dirty
                 /\ loaded'[page_table'[q]] =>
                       pool'[page_table'[q]].data = [base |-> q, last |-> committed'[q]]
      <3>1. /\ ~pool[page_table[q]].dirty
            /\ loaded[page_table[q]] =>
                  pool[page_table[q]].data = [base |-> q, last |-> committed[q]]
        BY <1>3, <2>2 DEF Isolated, Unwritten
      <3>2. CASE q = p
        <4>1. disk[p] = [base |-> p, last |-> committed[p]]
          BY <1>1 DEF Isolated, DiskExact
        <4> QED BY <1>1, <1>3, <1>4, <3>1, <3>2, <4>1
      <3>3. CASE q # p
        BY <1>3, <1>4, <1>7, <2>2, <3>1, <3>3
      <3> QED BY <3>2, <3>3
    <2> QED BY <2>1, <2>2 DEF Unwritten
  <1>13. DiskExact'
    BY <1>3 DEF Isolated, DiskExact
  <1> QED BY <1>8, <1>9, <1>10, <1>11, <1>12, <1>13 DEF Isolated

\* A frame that is used in exclusive mode has been read: whoever still had to read it
\* would hold a lock on its page.
LEMMA ExclusiveIsLoaded ==
    ASSUME NEW t \in Txn, BufferInv, Isolated, bpc[t] = "use", ref[t].mode = "exclusive"
    PROVE  loaded[ref[t].frame]
  <1> DEFINE p == ref[t].page
  <1>1. p \in Page /\ page_table[p] = ref[t].frame /\ page_table[p] # NoFrame
    BY PageInUse
  <1>2. held[t][p] = "exclusive"
    BY DEF Isolated, AtPage
  <1> SUFFICES ASSUME ~loaded[ref[t].frame] PROVE FALSE
    OBVIOUS
  <1>3. PICK u \in Txn : Loads(u) /\ ref[u].page = p
    BY <1>1 DEF Isolated, Loading
  <1>4. u # t
    BY <1>3 DEF Loads
  <1>5. held[u][p] = "none"
    BY <1>1, <1>2, <1>4, HeldAlone DEF Isolated
  <1>6. CASE bpc[u] = "load"
    BY <1>2, <1>3, <1>6 DEF Isolated, Loading
  <1>7. CASE bpc[u] = "read"
    BY <1>3, <1>5, <1>7 DEF Isolated, AtPage
  <1> QED BY <1>3, <1>6, <1>7 DEF Loads

LEMMA UseFrameIso ==
    ASSUME NEW t \in Txn, BufferInv, Isolated, NoneAborts', UseFrame(t)
    PROVE  Isolated'
  <1> DEFINE p == ref[t].page
             f == ref[t].frame
  <1>1. bpc[t] = "use" /\ p \in Page /\ f \in Frame /\ page_table[p] = f /\ f # NoFrame
    BY PageInUse DEF UseFrame
  <1>2. /\ ref' = [ref EXCEPT ![t] = NoRef]
        /\ bpc' = [bpc EXCEPT ![t] = "run"]
        /\ UNCHANGED <<page_table, free_frames, txn_pages, disk, committed, loaded,
                       held, pc, req>>
    BY DEF UseFrame, At, lockVars
  <1>3. /\ bpc'[t] = "run"
        /\ \A u \in Txn \ {t} : bpc'[u] = bpc[u] /\ ref'[u] = ref[u]
    BY <1>2 DEF BufferInv, BufferTypeOK
  <1>4. p \in txn_pages[t] /\ held[t][p] # "none"
    BY <1>1 DEF Isolated, AtPage
  <1>5. AtPage'
    BY <1>2, <1>3 DEF Isolated, AtPage
  <1>6. LocksOfPages'
    BY <1>1, <1>2, <1>3 DEF Isolated, LocksOfPages, Working
  <1>7. Loading'
    <2>1. \A u \in Txn : Loads(u)' <=> Loads(u)
      BY <1>1, <1>3 DEF Loads
    <2>2. \A u \in Txn : Loads(u) => ref'[u] = ref[u]
      BY <1>1, <1>3 DEF Loads
    <2>3. \A u \in Txn : bpc'[u] = "load" => bpc[u] = "load" /\ ref'[u] = ref[u]
      BY <1>3
    <2> QED BY <1>2, <2>1, <2>2, <2>3 DEF Isolated, Loading
  <1>8. DiskExact'
    BY <1>2 DEF Isolated, DiskExact
  <1>9. Written' /\ Unwritten'
    <2>1. CASE ref[t].mode # "exclusive"
      <3>1. UNCHANGED <<pool, wrote>>
        BY <2>1 DEF UseFrame
      <3>2. \A u \in Txn : Working(u) => Working(u)'
        BY <1>3 DEF Working
      <3>3. Written'
        BY <1>2, <3>1, <3>2, WrittenKept DEF Isolated
      <3>4. Unwritten'
        BY <1>2, <3>1 DEF Isolated, Unwritten
      <3> QED BY <3>3, <3>4
    <2>2. CASE ref[t].mode = "exclusive"
      <3>1. /\ pool' = [pool EXCEPT ![f].data.last = t, ![f].dirty = TRUE]
            /\ wrote' = [wrote EXCEPT ![t] = @ \cup {p}]
        BY <2>2 DEF UseFrame
      <3>2. loaded[f] /\ held[t][p] = "exclusive"
        BY <1>1, <2>2, ExclusiveIsLoaded DEF Isolated, AtPage
      <3>3. \A u \in Txn \ {t} : p \notin wrote[u]
        BY <1>1, <1>4, WrittenByHolder
      <3>4. pool[f].data.base = p /\ pool[f].data \in Content /\ pool[f] \in FrameState
        <4>1. pool[f] \in FrameState /\ pool[f].data \in Content
          BY <1>1 DEF BufferInv, BufferTypeOK, FrameState
        <4>2. CASE p \in wrote[t]
          <5>1. pool[page_table[p]].data = [base |-> p, last |-> t]
            BY <4>2 DEF Isolated, Written
          <5> QED BY <1>1, <4>1, <5>1
        <4>3. CASE p \notin wrote[t]
          <5>1. pool[f].data = [base |-> p, last |-> committed[p]]
            BY <1>1, <3>2, <3>3, <4>3 DEF Isolated, Unwritten
          <5> QED BY <4>1, <5>1
        <4> QED BY <4>1, <4>2, <4>3
      <3>5. pool'[f].dirty /\ pool'[f].data = [base |-> p, last |-> t]
        <4>1. pool'[f] = [pool[f] EXCEPT !.data.last = t, !.dirty = TRUE]
          BY <1>1, <3>1 DEF BufferInv, BufferTypeOK
        <4>2. pool'[f].dirty /\ pool'[f].data = [pool[f].data EXCEPT !.last = t]
          BY <3>4, <4>1 DEF FrameState
        <4> QED BY <3>4, <4>2 DEF Content
      <3>6. \A g \in Frame : g # f => pool'[g] = pool[g]
        BY <1>1, <3>1 DEF BufferInv, BufferTypeOK
      <3>7. \A q \in Page : q # p /\ page_table[q] # NoFrame =>
               page_table[q] # f /\ page_table[q] \in Frame
        BY <1>1, FramesDiffer
      <3>8. \A u \in Txn : \A q \in wrote'[u] : q \in Page /\ (q \in wrote[u] \/ (u = t /\ q = p))
        BY <1>1, <3>1 DEF BufferInv, BufferTypeOK
      <3>9. Written'
        <4> SUFFICES ASSUME NEW u \in Txn, NEW q \in wrote'[u]
                     PROVE  /\ Working(u)'
                            /\ held'[u][q] = "exclusive"
                            /\ q \in txn_pages'[u]
                            /\ page_table'[q] # NoFrame
                            /\ loaded'[page_table'[q]]
                            /\ pool'[page_table'[q]].dirty
                            /\ pool'[page_table'[q]].data = [base |-> q, last |-> u]
          BY Zenon DEF Written
        <4>1. CASE u = t /\ q = p
          <5>1. Working(u)'
            BY <1>3, <4>1 DEF Working
          <5> QED BY <1>1, <1>2, <1>4, <3>2, <3>5, <4>1, <5>1
        <4>2. CASE ~(u = t /\ q = p)
          <5>1. q \in wrote[u] /\ q \in Page /\ q # p
            BY <3>3, <3>8, <4>2
          <5>2. /\ Working(u) /\ held[u][q] = "exclusive" /\ q \in txn_pages[u]
                /\ page_table[q] # NoFrame /\ loaded[page_table[q]]
                /\ pool[page_table[q]].dirty
                /\ pool[page_table[q]].data = [base |-> q, last |-> u]
            BY <5>1 DEF Isolated, Written
          <5>3. Working(u)'
            BY <1>3, <5>2 DEF Working
          <5> QED BY <1>2, <3>6, <3>7, <5>1, <5>2, <5>3
        <4> QED BY <4>1, <4>2
      <3>10. Unwritten'
        <4>1. f \notin free_frames
          BY <1>1, FrameOfPage
        <4>2. \A g \in free_frames' : ~pool'[g].dirty
          BY <1>2, <3>6, <4>1 DEF Isolated, Unwritten, BufferInv, BufferTypeOK
        <4>3. ASSUME NEW q \in Page, page_table'[q] # NoFrame, \A u \in Txn : q \notin wrote'[u]
              PROVE  /\ ~pool'[page_table'[q]].dirty
                     /\ loaded'[page_table'[q]] =>
                           pool'[page_table'[q]].data = [base |-> q, last |-> committed'[q]]
          <5>1. q # p /\ \A u \in Txn : q \notin wrote[u]
            BY <3>1, <4>3 DEF BufferInv, BufferTypeOK
          <5>2. /\ ~pool[page_table[q]].dirty
                /\ loaded[page_table[q]] =>
                      pool[page_table[q]].data = [base |-> q, last |-> committed[q]]
            BY <1>2, <4>3, <5>1 DEF Isolated, Unwritten
          <5> QED BY <1>2, <3>6, <3>7, <4>3, <5>1, <5>2
        <4> QED BY <4>2, <4>3 DEF Unwritten
      <3> QED BY <3>9, <3>10
    <2> QED BY <2>1, <2>2
  <1> QED BY <1>5, <1>6, <1>7, <1>8, <1>9 DEF Isolated

\* What transaction_complete flushes is what the transaction has written.
LEMMA FlushesWrites ==
    ASSUME NEW t \in Txn, BufferInv, Isolated, bpc[t] = "run"
    PROVE  DirtyPages(t) = wrote[t]
  <1>1. ASSUME NEW p \in wrote[t] PROVE p \in DirtyPages(t)
    BY DEF Isolated, Written, DirtyPages
  <1>2. ASSUME NEW p \in DirtyPages(t) PROVE p \in wrote[t]
    <2>1. p \in txn_pages[t] /\ p \in Page /\ page_table[p] # NoFrame /\ pool[page_table[p]].dirty
      BY DEF DirtyPages, BufferInv, BufferTypeOK
    <2>2. held[t][p] # "none"
      BY <2>1 DEF Isolated, LocksOfPages, Working
    <2>3. PICK u \in Txn : p \in wrote[u]
      BY <2>1 DEF Isolated, Unwritten
    <2> QED BY <2>1, <2>2, <2>3, WrittenByHolder
  <1> QED BY <1>1, <1>2

LEMMA FlushPagesIso ==
    ASSUME NEW t \in Txn, BufferInv, Isolated, NoneAborts', FlushPages(t)
    PROVE  Isolated'
  <1> DEFINE W == wrote[t]
  <1>1. /\ bpc[t] = "run"
        /\ bpc' = [bpc EXCEPT ![t] = "flushed"]
        /\ wrote' = [wrote EXCEPT ![t] = {}]
        /\ committed' = [p \in Page |-> IF p \in W THEN t ELSE committed[p]]
        /\ UNCHANGED <<page_table, free_frames, txn_pages, ref, loaded, held, pc, req>>
    BY DEF FlushPages, Running, At, lockVars, Isolated, NoneAborts
  <1>2. DirtyPages(t) = W
    BY <1>1, FlushesWrites
  <1>3. /\ disk' = [p \in Page |-> IF p \in W THEN pool[page_table[p]].data ELSE disk[p]]
        /\ pool' = [f \in Frame |-> IF \E p \in W : page_table[p] = f
                                    THEN [pool[f] EXCEPT !.dirty = FALSE] ELSE pool[f]]
    BY <1>2, Zenon DEF FlushPages
  <1>4. /\ bpc'[t] = "flushed" /\ wrote'[t] = {} /\ W \subseteq Page
        /\ \A u \in Txn \ {t} : bpc'[u] = bpc[u] /\ wrote'[u] = wrote[u]
    BY <1>1 DEF BufferInv, BufferTypeOK
  <1>5. ASSUME NEW g \in Frame
        PROVE  /\ pool'[g].data = pool[g].data
               /\ pool'[g].dirty = (pool[g].dirty /\ ~\E p \in W : page_table[p] = g)
    <2>1. pool[g] \in FrameState
      BY DEF BufferInv, BufferTypeOK
    <2>2. CASE \E p \in W : page_table[p] = g
      <3>1. pool'[g] = [pool[g] EXCEPT !.dirty = FALSE]
        BY <1>3, <2>2
      <3> QED BY <2>1, <2>2, <3>1 DEF FrameState
    <2>3. CASE ~\E p \in W : page_table[p] = g
      <3>1. pool'[g] = pool[g]
        BY <1>3, <2>3
      <3>2. pool[g].dirty \in BOOLEAN
        BY <2>1 DEF FrameState
      <3> QED BY <2>3, <3>1, <3>2
    <2> QED BY <2>2, <2>3
  <1>6. \A p \in W : /\ page_table[p] # NoFrame /\ page_table[p] \in Frame
                     /\ pool[page_table[p]].data = [base |-> p, last |-> t]
    <2>1. \A p \in W : page_table[p] # NoFrame
      BY DEF Isolated, Written
    <2>2. \A p \in W : pool[page_table[p]].data = [base |-> p, last |-> t]
      BY DEF Isolated, Written
    <2> QED BY <1>4, <2>1, <2>2, FrameOfPage
  <1>7. AtPage'
    BY <1>1, <1>4 DEF Isolated, AtPage
  <1>8. LocksOfPages'
    BY <1>1, <1>4 DEF Isolated, LocksOfPages, Working
  <1>9. Loading'
    <2>1. \A u \in Txn : Loads(u)' <=> Loads(u)
      BY <1>1, <1>4 DEF Loads
    <2> QED BY <1>1, <1>4, <2>1 DEF Isolated, Loading
  <1>10. Written'
    <2> SUFFICES ASSUME NEW u \in Txn, NEW q \in wrote'[u]
                 PROVE  /\ Working(u)'
                        /\ held'[u][q] = "exclusive"
                        /\ q \in txn_pages'[u]
                        /\ page_table'[q] # NoFrame
                        /\ loaded'[page_table'[q]]
                        /\ pool'[page_table'[q]].dirty
                        /\ pool'[page_table'[q]].data = [base |-> q, last |-> u]
      BY Zenon DEF Written
    <2>1. u # t /\ q \in wrote[u] /\ q \in Page
      BY <1>4 DEF BufferInv, BufferTypeOK
    <2>2. /\ Working(u) /\ held[u][q] = "exclusive" /\ q \in txn_pages[u]
          /\ page_table[q] # NoFrame /\ loaded[page_table[q]]
          /\ pool[page_table[q]].dirty
          /\ pool[page_table[q]].data = [base |-> q, last |-> u]
      BY <2>1 DEF Isolated, Written
    <2>3. page_table[q] \in Frame
      BY <2>1, <2>2, FrameOfPage
    <2>4. q \notin W
      <3>1. held[u][q] # "none"
        BY <2>2
      <3> QED BY <2>1, <3>1, WrittenByHolder
    <2>5. ~\E p \in W : page_table[p] = page_table[q]
      BY <1>4, <2>1, <2>2, <2>4, FramesDiffer
    <2>6. Working(u)'
      BY <1>4, <2>1, <2>2 DEF Working
    <2>7. pool'[page_table[q]].dirty /\ pool'[page_table[q]].data = pool[page_table[q]].data
      BY <1>5, <2>2, <2>3, <2>5
    <2> QED BY <1>1, <2>2, <2>6, <2>7
  <1>11. Unwritten'
    <2>1. \A g \in free_frames' : ~pool'[g].dirty
      BY <1>1, <1>5 DEF Isolated, Unwritten, BufferInv, BufferTypeOK
    <2>2. ASSUME NEW q \in Page, page_table'[q] # NoFrame, \A u \in Txn : q \notin wrote'[u]
          PROVE  /\ ~pool'[page_table'[q]].dirty
                 /\ loaded'[page_table'[q]] =>
                       pool'[page_table'[q]].data = [base |-> q, last |-> committed'[q]]
      <3>1. page_table[q] \in Frame
        BY <1>1, <2>2, FrameOfPage
      <3>2. CASE q \in W
        <4>1. /\ ~pool'[page_table[q]].dirty
              /\ pool'[page_table[q]].data = [base |-> q, last |-> t]
          BY <1>5, <1>6, <3>1, <3>2
        <4>2. committed'[q] = t
          BY <1>1, <3>2
        <4> QED BY <1>1, <4>1, <4>2
      <3>3. CASE q \notin W
        <4>1. \A u \in Txn : q \notin wrote[u]
          BY <1>4, <2>2, <3>3
        <4>2. /\ ~pool[page_table[q]].dirty
              /\ loaded[page_table[q]] =>
                    pool[page_table[q]].data = [base |-> q, last |-> committed[q]]
          BY <1>1, <2>2, <4>1 DEF Isolated, Unwritten
        <4>3. committed'[q] = committed[q]
          BY <1>1, <3>3
        <4>4. ~pool'[page_table[q]].dirty /\ pool'[page_table[q]].data = pool[page_table[q]].data
          BY <1>5, <3>1, <4>2
        <4> QED BY <1>1, <4>2, <4>3, <4>4
      <3> QED BY <3>2, <3>3
    <2> QED BY <2>1, <2>2 DEF Unwritten
  <1>12. DiskExact'
    <2> SUFFICES ASSUME NEW q \in Page
                 PROVE  disk'[q] = [base |-> q, last |-> committed'[q]]
      BY DEF DiskExact
    <2>1. CASE q \in W
      BY <1>1, <1>3, <1>6, <2>1
    <2>2. CASE q \notin W
      <3>1. disk[q] = [base |-> q, last |-> committed[q]]
        BY DEF Isolated, DiskExact
      <3> QED BY <1>1, <1>3, <2>2, <3>1
    <2> QED BY <2>1, <2>2
  <1> QED BY <1>7, <1>8, <1>9, <1>10, <1>11, <1>12 DEF Isolated

\* Handing back the locks, when everything is flushed.
LEMMA CompleteIso ==
    ASSUME NEW t \in Txn, BufferInv, Isolated, NoneAborts',
           CompleteReleases(t) \/ CompleteEnds(t)
    PROVE  Isolated'
  <1>1. /\ bpc[t] \in {"flushed", "completing"}
        /\ \E place \in {"completing", "done"} : bpc' = [bpc EXCEPT ![t] = place]
        /\ txn_pages' = txn_pages \/ txn_pages' = [txn_pages EXCEPT ![t] = {}]
        /\ held' = held \/ held' = [held EXCEPT ![t] = [p \in Page |-> "none"]]
        /\ \A u \in Txn \ {t} : pc'[u] = pc[u]
        /\ UNCHANGED <<page_table, pool, free_frames, disk, ref, committed, wrote, loaded, req>>
    BY DEF CompleteReleases, CompleteEnds, ReleaseAllLocks, At, history, lockVars,
           BufferInv, LockInv, LockTypeOK
  <1>2. /\ bpc'[t] \in {"completing", "done"}
        /\ \A u \in Txn \ {t} : /\ bpc'[u] = bpc[u] /\ txn_pages'[u] = txn_pages[u]
                                /\ held'[u] = held[u]
        /\ \A p \in Page : held[t][p] = "none" => held'[t][p] = "none"
    BY <1>1 DEF BufferInv, BufferTypeOK, LockInv, LockTypeOK
  <1>3. wrote[t] = {}
    BY <1>1 DEF Isolated, Written, Working
  <1>4. AtPage'
    BY <1>1, <1>2 DEF Isolated, AtPage
  <1>5. LocksOfPages'
    BY <1>1, <1>2 DEF Isolated, LocksOfPages, Working
  <1>6. Loading'
    <2>1. \A u \in Txn : Loads(u)' <=> Loads(u)
      BY <1>1, <1>2 DEF Loads
    <2>2. \A u, v \in Txn : bpc'[u] = "load" => held'[v][ref'[u].page] = "none"
      <3> SUFFICES ASSUME NEW u \in Txn, NEW v \in Txn, bpc'[u] = "load"
                   PROVE  held'[v][ref[u].page] = "none"
        BY <1>1
      <3>1. bpc[u] = "load" /\ ref[u].page \in Page
        BY <1>1, <1>2, PageInUse
      <3>2. held[v][ref[u].page] = "none"
        BY <3>1 DEF Isolated, Loading
      <3> QED BY <1>2, <3>1, <3>2
    <2> QED BY <1>1, <2>1, <2>2 DEF Isolated, Loading
  <1>7. Written'
    <2>1. \A u \in Txn : Working(u) => Working(u)'
      BY <1>1, <1>2 DEF Working
    <2>2. \A u \in Txn : Working(u) => txn_pages[u] \subseteq txn_pages'[u]
      BY <1>1, <1>2 DEF Working
    <2>3. \A u \in Txn : \A q \in wrote[u] :
             held[u][q] = "exclusive" => held'[u][q] = "exclusive"
      BY <1>2, <1>3
    <2> QED BY <1>1, <2>1, <2>2, <2>3, WrittenKept DEF Isolated
  <1>8. Unwritten' /\ DiskExact'
    BY <1>1 DEF Isolated, Unwritten, DiskExact
  <1> QED BY <1>4, <1>5, <1>6, <1>7, <1>8 DEF Isolated

LEMMA IsolatedNext ==
    ASSUME BufferInv, CleanInv, [BufferNext]_bufferVars
    PROVE  CleanInv'
  <1>1. CASE UNCHANGED bufferVars
    <2> USE <1>1 DEF bufferVars, lockVars, codeVars, history
    <2>1. NoneAborts' <=> NoneAborts
      BY DEF NoneAborts, Unrecorded
    <2>2. (AtPage' <=> AtPage) /\ (LocksOfPages' <=> LocksOfPages) /\ (Loading' <=> Loading)
      BY DEF AtPage, LocksOfPages, Working, Loading, Loads
    <2>3. Written => Written'
      BY WrittenKept DEF Working
    <2>4. (Unwritten' <=> Unwritten) /\ (DiskExact' <=> DiskExact)
      BY DEF Unwritten, DiskExact
    <2> QED BY <2>1, <2>2, <2>3, <2>4 DEF CleanInv, Isolated
  <1>2. CASE BufferNext
    <2> SUFFICES ASSUME clean' PROVE Isolated'
      BY DEF CleanInv
    <2>1. clean /\ StaysClean
      BY <1>2 DEF BufferNext
    <2>2. Isolated /\ NoneAborts'
      BY <2>1 DEF CleanInv, StaysClean, NoneAborts
    <2>3. PICK t \in Txn : TxnStep(t)
      BY <1>2, Zenon DEF BufferNext, TxnStep
    <2>4. CASE \E p \in Page, m \in Mode : FixMapped(t, p, m) \/ FixUnmapped(t, p, m)
      BY <2>2, <2>4, FixMappedIso, FixUnmappedIso
    <2>5. CASE InLockManager(t) \/ FixLocked(t) \/ ReadFrame(t) \/ UseFrame(t)
      BY <2>2, <2>5, InLockManagerIso, FixLockedIso, ReadFrameIso, UseFrameIso
    <2>6. CASE FlushPages(t) \/ CompleteReleases(t) \/ CompleteEnds(t)
      BY <2>2, <2>6, FlushPagesIso, CompleteIso
    <2>7. CASE AbortEnds(t) \/ TransactionAbort(t) \/ AbortTxn(t)
      <3>1. bpc[t] = "aborting" \/ bpc'[t] \in {"aborting", "discarded"}
        BY <2>7 DEF AbortEnds, TransactionAbort, AbortTxn, At, BufferInv, BufferTypeOK
      <3> QED BY <2>2, <3>1 DEF Isolated, NoneAborts
    <2> QED BY <2>3, <2>4, <2>5, <2>6, <2>7 DEF TxnStep, BufferStep
  <1> QED BY <1>1, <1>2

-----------------------------------------------------------------------------
(* What follows from it.                                                   *)

\* Until the first abort, refused lock or lost upgrade, a page in the pool is written by
\* at most one transaction that holds its lock, or holds what was committed last.
THEOREM IsolationInvariant == BufferSpec => []CleanInv
  <1>1. BufferInit => CleanInv
    BY IsolatedInit DEF CleanInv
  <1>2. BufferInv /\ CleanInv /\ [BufferNext]_bufferVars => CleanInv'
    BY IsolatedNext
  <1> QED BY <1>1, <1>2, BufferInvariant, PTL DEF BufferSpec

\* Until then, what flush_pages has written for completed transactions is what is on disk,
\* and nothing of an unfinished one.
THEOREM CommitsAreDurable == BufferSpec => []DurableWhileClean
  <1>1. CleanInv => DurableWhileClean
    BY DEF CleanInv, Isolated, DiskExact, DurableWhileClean
  <1> QED BY <1>1, IsolationInvariant, PTL

\* Until then, a fixed frame that was read from disk holds the last completed write of its
\* page, or the transaction's own: no interleaving of fix_page, HeapSegment and
\* transaction_complete gives a dirty or a stale read.
THEOREM FixesAreIsolated == BufferSpec => []IsolatedWhileClean
  <1>1. ASSUME BufferInv, CleanInv PROVE IsolatedWhileClean
    <2> SUFFICES ASSUME Isolated, NEW t \in Txn, bpc[t] = "use", loaded[ref[t].frame]
                 PROVE  pool[ref[t].frame].data =
                            [base |-> ref[t].page,
                             last |-> IF ref[t].page \in wrote[t] THEN t
                                      ELSE committed[ref[t].page]]
      BY <1>1 DEF CleanInv, IsolatedWhileClean
    <2> DEFINE p == ref[t].page
    <2>1. p \in Page /\ page_table[p] = ref[t].frame /\ page_table[p] # NoFrame
      BY <1>1, PageInUse
    <2>2. held[t][p] # "none"
      BY DEF Isolated, AtPage
    <2>3. CASE p \in wrote[t]
      <3>1. pool[page_table[p]].data = [base |-> p, last |-> t]
        BY <2>3 DEF Isolated, Written
      <3> QED BY <2>1, <2>3, <3>1
    <2>4. CASE p \notin wrote[t]
      <3>1. \A u \in Txn : p \notin wrote[u]
        BY <1>1, <2>1, <2>2, <2>4, WrittenByHolder
      <3>2. pool[page_table[p]].data = [base |-> p, last |-> committed[p]]
        BY <2>1, <3>1 DEF Isolated, Unwritten
      <3> QED BY <2>1, <2>4, <3>2
    <2> QED BY <2>3, <2>4
  <1> QED BY <1>1, BufferInvariant, IsolationInvariant, PTL
=============================================================================
