--------------------------- MODULE BufferManager ---------------------------
(***************************************************************************)
(* BufferManager of lab 3, the caller of LockManager: page table, frames,  *)
(* and the pages each transaction has fixed, with the transactions of      *)
(* HeapSegment that fix a page, use its frame and unfix it.                *)
(*                                                                         *)
(* pool_mutex_ is held exactly while a thread of fix_page is in            *)
(* acquire_lock (PoolFree says no thread is); flush_pages, discard_pages   *)
(* and the final erase of txn_pages_ take it for one step each.  The frame *)
(* itself is read, written and marked dirty outside any mutex.             *)
(*                                                                         *)
(* The content of a page is where its bytes came from and the transaction  *)
(* that wrote last.  free_frames_ is a set: which free frame is taken      *)
(* matters to no property.  buffer_full_error is thrown before anything    *)
(* changes and is no step.  A transaction that ended is not started again: *)
(* start_txn never hands out an id twice.                                  *)
(***************************************************************************)
EXTENDS LockManager

CONSTANTS Frame,     \* frames of pool_
          NoFrame,   \* a page that page_table_ does not map
          NoPage,    \* INVALID_PAGE_ID, and the origin of a frame's first, zero bytes
          AbortPaths \* which of the two ways to abort clients use

ASSUME BufferAssumption ==
    /\ 0 \notin Txn
    /\ NoFrame \notin Frame
    /\ NoPage \notin Page
    /\ AbortPaths \subseteq {"transaction_abort", "abort_txn"}

VARIABLES
    page_table,   \* page_table[p]: the frame of page p, or NoFrame
    pool,         \* pool[f]: page id, dirty flag and content of frame f
    free_frames,
    txn_pages,    \* txn_pages[t]: pages t has fixed
    disk,         \* disk[p]: content of page p in its segment file
    bpc,          \* where t's thread is in the buffer manager
    ref,          \* t's fix_page: the frame it returns, and its arguments
    committed,    \* committed[p]: last completed transaction that wrote p (history)
    wrote,        \* wrote[t]: pages t has written (history)
    loaded,       \* loaded[f]: f was read from disk since it was mapped (history)
    clean         \* no abort, refused lock or lost upgrade so far (history)

codeVars == <<page_table, pool, free_frames, txn_pages, disk, bpc, ref>>
history == <<committed, wrote, loaded>>
bufferVars == <<lockVars, codeVars, history, clean>>

Content == [base : Page \cup {NoPage}, last : Txn \cup {0}]
FrameState == [page : Page \cup {NoPage}, dirty : BOOLEAN, data : Content]
Ref == [frame : Frame \cup {NoFrame}, page : Page \cup {NoPage}, mode : Modes]
BufferPcs == {"run", "fix", "load", "read", "use", "discarded", "flushed", "completing",
              "aborting", "done"}

NoRef == [frame |-> NoFrame, page |-> NoPage, mode |-> "none"]

BufferInit ==
    /\ LockInit
    /\ page_table = [p \in Page |-> NoFrame]
    /\ pool = [f \in Frame |-> [page |-> NoPage, dirty |-> FALSE,
                                data |-> [base |-> NoPage, last |-> 0]]]
    /\ free_frames = Frame
    /\ txn_pages = [t \in Txn |-> {}]
    /\ disk = [p \in Page |-> [base |-> p, last |-> 0]]
    /\ bpc = [t \in Txn |-> "run"]
    /\ ref = [t \in Txn |-> NoRef]
    /\ committed = [p \in Page |-> 0]
    /\ wrote = [t \in Txn |-> {}]
    /\ loaded = [f \in Frame |-> FALSE]
    /\ clean = TRUE

PoolFree == \A t \in Txn : pc[t] \notin Acquire

At(t, place) == bpc' = [bpc EXCEPT ![t] = place]

\* The client may start a call: no other call is under way and none threw.
Running(t) == bpc[t] = "run" /\ pc[t] = "idle"

-----------------------------------------------------------------------------
(* fix_page                                                                *)

\* Variant with a fault: a page in the pool is locked shared, whatever is asked.
FixMappedFaulty(t, p, m) ==
    /\ Running(t) /\ PoolFree
    /\ page_table[p] # NoFrame
    /\ AcquireLock(t, p, "shared")
    /\ ref' = [ref EXCEPT ![t] = [frame |-> page_table[p], page |-> p, mode |-> m]]
    /\ At(t, "fix")
    /\ UNCHANGED <<page_table, pool, free_frames, txn_pages, disk, history>>

\* The page is in the pool: lock it.
FixMapped(t, p, m) ==
    /\ Running(t) /\ PoolFree
    /\ page_table[p] # NoFrame
    /\ AcquireLock(t, p, m)
    /\ ref' = [ref EXCEPT ![t] = [frame |-> page_table[p], page |-> p, mode |-> m]]
    /\ At(t, "fix")
    /\ UNCHANGED <<page_table, pool, free_frames, txn_pages, disk, history>>

\* It is not: map it to a free frame and note it for t before locking it.
FixUnmapped(t, p, m) ==
    /\ Running(t) /\ PoolFree
    /\ page_table[p] = NoFrame
    /\ AcquireLock(t, p, m)
    /\ \E f \in free_frames :
        /\ free_frames' = free_frames \ {f}
        /\ page_table' = [page_table EXCEPT ![p] = f]
        /\ pool' = [pool EXCEPT ![f].page = p]
        /\ ref' = [ref EXCEPT ![t] = [frame |-> f, page |-> p, mode |-> m]]
        /\ loaded' = [loaded EXCEPT ![f] = FALSE]
    /\ txn_pages' = [txn_pages EXCEPT ![t] = @ \cup {p}]
    /\ At(t, "load")
    /\ UNCHANGED <<disk, committed, wrote>>

\* Variant with a fault: the page is noted only by the transaction that mapped it.
FixLockedFaulty(t) ==
    /\ AcquireReturns(t)
    /\ At(t, IF bpc[t] = "load" THEN "read" ELSE "use")
    /\ UNCHANGED <<page_table, pool, free_frames, txn_pages, disk, ref, history>>

\* acquire_lock returned: t has the page, or has to read it once pool_mutex_ is released.
FixLocked(t) ==
    /\ AcquireReturns(t)
    /\ txn_pages' = [txn_pages EXCEPT ![t] = @ \cup {req[t].page}]
    /\ At(t, IF bpc[t] = "load" THEN "read" ELSE "use")
    /\ UNCHANGED <<page_table, pool, free_frames, disk, ref, history>>

\* read_frame: of the page the frame now belongs to; for INVALID_PAGE_ID no bytes are read.
ReadFrame(t) ==
    /\ bpc[t] = "read"
    /\ LET f == ref[t].frame
       IN  /\ pool' = IF pool[f].page = NoPage THEN pool
                      ELSE [pool EXCEPT ![f].data = disk[pool[f].page]]
           /\ loaded' = [loaded EXCEPT ![f] = TRUE]
    /\ At(t, "use")
    /\ UNCHANGED <<lockVars, page_table, free_frames, txn_pages, disk, ref, committed, wrote>>

\* HeapSegment between fix_page and its return: a shared fix copies bytes out, an
\* exclusive one writes them and marks the frame dirty.
UseFrame(t) ==
    LET f == ref[t].frame
    IN  /\ bpc[t] = "use"
        /\ IF ref[t].mode = "exclusive"
           THEN /\ pool' = [pool EXCEPT ![f].data.last = t, ![f].dirty = TRUE]
                /\ wrote' = [wrote EXCEPT ![t] = @ \cup {ref[t].page}]
           ELSE UNCHANGED <<pool, wrote>>
        /\ ref' = [ref EXCEPT ![t] = NoRef]
        /\ At(t, "run")
        /\ UNCHANGED <<lockVars, page_table, free_frames, txn_pages, disk, committed, loaded>>

-----------------------------------------------------------------------------
(* transaction_complete                                                    *)

\* Variant with a fault: everything dirty is flushed, as flush_all_pages does.
DirtyPagesFaulty(t) == {p \in Page : page_table[p] # NoFrame /\ pool[page_table[p]].dirty}

\* Frames of t's pages that hold something to flush.
DirtyPages(t) == {p \in txn_pages[t] : page_table[p] # NoFrame /\ pool[page_table[p]].dirty}

\* flush_pages: every page t has fixed, if it is mapped and dirty.  commit_txn calls it
\* once more before transaction_complete does; the second call finds nothing to write.
FlushPages(t) ==
    /\ Running(t) \/ bpc[t] = "discarded"
    /\ PoolFree
    /\ disk' = [p \in Page |-> IF p \in DirtyPages(t) THEN pool[page_table[p]].data ELSE disk[p]]
    /\ pool' = [f \in Frame |-> IF \E p \in DirtyPages(t) : page_table[p] = f
                                THEN [pool[f] EXCEPT !.dirty = FALSE] ELSE pool[f]]
    /\ committed' = [p \in Page |-> IF p \in wrote[t] THEN t ELSE committed[p]]
    /\ wrote' = [wrote EXCEPT ![t] = {}]
    /\ At(t, "flushed")
    /\ UNCHANGED <<lockVars, page_table, free_frames, txn_pages, ref, loaded>>

\* The call of release_all_locks, made outside pool_mutex_.
CompleteReleases(t) ==
    /\ bpc[t] = "flushed"
    /\ ReleaseAllLocks(t)
    /\ At(t, "completing")
    /\ UNCHANGED <<page_table, pool, free_frames, txn_pages, disk, ref, history>>

CompleteEnds(t) ==
    /\ bpc[t] = "completing" /\ pc[t] = "idle" /\ PoolFree
    /\ txn_pages' = [txn_pages EXCEPT ![t] = {}]
    /\ At(t, "done")
    /\ UNCHANGED <<lockVars, page_table, pool, free_frames, disk, ref, history>>

-----------------------------------------------------------------------------
(* The two ways to abort, also taken by a client that caught an error.     *)

\* Variants with a fault: pages another transaction has unmapped are freed again ...
DiscardPagesUnchecked(t) ==
    LET freed == {page_table[p] : p \in txn_pages[t]}
    IN  /\ page_table' = [p \in Page |-> IF p \in txn_pages[t] THEN NoFrame ELSE page_table[p]]
        /\ pool' = [f \in Frame |-> IF f \in freed
                                    THEN [pool[f] EXCEPT !.page = NoPage, !.dirty = FALSE]
                                    ELSE pool[f]]
        /\ free_frames' = free_frames \cup freed
        /\ txn_pages' = [txn_pages EXCEPT ![t] = {}]

\* ... and the page table is not told of the frames freed.
DiscardPagesStillMapped(t) ==
    LET freed == {page_table[p] : p \in txn_pages[t]} \ {NoFrame}
    IN  /\ pool' = [f \in Frame |-> IF f \in freed
                                    THEN [pool[f] EXCEPT !.page = NoPage, !.dirty = FALSE]
                                    ELSE pool[f]]
        /\ free_frames' = free_frames \cup freed
        /\ txn_pages' = [txn_pages EXCEPT ![t] = {}]
        /\ UNCHANGED page_table

\* discard_pages: unmap and free the frame of every page t has fixed, written or not.
DiscardPages(t) ==
    LET gone == {p \in txn_pages[t] : page_table[p] # NoFrame}
        freed == {page_table[p] : p \in gone}
    IN  /\ page_table' = [p \in Page |-> IF p \in gone THEN NoFrame ELSE page_table[p]]
        /\ pool' = [f \in Frame |-> IF f \in freed
                                    THEN [pool[f] EXCEPT !.page = NoPage, !.dirty = FALSE]
                                    ELSE pool[f]]
        /\ free_frames' = free_frames \cup freed
        /\ txn_pages' = [txn_pages EXCEPT ![t] = {}]

MayAbort(t) == Running(t) \/ pc[t] = "thrown"

\* BufferManager::transaction_abort releases the locks first ...
TransactionAbort(t) ==
    /\ "transaction_abort" \in AbortPaths
    /\ MayAbort(t)
    /\ ReleaseAllLocks(t)
    /\ ref' = [ref EXCEPT ![t] = NoRef]
    /\ wrote' = [wrote EXCEPT ![t] = {}]
    /\ At(t, "aborting")
    /\ UNCHANGED <<page_table, pool, free_frames, txn_pages, disk, committed, loaded>>

\* ... and discards the pages when they are released.
AbortEnds(t) ==
    /\ bpc[t] = "aborting" /\ pc[t] = "idle" /\ PoolFree
    /\ DiscardPages(t)
    /\ At(t, "done")
    /\ UNCHANGED <<lockVars, disk, ref, history>>

\* TransactionManager::abort_txn discards first and then completes the transaction.
AbortTxn(t) ==
    /\ "abort_txn" \in AbortPaths
    /\ MayAbort(t) /\ PoolFree
    /\ DiscardPages(t)
    /\ ref' = [ref EXCEPT ![t] = NoRef]
    /\ wrote' = [wrote EXCEPT ![t] = {}]
    /\ At(t, "discarded")
    /\ UNCHANGED <<lockVars, disk, committed, loaded>>

-----------------------------------------------------------------------------
\* Steps of the lock manager's own, in acquire_lock or release_all_locks.
InLockManager(t) == LockStep(t) /\ UNCHANGED <<codeVars, history>>

\* Steps of a call that is under way.
BufferStep(t) ==
    \/ InLockManager(t) \/ FixLocked(t) \/ ReadFrame(t) \/ UseFrame(t)
    \/ CompleteReleases(t) \/ CompleteEnds(t) \/ AbortEnds(t)

\* Held locks whose entry does not say so, after a lost upgrade.
Unrecorded(t) == {p \in Page : held[t][p] = "exclusive" /\ granted[p][t] # "exclusive"}

StaysClean ==
    \A t \in Txn : /\ pc'[t] # "thrown"
                   /\ bpc'[t] \notin {"aborting", "discarded"}
                   /\ Unrecorded(t)' = {}

BufferNext ==
    /\ \E t \in Txn :
        \/ \E p \in Page, m \in Mode : FixMapped(t, p, m) \/ FixUnmapped(t, p, m)
        \/ BufferStep(t)
        \/ FlushPages(t)
        \/ TransactionAbort(t)
        \/ AbortTxn(t)
    /\ clean' = (clean /\ StaysClean)

BufferSpec == BufferInit /\ [][BufferNext]_bufferVars

\* Threads inside a call run; nothing is assumed of clients or of who gets a mutex.
BufferFairSpec ==
    BufferSpec /\ \A t \in Txn : WF_bufferVars(BufferStep(t) /\ clean' = (clean /\ StaysClean))

-----------------------------------------------------------------------------
BufferTypeOK ==
    /\ page_table \in [Page -> Frame \cup {NoFrame}]
    /\ pool \in [Frame -> FrameState]
    /\ free_frames \subseteq Frame
    /\ txn_pages \in [Txn -> SUBSET Page]
    /\ disk \in [Page -> Content]
    /\ bpc \in [Txn -> BufferPcs]
    /\ ref \in [Txn -> Ref]
    /\ committed \in [Page -> Txn \cup {0}]
    /\ wrote \in [Txn -> SUBSET Page]
    /\ loaded \in [Frame -> BOOLEAN]
    /\ clean \in BOOLEAN

\* A frame is either free or mapped by exactly one page, whose id it carries, through
\* every way a fix can fail and every order of aborts: no frame leaks, none is shared.
FramesConserved ==
    /\ \A f \in Frame : f \in free_frames <=> \A p \in Page : page_table[p] # f
    /\ \A p, q \in Page : (p # q /\ page_table[p] # NoFrame) => page_table[p] # page_table[q]
    /\ \A p \in Page : page_table[p] # NoFrame => pool[page_table[p]].page = p
    /\ \A f \in free_frames : pool[f].page = NoPage

\* The caller keeps to the lock manager's protocol.
KeepsLockProtocol == LockSpec

\* A transaction between calls has noted every page it has locked: what it flushes when
\* it completes covers all it may have written.
LockedPagesNoted ==
    \A t \in Txn : Running(t) => txn_locks[t] \subseteq txn_pages[t]

\* Until the first abort, refused lock or lost upgrade: what a completed transaction
\* wrote is on disk, and neither older nor unfinished writes of others are.
DurableWhileClean == clean => \A p \in Page : disk[p] = [base |-> p, last |-> committed[p]]

\* Until then, a fixed frame that has been read from disk holds the page's last completed
\* write, or the transaction's own: no dirty read and no stale one.
IsolatedWhileClean ==
    clean => \A t \in Txn :
        (bpc[t] = "use" /\ loaded[ref[t].frame]) =>
            LET p == ref[t].page
            IN  pool[ref[t].frame].data =
                    [base |-> p, last |-> IF p \in wrote[t] THEN t ELSE committed[p]]

\* pool_mutex_ is never held for ever, though its holder waits for locks whose owners may
\* need pool_mutex_ to complete and release them.
PoolMutexReleased == ~PoolFree ~> PoolFree

\* transaction_abort "discards all the changes made by the transaction and also releases
\* all the locks" (README.md:59, in that order by README.md:69-72): with every abort made
\* through it, no transaction that holds a page uses a write of an aborting one.
NoAbortedWriteSeen ==
    \A t, u \in Txn :
        (t # u /\ bpc[t] = "use" /\ bpc[u] = "aborting" /\ page_table[ref[t].page] = ref[t].frame)
            => pool[ref[t].frame].data.last \in {committed[ref[t].page], t}
=============================================================================
