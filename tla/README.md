# Models of the buzzdb labs

TLA+ models, TLC runs and TLAPS proofs for the four labs of this repository:
external sorting (lab 1), logging and recovery (lab 2), locking and
transactions (lab 3), and join ordering (lab 4), and for the script that runs
clang-tidy in all of them. Labs 2 and 3 hold the state that is shared, survives
crashes or is used from several threads, and come first.

## Inventory

| component | state | operations | interacts with |
|---|---|---|---|
| lab 3 `FrameLockManager` | `granted_locks_` of one page | `grant_lock`, `release_lock`, tests of what is held | `LockManager`; its condition variable wakes waiters |
| lab 3 `LockManager` | `txn_locks_`, `waiting_graph_`, one `FrameLockManager` per page | `acquire_lock`, `check_deadlock`, `release_all_locks` | called by `BufferManager` inside and outside `pool_mutex_` |
| lab 3 `BufferManager` | `pool_`, `page_table_`, `free_frames_`, `txn_pages_` | `fix_page`, `unfix_page`, `flush_pages`, `discard_pages`, `transaction_complete`, `transaction_abort` | segment files, `LockManager` |
| lab 3 `TransactionManager` | counter, table of transactions | `start_txn`, `commit_txn`, `abort_txn` | `BufferManager` |
| lab 2 `LogManager` | the log file, `current_offset_`, first record of each transaction | `log_*`, `rollback_txn`, `recovery` | `BufferManager` |
| lab 2 `TransactionManager` | counter, table with the pages each transaction modified | `start_txn`, `commit_txn`, `abort_txn`, `reset` | `LogManager`, `BufferManager` |
| lab 2 `BufferManager` | `pool_`, `page_counter_` | `fix_page`, `flush_page`, `discard_page`, and both for all pages | segment files |
| `HeapSegment`, `SlottedPage` | page count; header and slots of each page | `allocate`, `read`, `write`, `addSlot` | `BufferManager`, `LogManager` |
| lab 1 `external_sort` | chunk files, a priority queue | one function | `File` |
| lab 4 `IntHistogram`, `TableStats` | bucket counts | `add_value`, `estimate_selectivity`, ... | heap pages |
| lab 4 `JoinOptimizer` | plan cache | `order_joins` | `TableStats` |
| `script/run_clang_tidy.py` | a bounded queue and its count of tasks, `failed_files`, a temporary directory | the main thread and `run_tidy` in each worker | `queue.Queue`, clang-tidy, the file system |
| `script/cpplint.py`, `script/run_clang_format.py` | none that outlives a file | check or format one file after the other | - |

What is hard in them:

* **Threads (lab 3).** `fix_page` holds `pool_mutex_` while it waits for a lock;
  other threads release locks without it. Waits end by a wake-up or a deadline.
  Frames are read and written outside any mutex.
* **Crashes (lab 2).** Only files survive. A commit, an abort and a recovery each
  write several pages and a record, and a crash may come between any two writes; a
  record alone is written in up to seven.
* **Sharing.** Transactions insert into the same page; flushing and discarding
  work on whole pages.
* **Stale bytes (lab 3).** A page stores where in memory it is, frames keep their
  bytes when they are freed, and reading beyond the end of a file reads nothing.
* **Daemon threads (script).** A worker may die with a file in hand; the main thread
  waits for a count and then reads what the workers left.
* **Arithmetic.** 32-bit header fields, bucket boundaries, chunk boundaries.

What makes each component correct: compatible and tracked locks, and no call
that blocks for ever (lock manager); no frame leaked or shared, flushed writes
before released locks (buffer manager); disk and log determine the committed
rows after every write (logging); the output is the sorted input (sort); fractions
in [0, 1] that agree with the counts (histogram); every join in the plan once
(optimizer).

`PROJECT.json` lists the hazards at their lines, with the properties that stand
against each.

## Modules

### `LockTable`: what locking promises

One table of holders and modes, with two operations: `Obtain` a mode that is
compatible with what others hold, and `GiveBack`. `LockManager` implements it.

### `LockManager`: lab 3 locks

A transaction is one thread; `pc` says where it is in `acquire_lock` or
`release_all_locks`. A step is one critical section:

| action | code (`lab3/src/buffer/buffer_manager.cc`) |
|---|---|
| `AcquireLock` | `acquire_lock` to its first decision: held already, sole holder, or look for conflicts |
| `Scan` | the loop over `txn_locks_` under `mutex_` |
| `CheckDeadlock` | `check_deadlock` for one holder, in ascending order, with `has_cycle` |
| `GrantLock` | `grant_lock` up to its return or its wait |
| `WakeGrant`, `WakeUpgrade`, `Timeout` | the three ways `wait_until` ends |
| `RecordLock` | the update of `txn_locks_` and `waiting_graph_` |
| `AcquireReturns` | the return to `fix_page` |
| `ReleaseAllLocks`, `ReleaseFrame`, `Untrack` | `release_all_locks`: the copy, then for each page the frame's list and the manager's maps |

The vector `granted_locks_` is given by `granted` (mode) and `slot` (position).
The position matters for one thing: `grant_lock` keeps a reference to an entry
over a wait (`UpgradedMode`). `held` is history: what `acquire_lock` told its
caller. Calls of `acquire_lock` never overlap, for `fix_page` makes them under
`pool_mutex_`; calls of `release_all_locks` overlap with everything.

### `BufferManager`: lab 3 buffer manager and its transactions

Extends `LockManager`. `fix_page` is `FixMapped` or `FixUnmapped` up to the call of
`acquire_lock`, the steps of the lock manager, `FixLocked` when the call returns
and `pool_mutex_` is given back, and `ReadFrame` when the page has to be read.
`UseFrame` stands for `HeapSegment::read` and `write` between the fix and their
return. `FlushPages`, `CompleteReleases`, `CompleteEnds` are
`transaction_complete`; `TransactionAbort`, `AbortEnds` are
`BufferManager::transaction_abort`; `AbortTxn` and then the steps of
`transaction_complete` are `TransactionManager::abort_txn`. `AbortPaths` says
which of the two the clients use. A page's content is where its bytes came
from and who wrote last. `committed`, `wrote`, `loaded` and `clean` are history.

### `LogManager`: lab 2 log

The log as a sequence of records, and recovery and rollback as operators on it:
`CommittedTxns` and `ActiveTxns` (analysis), `RedoData` (redo), `RollbackData`
(`rollback_txn`). The loops that overwrite a slot again and again are given by
the write that comes last. `RecoveredData` is the reference the steps of a
recovery are compared with. `Misread` and `TornUpdates` say what `read_log_record` makes of
a record of which a crash left only the first blocks.

### `TransactionManager`: lab 2 with crashes

Extends `LogManager` by the disk, the buffer, the heap segment and the
transaction table. One thread makes calls for interleaved transactions; a call
is cut at every write to a file (`FlushFrame` is one page of a flush), and
`Crash` may come between any two steps. `Crash` is what `crash()` of the tests
does: buffer and transaction table are cleared (`Reset`), ids start from 1, the
`LogManager` object and the page count stay; it goes on with `Redo`, `Undo` for
each loser in the order of ids, and `FinalFlush`. `incarnation`, `outcome`,
`rows` and `log_end` are history: ids are reused, so transactions are told apart by a
number of their own, which is also what they write into their rows.

The one write that is not a step of its own is a block of a log record: `write_log_record`
makes two to seven of them (`log_manager.cc:298-329`), nothing reads the file in between, and a
crash there is an action, `CrashInRecord`. The record then ends where the crash came, with
`current_offset_` behind its last block, and the next `recovery` reads it; `read_log_record`
does not notice that it is short, for reading beyond the end of a file changes nothing:

| cut off after | read as | `log_end` |
|---|---|---|
| the type of a checkpoint | a checkpoint | "torn" |
| the type of any other record | that record, of the transaction whose id the memory of the `LogRecord` happened to hold | "torn" if there is none, else "misread" |
| the transaction of an update, its page or its length | an update of a place that memory decides | "torn" if of no transaction, else "misread" |
| the offset of an update, or its before image | the update, with images of zeros | "torn" |

A misread COMMIT is the worst: a running transaction is redone as committed, or an update of
zeros goes over a committed row. So `Recoverable`, `ScanExact` and `CommittedOnDisk` except
`log_end = "misread"`; TLC finds each of them, and `LosersGone`, violated without that
exception. What is claimed is the rest: all crashes between two records or two pages, and in a
record wherever what is read back is what was written or belongs to nobody.

### `SortTask` and `ExternalSort`: lab 1

`SortTask` is the promise: in one step the result appears, ascending and with each
value as often as the input has it. `ExternalSort` is the code
(`lab1_External_Sort/src/external_sort/external_sort.cc`):

| action | code |
|---|---|
| `SortChunk` | one iteration of step 1: read a block, `std::sort`, a temporary file |
| `StartMerge` | the first value of each chunk into the queue, `output.resize` |
| `MergeStep` | one iteration of the merge: `top`, `pop`, write, and the next value of that chunk |
| `Return` | the queue is empty |

A value is named by its place in the input, so that equal values are told apart:
`std::sort` and the queue may order them in any way, which is the `\E` in
`SortChunk` and in `MergeStep`. `output` starts with the size the file had; zeros are
bytes that come from no value. `Sorted`, the mapping to `SortTask`, turns places into
values, and a byte of no value into a zero.

### `JoinOptimizer`: lab 4 join ordering

`order_joins` (`lab4_Query_Optimizer/src/optimizer/join_optimizer.cc`) has four ways to its
result: `OrderNothing`, `OrderBigTable`, `OrderNonEquality`, and the search by cost.
The search takes the subsets of the joins in order of size (`NextSubset`), tries
each join of a subset as its last one in the order of `std::set` (`First`), and puts the
best plan into the cache (`AddPlan`). A try is `compute_cost_and_card_of_subplan` and
ends in one of three ways: `SkipCrossProduct` (it returns false), `ReplaceBest`, and
`LeaveUnset`: it returns true without having set `cc`. What an unset cost is, the
language does not say, so `LeaveUnset` takes any value of `Unset`; the unset plan is
empty. `unset` is history. `Executed`, the reference for the cache, computes what a plan
costs from its joins alone. It tells from the query which way round a join was meant
(`Original`), and so `CachedCostsAreEstimates` is about queries that state no join in both
directions (`OneDirection`): of a plan with both, the cost depends on which one it is taken for.
The loops of the two rules are `InOrder`: joins at some positions, in their order.

### `SlottedPage` and `HeapSegment`: lab 3 pages and rows

`SlottedPage` is the page (`storage/slotted_page.cc`) and `addSlot`, in words of 8 bytes,
the size of a slot. `HeapSegment` puts pages into the frames of the buffer manager:

| action | code |
|---|---|
| `Insert`, `TryPage`, `NewPage`, `Write` | `insert_row` of `buffer_manager_test.cc`: `allocate`, page by page, then `write` |
| `Look`, `LookPage`, `ReadRows`, `LookEnds` | `look` of that test, with `HeapSegment::read` |
| `TransactionComplete`, `TransactionAbort` | flush and end; free the frames in the order of their pages |
| `BufferFull` | `buffer_full_error` out of any of these calls |

Transactions run one at a time here; `BufferManager` is about those that overlap. What
is kept in full is the bytes: `SlotsOf` follows the pointer `buffer_frame` in the
header to whatever frame it names, and `Fixed` finds in a frame what its last page left
there if the page is not in the file. `clean` is history: it stays true until a slot
was added through a pointer to another frame, or a page took over such bytes. After
either, rows are lost or come back, and `look` may end the program by `exit(0)`; the
pointer is put right by `look` alone, so that the order insert, abort, insert without
a look between is what a client has to avoid.

### `RunClangTidy`: the script

| action | code (`script/run_clang_tidy.py`) |
|---|---|
| `StartUp` | `main` until the threads run, or `exit(1)` |
| `Put`, `EndFill` | the loop over the files of the database |
| `Join` | `task_queue.join()` and the report of `failed_files` |
| `ExportFixes`, `ApplyFixes` | `merge_replacement_files`, `apply_fixes`, with what they may raise |
| `RemoveFiles`, `RemoveDir` | `shutil.rmtree`, in the two halves other threads can come between |
| `Interrupt` | Ctrl-C in the main thread, at any of its places: the handler of the loop and of `join`, or a traceback |
| `Get`, `GetTidyInvocation`, `Skip`, `Start`, `Communicate`, `Report` | `run_tidy` in thread `w` |

A thread whose function raised is "dead", and its file stays counted in `unfinished`.
`verdict` and `fixes` are history: what clang-tidy said of each file.

## Runs

| run | instance | result |
|---|---|---|
| `locks` | 3 transactions, 1 page | all hold; 40,109 states |
| `lost_upgrade` | 2 transactions, 1 page | `HeldCompatible` is violated |
| `false_deadlock` | 2 transactions, 2 pages | `DeadlocksAreReal` is violated |
| `buffer_pool` | 2 transactions, 2 pages, 2 frames, both ways to abort | all hold; 410,015 states |
| `abort_order` | 2 transactions, 1 page, `transaction_abort` only | `NoAbortedWriteSeen` is violated |
| `recovery` | 2 transactions, 2 pages of 2 slots, 1 checkpoint | all hold; 627,242 states |
| `reused_ids` | as `recovery`, crashes after ids were reused | `LosersGone` is violated |
| `external_sort` | inputs of up to 5 values out of 3, chunks of 1 to 4 | all hold; 84,562 states |
| `join_order` | queries of up to 3 joins, 3 kinds of tables | all hold |
| `lost_plan` | the query of `OrderJoinsTest` | `EveryJoinOrdered` is violated |
| `heap_pages` | 4 pages of 5 or 6 words, 3 frames, 5 rows of 2 words | all hold; 108,500 states |
| `clang_tidy` | 3 files, 2 threads | all hold; 500,248 states |

**Why the bounds are enough.** Three transactions on a page give an upgrader, a
holder in front of it and a third that asks later, which is what a stale
reference into the vector needs; 2 x 2 gives locks held crosswise (`locks` with
two transactions and two pages, and with three and two, was run as well and
passes). Two frames for two pages are recycled by every abort; with one page
fewer than frames, `abort_order` has the free frame its second reader takes.
In `recovery` two rows fit a page and two transactions share it; a second page
makes flushes stop half-way. Three transactions on 2 pages of 2 slots without
checkpoints pass too (1.8 million states). In `external_sort`
five values with chunks of one to four give full and partial last chunks, one chunk
only, and a chunk that is exhausted while others are not; three values give ties
within a chunk and between chunks, and the output file was shorter, longer or new.
In `join_order` three joins give subsets whose own subsets are joined, crossed or lost; a
chain, a star and a triangle put the joined tables on the left, on the right and on
both sides of the next join; one query has a join in both directions; small, large and empty tables make either way round
the cheaper one, with ties, and `Unset` has a cost below and one above all plans.

In `heap_pages` a page of 6 words is filled by two records, as the 128-byte pages of the
tests are filled by four of theirs; one of 5 has room for a second record but not for its
slot, which is the one way `free_space` wraps (`PagesWellFormed` says so). With one frame
fewer than pages the pool runs full and every page can return in another frame.
In `clang_tidy` three files and a queue for two make `put` wait, and leave a file in the
queue while both threads are busy or dead.

**Bounds in guards.** `MaxTxns` and `MaxCheckpoints` bound the log; `InsertRow`
stops at the last page of `Page`. After a record was cut off no transaction and no checkpoint
is started (`log_end = "whole"` in `StartTxn` and `LogCheckpoint`), as what is logged then lands
inside that record and is not read back as it was written; recoveries, flushes and crashes go on. In `BufferManager` a transaction that ended
starts no new one. `MaxValues` and `OldSizes` bound the files of `ExternalSort`, and
`Queries` and `Statistics` are the inputs of `JoinOptimizer`. `MaxPages` and `MaxRows`
bound `HeapSegment`. Nothing else is bounded.

**Deadlock.** `buffer_pool`, `abort_order` and the runs of `TransactionManager`
may stop: all transactions are over. `external_sort` and the runs of `JoinOptimizer` stop when the function has returned,
`heap_pages` when a slot or a header was overwritten, `look` ended the program or the bounds
are reached, and `clang_tidy` when the program ended or is stuck as `EndsUnlessStuck` says.

**Fairness.** `LockFairSpec` and `BufferFairSpec` ask that a thread that can take
a step inside a call takes one (`WF` for each transaction). The scheduler
gives that, and `wait_until` returns when its deadline has passed, so `Timeout`
is such a step. Nobody has to start a call or to end a transaction, and no mutex
is taken to be fair: `PoolMutexReleased` shows that whoever waits with
`pool_mutex_` held gives it back, although the owner of the lock may need that
mutex to release it. `SortFairSpec` and `JoinFairSpec` say that the one thread of the function runs on.
`FairSpec` of `RunClangTidy` says that the main thread and each worker are scheduled and
that clang-tidy ends; nobody has to press Ctrl-C. A step that may end in an exception may do so
every time.

### What the violations show

* **A lost upgrade** (`lost_upgrade`). `grant_lock` waits with a reference to its
  entry; the release that ends the wait erases an earlier entry, and the new mode
  is written behind the end of the vector. The transaction believes it holds an
  exclusive lock, the table says shared, and another shared lock is granted.
* **A deadlock of one** (`false_deadlock`). A timeout leaves its edge in
  `waiting_graph_`; later a transaction is refused because of a cycle through it. As all
  calls of `acquire_lock` are made under `pool_mutex_`, no two transactions ever wait at a time:
  every deadlock the code reports rests on such an edge, and true ones end by the timeout.
* **An aborted write is read** (`abort_order`). `transaction_abort` releases its
  locks before it discards its pages.
* **A crashed row survives** (`reused_ids`). Ids restart after a recovery; the log
  does not.
* **A plan is lost** (`lost_plan`). A last join that is no cheaper than the best so far
  replaces it by a `CostCard` in which nothing was set; if that happens for the whole set
  of joins, `order_joins` returns no join. `OrderedUnlessUnset` shows that this is
  the only way a complete order is missed, and `CachedCostsAreEstimates` that no unset
  cost gets into a later estimate.

`clean` in `DurableWhileClean` and `IsolatedWhileClean` is the complement of the
first and third: until the first abort, refused lock or lost upgrade, commits are
durable and isolated. `loaded` in the latter names one more thing the code does: a
second shared `fix_page` may return a frame the first is still about to read
(`read_frame` runs outside `pool_mutex_`), and its client then sees the bytes of the
frame's last page. `FlushBeforeAbort` and `CrashAfterReuse` in `TransactionManager`
likewise name the assumption under which the properties of `recovery` hold: without
the first, which the tests keep to, `abort_txn` discards pages with the unflushed rows
of other transactions, and those are lost although they commit.

### Where code and documents differ without a run

* Lab 4 `README.md:132` asks that adjacent joins of the order share a field. The search takes any
  left-deep order without a cross product (`NoCrossProduct`). For the query of `OrderJoinsTest`
  with small tables but for a `hobby` of which the filter leaves nothing, TLC finds hobbies with
  emp, hobby with hobbies, emp with dept: the last two have no table in common. The rules for
  big_table and for joins that are no equalities keep the order of the query, whatever it is.
* Lab 3 `README.md:33-38` says that `unfix_page` releases the page's locks and flushes it.
  `unfix_page` (`buffer_manager.cc:639`) only sets the dirty flag; its comment gives two-phase
  locking as the reason, and `transaction_complete` does both. The model follows the code.
* Lab 2 `README.md:5` names the policy "No-Force/Steal". `commit_txn` flushes every page of the
  transaction before it logs the commit (`transaction_manager.cc:52-66`), which is Force, and
  `CommittedOnDisk` is a consequence.
* Lab 2 `README.md:19` says that `HeapSegment` calls `log_update` before an update. `write` calls
  it afterwards (`heap_file.cc:248-254`); `LoggedBeforeDisk` shows that no flush comes between.
* The same line says that no modification of a crashed transaction persists, and that those of
  committed ones are reflected after a crash: not so when a log record that was cut off is read
  as another one, as said of `CrashInRecord` above.

## Proofs

`LockManagerProofs` proves, for every finite set of transactions and every set of
pages (`TxnAssumption`, `PageAssumption`):

* `LockInvariant`: `LockInv` is inductive. `GrantedCompatible` alone is not:
  that a grant is compatible needs what the thread knows at its place
  (`EntryAtPc`: it has an entry or not; `Decided`: how it got there), that only
  one thread is in `acquire_lock` (`Serial`), and that a release has the entry
  it is about to drop (`ReleaseAtPc`).
* `LockTypeCorrect`, `RecordedLocksCompatible`, `NoLockIsLeaked`,
  `HeldLocksRecorded`, `QuickGrantNeverWaits`: the run's invariants.
* `LockManagerImplementsTable`: every step of `LockManager` is a step of
  `LockTable` or leaves the table unchanged.

`BufferManagerProofs` proves, for any frames as well (`BufferAssumption`):

* `LockProtocolKept`: each step of `BufferManager` is a step of `LockManager` or
  leaves its variables alone, so that `LockInvariant` and all that follows from it
  hold of the locks under the buffer manager too (`BufferLocksCompatible`).
* `BufferInvariant`: `BufferInv` is inductive. `FramesConserved` is so with the
  types alone. `LockedPagesNoted` is not: during `fix_page` a lock is tracked before
  its page is noted, so `LocksNoted` excepts the page at the place "granted", and
  `PcAtBpc` says that this place is reached from `fix_page` only. `RefAtBpc` types
  the frame a thread uses.
* `BufferTypeCorrect`, `NoFrameIsLost`, `FlushCoversLockedPages`: the run's
  invariants.

and, from `BufferInv`, what lab 3 promises as long as `clean` holds:

* `IsolationInvariant`: `Isolated` is inductive. That the flush of one transaction writes its own
  pages and no others (`FlushesWrites`) rests on three facts: what a transaction wrote is dirty,
  noted and exclusively locked (`Written`), what is noted is locked (`LocksOfPages`), and what
  nobody wrote is not dirty (`Unwritten`). A frame that is mapped and not yet read is the
  difficult case: a second transaction may be given it, but only one that shares its page, since
  the thread that will read it holds a lock from before it gives up `pool_mutex_`
  (`Loading`, `ExclusiveIsLoaded`).
* `CommitsAreDurable`, `FixesAreIsolated`: `DurableWhileClean` and `IsolatedWhileClean`.

`ExternalSortProofs` proves, for inputs, files and values of any size and any
`mem_size` that holds a value (`SortAssumption`; below 8 the code divides by zero):

* `SortInvariant`: `SortInv` is inductive. `MergeOrdered` alone is not: that the smallest
  element of the queue is the smallest of all that is left needs the chunks to be
  ascending (`ChunksSorted`), and each chunk that has unread values to have the one before
  them in the queue (`QueueExact`). That no value is written twice, and so that there
  is room for it in the output, needs to know which are written (`WrittenExact`). The lemmas
  before it are about the arithmetic of `num_chunks`: chunks are not empty, do not
  overlap, and reach the last value.
* `SortTypeCorrect`, `MergeIsOrdered`, `FilesNotOverrun`: the run's invariants.
* `SortImplementsTask`: with an empty queue every place is written (`AllWritten`), the
  output is a permutation of the places, and each value occurs in it as often as in
  the input (`SameOccurrences`).

* `NoValueIsLost`: each place lies in one chunk (`ChunkOf`), and its position there says,
  by `QueueExact` and `WrittenExact`, which of the three sets of `ValuesConserved` it is in.

`TransactionManagerProofs` proves, for any number of transactions, pages and slots
(`SystemAssumption`), with crashes between any two writes, the blocks of a log record included
(`TornRecord`), and with or without `FlushBeforeAbort` and `CrashAfterReuse`:

* `TxnInvariant`: `TxnInv` is inductive. `LoggedBeforeDisk` alone is not: a flush puts frames on
  disk, so what frames hold must be logged (`FramesKnown`, but for the slot that `write` has changed
  and not yet logged), redo and rollback put images of the log into frames, so these must be logged
  in their turn (`BeforeKnown`), and the image an update logs is that of a transaction which was
  started (`CallOfStarted`, `Numbered`). `Smallest` is where induction is needed, for
  `Min` and `Max` of offsets: it comes from the library's fact that `<` is well-founded.
* `TxnTypeCorrect`, `DiskIsLogged`: the run's `TypeOK` and `LoggedBeforeDisk`.

`TransactionRecoveryProofs` proves, for any number of transactions, pages and slots, and for
clients that flush before they abort (`FlushBeforeAbort`, as the tests do: `abort_txn` discards
pages, and with them what others wrote there and did not flush), what recovery makes of a crash
between any two writes, unless a record that was cut off is read as another one:

* `RecoveryInvariant`: `RecoveryInv` is inductive. `Recoverable` alone is not: that the records of a
  transaction which ran at the crash can all be taken out of the disk needs every record on disk
  to be one of its transaction's inserts (`DiskShown`), that of a committed transaction all are
  there (`AllThere`, for which commit has its pages flushed: `FlushesPending`), that the log has
  exactly the inserts of each transaction (`OneInsert`) and says how each ended
  (`OutcomesLogged`), and that no two of them used one slot (`RowsApart`). The last
  is the most delicate: an insert goes into the next slot of its page, and that this one is free
  follows in normal operation from the page in memory, but not after a crash, which loses
  pages with their slot counts. It holds since ids start again from 1: the
  first transaction that is started after a crash has an id that the log has already
  (`Uncrashed`, `Numbered`). That an abort loses no record of others needs pages in memory to be
  those on disk when it starts. A crash inside a record adds
  an update with empty images, of a record that no page on disk has yet, or a record of nobody
  (`CrashInRecordRecovery`); `OwnImages` says that the transaction of the former
  did not commit, so that its empty image is never redone.
* `CrashesRecover`: `Recoverable`, which is about the time before ids were given out again and
  says nothing of a record read as another one.
* `ScansAreExact`, `CommitsStayOnDisk`: `ScanExact` and `CommittedOnDisk`, as long as nothing
  crashes after ids were given out again (`CrashAfterReuse` is `FALSE` in the run, or it did not
  happen yet).
* `LosersLeaveNothing`: so the sentence of lab 2's README that `reused_ids` refutes holds in these
  circumstances.

`HeapSegmentProofs` proves, for any number of frames, pages and rows and any size of a page and
of a record (`HeapAssumption`, `RecordAssumption`: a page has room for more than a record):

* `HeapInvariant`: `HeapInv` is inductive. `RowsFound` alone is not, for three reasons. What an
  abort or a read brings back is the file, so the file must have the committed rows in the
  same way as the frames have all rows (`FileHasCommitted`, `FramesHaveRows`). That an abort takes
  away the rows of its transaction and no others needs these to lie on dirty frames, which are pages the
  transaction fixed (`OwnRowsDirty`, `DirtyFixed`). And between `allocate` and `write` one
  page has a slot more than rows (`SlotAwaitsRow`). That a new slot or record overwrites nothing
  comes from where the others are: the i-th slot names the i-th record from the end (`Made`,
  `AddSlotToMade`, `WriteToMade`), so that the words in between are as many as `free_space` says.
  The part about types (`HeapTypeInv`) does not assume `clean`: `addSlot` may have written through
  a pointer to any frame, and a taken-over page may name any other.
* `HeapTypes`, `RowsAreFound`, `PagesStayWellFormed`: the run's invariants. The last one finds the
  page sizes for which the slot array can meet the records: those one word short of a multiple
  of a record with its slot (`NoRoomWhenUneven`).

`JoinOptimizerProofs` proves, for queries over any number of joins, any statistics and any
value of an unset cost (`JoinAssumption`):

* `SearchInvariant`: `SearchInv` is inductive. The cache alone is not enough: a plan becomes
  one of the cache when `AddPlan` copies `best_card`, so `best_card` must already be a plan for the
  subset under consideration, or empty. `ExtendedPlan` is the step from a plan for the other
  joins to one for all of them. It needs that the join appended is one of the subset, and this
  that `todo` has a first join: `FirstFact`, which holds because only equalities are searched.
  Two joins that differ in their `op` alone are equal to `std::set`.
* `PlansHaveNoCrossProduct`: the run's `CachedPlansHaveNoCrossProduct`.
* `JoinTypes`: the run's `JoinTypeOK`, with `StartInv`: between two subsets nothing is left over.
* `QueriesAreOrdered`: the run's `OrderedUnlessUnset`. For the search it needs that a set of
  joins that hangs together is never left without a plan (`SeenInv`), and the reason lies in
  the joins: such a set has a join without which it still hangs together (`LinkedShrinks`, from a
  largest part that does). The set without it is smaller, so it was considered before, has a plan
  and shares a table with that join; one way to make the last join is enough (`FoundInv`). The
  two rules return each position of the query once (`InOrderFact`, `BigTableOrder`, `MovedToEnd`).
* `BigTableComesLast`: the run's `BigTableLast`. A plan has only joins of its subset, in one of
  their directions (`Made`), and a search meets no join with big_table.
* `PlansCostWhatTheySay`: the run's `CachedCostsAreEstimates`. `CostInv` says for each card
  that there is a run of its plan (`RunOf`) that ends with its cost, its cardinality, its tables and
  its key; `ExecuteLast` extends the run by one join, and `RunsAreEqual` shows that `Executed`
  is the end of any such run.

`RunClangTidyProofs` proves, for any number of files and any finite, non-empty set of
threads (`TidyAssumption`):

* `TidyInvariant`: `TidyInv` is inductive. `TasksCounted` is what makes join mean anything:
  a count of 0 leaves no file in the queue and no thread with one. That every file was
  looked at then needs to know where a file of the loop is (`Placed`: ahead of the loop, in the
  queue, in one thread's hands, or done), and `ZeroMeansClean` what the exit code, the merge file
  and the yaml files stand for at each place of `main`.
* `TidyTypeCorrect`, `JoinCountsAll`, `JoinWaitsForAll`, `ZeroIsClean`, `CleanUpIsLast`: the
  run's invariants.

Every safety property of the passing runs is one of these theorems, those of lab 2 about aborts
under the constants named there. Liveness
(`AcquireEnds`, `PoolMutexReleased`, `SortReturns`, `OrderReturned`, `EndsUnlessStuck`) stays with TLC.

## Not modelled

* Lab 3: functions only single-threaded tests call (`flush_page`,
  `discard_all_pages`, ...), `reset`, `waiting_locks_` (never read).
* Lab 2: what is logged behind a record that a crash cut off, which would be read at the wrong
  places; a length read from such a record that no record has (it asks for that much memory and
  shifts all that follows); `page_counter_`, by which `fix_page` runs out of frames; writes to an
  existing row (no caller); the pointer `buffer_frame` in a page, taken as valid
  after the page was read again; a restart of the process, after which
  `current_offset_` is 0 and the log is not read at all.
* Lab 3: `discard_all_pages`, after which pages point into freed memory: what is read there
  is undefined. `compactify` is empty and `setSlot` has no caller.
* `cpplint.py`, Google's style checker in four copies, nine tenths of the Python
  lines of the repository, and `run_clang_format.py`, a loop that calls clang-format: neither is
  code of the database. Of the four identical copies of `run_clang_tidy.py` the one of lab 1 is
  named as the source.
* The bits of a slot and of a TID, the byte layout of records, counters of record types, output.
* Lab 1: errors of the file system, which end the program; how `std::sort` sorts; bytes of
  heap in use (a chunk's memory is given back before the next is read, but the queue grows
  with the number of chunks).
* Lab 4: `IntHistogram` so far; `estimate_join_cost` and `estimate_join_cardinality` of
  joins that are no equalities (never reached from `order_joins`); overflow of costs and
  cardinalities; queries that join a table with itself.

## Plan

1. `LockTable`, `LockManager`, `BufferManager` (lab 3), `LogManager`,
   `TransactionManager` (lab 2): done.
2. `SlottedPage`, `HeapSegment` (lab 3 pages), `RunClangTidy`: done. `FramePool`: lab 2's
   `page_counter_`.
3. `SortTask`, `ExternalSort` (lab 1): done.
4. `JoinOptimizer` (lab 4): done. `IntHistogram`: selectivities as exact fractions,
   against the counts of the values added.
5. Proofs: of labs 1 to 4 and of the script, done.
