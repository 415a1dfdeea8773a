------------------------- MODULE TransactionManager -------------------------
(***************************************************************************)
(* The transactions of lab 2: TransactionManager, the BufferManager and    *)
(* the HeapSegment it works with, and the LogManager, through calls of one *)
(* thread (lab 2 has no locks), crashes and recoveries.                    *)
(*                                                                         *)
(* A call is cut into steps where it writes to a file, since that is all a *)
(* crash leaves; the objects in memory are those the tests' crash() keeps  *)
(* or clears: the position in the log and the page count of the heap       *)
(* segment stay, the buffer and the transaction table go.                  *)
(*                                                                         *)
(* A crash may also come between two of the blocks a log record is written *)
(* in (CrashInRecord).  The position in the log is then inside a record;   *)
(* what would be logged next lands there, where nothing can be read back,  *)
(* and so no transaction and no checkpoint is started after that: only     *)
(* recovery, flushes and further crashes.                                  *)
(*                                                                         *)
(* A clean frame holds what is on disk, and writing one changes nothing:   *)
(* buffer holds the pages that may differ from the disk, and the dirty     *)
(* flag (never cleared by a flush) is left out.  So is the number of       *)
(* frames: a fix_page that runs out of them exits.  The pointer to its own *)
(* frame that a page carries is taken as valid after the page was read     *)
(* again, as look() of the tests makes it.                                 *)
(***************************************************************************)
EXTENDS LogManager

CONSTANTS NotBuffered,      \* a page that is in no frame
          MaxTxns,          \* transactions that are ever started
          MaxCheckpoints,   \* checkpoints that are ever taken
          FlushBeforeAbort, \* clients flush all pages before they abort, as the tests do
          CrashInCalls,     \* a crash may come inside a call, and not only between two
          CrashAfterReuse   \* ... and after ids were handed out a second time

VARIABLES
    disk,                 \* disk[p]: page p in the segment file
    buffer,               \* buffer[p]: page p in its frame, or NotBuffered
    page_count,           \* page_count_ of the heap segment
    transaction_counter,
    transaction_table,    \* transaction_table[id]: started_ and modified_pages_
    call,                 \* the call under way and its locals
    incarnation,          \* incarnation[id]: which transaction has the id now (history)
    outcome,              \* outcome[x]: what became of transaction x (history)
    rows,                 \* rows[x]: pages and slots of x's inserts (history)
    log_end               \* how a crash left the last log record (history)

memory == <<page_count, transaction_counter, transaction_table>>
ghosts == <<incarnation, outcome, rows, log_end>>
vars == <<log, disk, buffer, call, memory, ghosts>>

\* made: the page has a header; slots: how many slots it has given out.
PageContent == [made : BOOLEAN, slots : {0} \cup Slot, data : [Slot -> Image]]
BlankPage == [made |-> FALSE, slots |-> 0, data |-> [s \in Slot |-> Empty]]

ASSUME SystemAssumption ==
    /\ NotBuffered \notin PageContent
    /\ MaxTxns \in Nat /\ MaxCheckpoints \in Nat
    /\ TxnId = 1..MaxTxns /\ Value = 1..MaxTxns
    /\ IsFiniteSet(Page) /\ Page = 0..(Cardinality(Page) - 1)
    /\ IsFiniteSet(Slot) /\ Slot = 1..Cardinality(Slot) /\ Slot # {}
    /\ {FlushBeforeAbort, CrashInCalls, CrashAfterReuse} \subseteq BOOLEAN

Idle == [op |-> "idle"]
Writing(op, id, pages) == [op |-> op, txn |-> id, todo |-> pages]

Init ==
    /\ log = <<>>
    /\ disk = [p \in Page |-> BlankPage]
    /\ buffer = [p \in Page |-> NotBuffered]
    /\ page_count = 0
    /\ transaction_counter = 0
    /\ transaction_table = [id \in TxnId |-> [started |-> FALSE, modified |-> {}]]
    /\ call = Idle
    /\ incarnation = [id \in TxnId |-> 0]
    /\ outcome = [x \in Value |-> "unused"]
    /\ rows = [x \in Value |-> {}]
    /\ log_end = "whole"

-----------------------------------------------------------------------------
(* BufferManager                                                           *)

\* What fix_page returns.
Fixed(p) == IF buffer[p] = NotBuffered THEN disk[p] ELSE buffer[p]

\* The buffer after discard_page of the pages in ps.
Discarded(ps) == [p \in Page |-> IF p \in ps THEN NotBuffered ELSE buffer[p]]

\* One write_frame of flush_page or flush_all_pages, in whichever order frames come.
FlushFrame ==
    /\ call.op \in {"flush", "commit", "abort", "checkpoint", "undo"}
    /\ \E p \in call.todo :
        /\ disk' = [disk EXCEPT ![p] = Fixed(p)]
        /\ call' = [call EXCEPT !.todo = @ \ {p}]
    /\ UNCHANGED <<log, buffer, memory, ghosts>>

\* Pages a flush writes to no effect are left out of it.
ToFlush(ps, b) == {p \in ps : b[p] # NotBuffered /\ b[p] # disk[p]}

\* flush_all_pages, called by a client.
FlushAllPages ==
    /\ call = Idle
    /\ ToFlush(Page, buffer) # {}
    /\ call' = Writing("flush", 0, ToFlush(Page, buffer))
    /\ UNCHANGED <<log, disk, buffer, memory, ghosts>>

FlushEnds ==
    /\ call.op = "flush" /\ call.todo = {}
    /\ call' = Idle
    /\ UNCHANGED <<log, disk, buffer, memory, ghosts>>

-----------------------------------------------------------------------------
(* TransactionManager::start_txn and add_modified_page, and the inserts of *)
(* a client: HeapSegment::allocate, then HeapSegment::write.               *)

Started(id) == transaction_table[id].started

StartTxn ==
    LET id == transaction_counter + 1
        unused == {x \in Value : outcome[x] = "unused"}
    IN  /\ call = Idle /\ unused # {} /\ log_end = "whole"
        /\ transaction_counter' = id
        /\ transaction_table' = [transaction_table EXCEPT
                                   ![id] = [started |-> TRUE, modified |-> {}]]
        /\ LogOf("BEGIN", id)
        /\ incarnation' = [incarnation EXCEPT ![id] = Min(unused)]
        /\ outcome' = [outcome EXCEPT ![Min(unused)] = "active"]
        /\ UNCHANGED <<disk, buffer, call, page_count, rows, log_end>>

HasSpace(p) == Fixed(p).made /\ Fixed(p).slots < Cardinality(Slot)

\* HeapSegment::allocate takes the first page with room, or else makes the next one.
AllocatedPage ==
    LET open == {p \in Page : p < page_count /\ HasSpace(p)}
    IN  IF open # {} THEN Min(open) ELSE page_count

\* write puts the record into the frame before it logs the update.
InsertRow(id) ==
    LET p == AllocatedPage
        page == IF p = page_count THEN [Fixed(p) EXCEPT !.made = TRUE, !.slots = 0]
                ELSE Fixed(p)
        s == page.slots + 1
    IN  /\ call = Idle /\ Started(id)
        /\ p \in Page
        /\ page_count' = IF p = page_count THEN page_count + 1 ELSE page_count
        /\ buffer' = [buffer EXCEPT ![p] = [page EXCEPT !.slots = s,
                                                        !.data[s] = incarnation[id]]]
        /\ call' = [op |-> "write", txn |-> id, page |-> p, slot |-> s,
                    before |-> page.data[s]]
        /\ UNCHANGED <<log, disk, transaction_counter, transaction_table, ghosts>>

\* Variant with a fault: the update is not logged.
LogUpdateFaulty ==
    /\ call.op = "write"
    /\ transaction_table' = [transaction_table EXCEPT ![call.txn].modified = @ \cup {call.page}]
    /\ rows' = [rows EXCEPT ![incarnation[call.txn]] = @ \cup {<<call.page, call.slot>>}]
    /\ call' = Idle
    /\ UNCHANGED <<log, disk, buffer, page_count, transaction_counter, incarnation, outcome,
                   log_end>>

\* log_update, and the client's add_modified_page.
LogUpdate ==
    /\ call.op = "write"
    /\ LogUpdateOf(call.txn, call.page, call.slot, call.before, incarnation[call.txn])
    /\ transaction_table' = [transaction_table EXCEPT ![call.txn].modified = @ \cup {call.page}]
    /\ rows' = [rows EXCEPT ![incarnation[call.txn]] = @ \cup {<<call.page, call.slot>>}]
    /\ call' = Idle
    /\ UNCHANGED <<disk, buffer, page_count, transaction_counter, incarnation, outcome,
                   log_end>>

-----------------------------------------------------------------------------
(* commit_txn, abort_txn and log_checkpoint                                *)

\* Variant with a fault: the pages are not flushed.
CommitTxnFaulty(id) ==
    /\ call = Idle /\ Started(id)
    /\ call' = Writing("commit", id, {})
    /\ UNCHANGED <<log, disk, buffer, memory, ghosts>>

\* commit_txn flushes the pages the transaction modified ...
CommitTxn(id) ==
    /\ call = Idle /\ Started(id)
    /\ call' = Writing("commit", id, ToFlush(transaction_table[id].modified, buffer))
    /\ UNCHANGED <<log, disk, buffer, memory, ghosts>>

\* The end of commit_txn and of abort_txn: started_ = false, and the log record.
Ends(id, type, result) ==
    /\ LogOf(type, id)
    /\ transaction_table' = [transaction_table EXCEPT ![id].started = FALSE]
    /\ outcome' = [outcome EXCEPT ![incarnation[id]] = result]
    /\ call' = Idle
    /\ UNCHANGED <<disk, buffer, page_count, transaction_counter, incarnation, rows,
                   log_end>>

\* ... and then logs the commit.
LogCommit ==
    /\ call.op = "commit" /\ call.todo = {}
    /\ Ends(call.txn, "COMMIT", "committed")

\* The buffer after rollback_txn, when it was b before.
RolledBack(id, b) ==
    [p \in Page |->
        LET page == IF b[p] = NotBuffered THEN disk[p] ELSE b[p]
        IN  IF p \in RollbackPages(id) THEN [page EXCEPT !.data = RollbackData(id, p, @)]
            ELSE b[p]]

\* Variant with a fault: the pages are discarded and nothing is rolled back.
AbortTxnFaulty(id) ==
    LET b == Discarded(transaction_table[id].modified)
    IN  /\ call = Idle /\ Started(id)
        /\ FlushBeforeAbort => ToFlush(Page, buffer) = {}
        /\ buffer' = b
        /\ call' = Writing("abort", id, ToFlush(Page, b))
        /\ UNCHANGED <<log, disk, memory, ghosts>>

\* abort_txn discards the pages the transaction modified; log_abort rolls it back, flushes ...
AbortTxn(id) ==
    LET b == RolledBack(id, Discarded(transaction_table[id].modified))
    IN  /\ call = Idle /\ Started(id)
        /\ FlushBeforeAbort => ToFlush(Page, buffer) = {}
        /\ buffer' = b
        /\ call' = Writing("abort", id, ToFlush(Page, b))
        /\ UNCHANGED <<log, disk, memory, ghosts>>

\* ... and writes the record.
LogAbort ==
    /\ call.op = "abort" /\ call.todo = {}
    /\ Ends(call.txn, "ABORT", "aborted")

\* log_checkpoint, called by a client.
LogCheckpoint ==
    /\ call = Idle /\ log_end = "whole"
    /\ Cardinality({i \in DOMAIN log : log[i].type = "CHECKPOINT"}) < MaxCheckpoints
    /\ call' = Writing("checkpoint", 0, ToFlush(Page, buffer))
    /\ UNCHANGED <<log, disk, buffer, memory, ghosts>>

\* Variant with a fault: the record keeps the id of another one.
CheckpointEndsFaulty ==
    /\ call.op = "checkpoint" /\ call.todo = {}
    /\ LogOf("CHECKPOINT", transaction_counter)
    /\ call' = Idle
    /\ UNCHANGED <<disk, buffer, memory, ghosts>>

CheckpointEnds ==
    /\ call.op = "checkpoint" /\ call.todo = {}
    /\ LogOf("CHECKPOINT", 0)
    /\ call' = Idle
    /\ UNCHANGED <<disk, buffer, memory, ghosts>>

-----------------------------------------------------------------------------
(* Crash and recovery                                                      *)

\* An id is in use for the second time: the log holds two transactions of that name.
Reused == \E id \in TxnId : Cardinality(Offsets("BEGIN", id)) > 1

\* discard_all_pages, and TransactionManager::reset.
Reset ==
    /\ CrashAfterReuse \/ ~Reused
    /\ buffer' = Discarded(Page)
    /\ transaction_counter' = 0
    /\ transaction_table' = [id \in TxnId |-> [started |-> FALSE, modified |-> {}]]
    /\ call' = [op |-> "recovery"]
    /\ incarnation' = [id \in TxnId |-> 0]
    /\ outcome' = [x \in Value |-> IF outcome[x] = "active" THEN "crashed" ELSE outcome[x]]
    /\ UNCHANGED <<disk, page_count>>

\* A crash between two calls, or between two writes to the segment file.
Crash ==
    /\ log # <<>>
    /\ CrashInCalls \/ call = Idle
    /\ Reset
    /\ UNCHANGED <<log, rows, log_end>>

\* The next thing to be written is a record of this type.
Logs(type) ==
    \/ type = "BEGIN" /\ call = Idle /\ \E x \in Value : outcome[x] = "unused"
    \/ type = "UPDATE" /\ call.op = "write"
    \/ type = "COMMIT" /\ call.op = "commit" /\ call.todo = {}
    \/ type = "ABORT" /\ call.op = "abort" /\ call.todo = {}
    \/ type = "CHECKPOINT" /\ call.op = "checkpoint" /\ call.todo = {}

\* A crash in write_log_record: in the images of an update; where nothing but the type is
\* needed (of a checkpoint), or the transaction is read as one that there is not, which tells
\* recovery no more than a checkpoint; or so that the record is read as another.
CrashInRecord ==
    /\ CrashInCalls /\ log_end = "whole"
    /\ Reset
    /\ \/ /\ call.op = "write"
          /\ \E record \in TornUpdates(call.txn, call.page, call.slot, call.before) :
                WriteLogRecord(record)
          /\ rows' = [rows EXCEPT ![incarnation[call.txn]] = @ \cup {<<call.page, call.slot>>}]
          /\ log_end' = "torn"
       \/ /\ \E type \in {"BEGIN", "UPDATE", "COMMIT", "ABORT", "CHECKPOINT"} : Logs(type)
          /\ LogOf("CHECKPOINT", 0)
          /\ log_end' = "torn"
          /\ UNCHANGED rows
       \/ /\ \E type \in {"BEGIN", "UPDATE", "COMMIT", "ABORT"} :
                Logs(type) /\ \E record \in Misread(type) : WriteLogRecord(record)
          /\ log_end' = "misread"
          /\ UNCHANGED rows

\* recovery: analysis and redo, in memory ...
Redo ==
    /\ call.op = "recovery"
    /\ buffer' = [p \in Page |->
                    IF p \in RedoPages THEN [Fixed(p) EXCEPT !.data = RedoData(p, @)]
                    ELSE buffer[p]]
    /\ call' = [op |-> "undo", txn |-> 0, todo |-> {}, losers |-> ActiveTxns]
    /\ UNCHANGED <<log, disk, memory, ghosts>>

\* ... then rollback_txn, with its flush, for the lowest id left ...
Undo ==
    /\ call.op = "undo" /\ call.todo = {}
    /\ call.losers # {}
    /\ LET id == Min(call.losers)
           b == RolledBack(id, buffer)
       IN  /\ buffer' = b
           /\ call' = [call EXCEPT !.txn = id, !.losers = @ \ {id}, !.todo = ToFlush(Page, b)]
    /\ UNCHANGED <<log, disk, memory, ghosts>>

\* ... and the final flush.
FinalFlush ==
    /\ call.op = "undo" /\ call.todo = {}
    /\ call.losers = {}
    /\ call' = Writing("flush", 0, ToFlush(Page, buffer))
    /\ UNCHANGED <<log, disk, buffer, memory, ghosts>>

-----------------------------------------------------------------------------
Client ==
    \/ StartTxn
    \/ FlushAllPages
    \/ LogCheckpoint
    \/ \E id \in TxnId : InsertRow(id) \/ CommitTxn(id) \/ AbortTxn(id)

InCall ==
    \/ FlushFrame \/ FlushEnds \/ LogUpdate \/ LogCommit \/ LogAbort \/ CheckpointEnds
    \/ Redo \/ Undo \/ FinalFlush

Next == Client \/ InCall \/ Crash \/ CrashInRecord

Spec == Init /\ [][Next]_vars

-----------------------------------------------------------------------------
Call ==
    [op : {"idle", "recovery"}]
        \cup [op : {"flush", "commit", "abort", "checkpoint"}, txn : {0} \cup TxnId,
              todo : SUBSET Page]
        \cup [op : {"undo"}, txn : {0} \cup TxnId, todo : SUBSET Page, losers : SUBSET TxnId]
        \cup [op : {"write"}, txn : TxnId, page : Page, slot : Slot, before : Image]

TypeOK ==
    /\ log \in Seq(LogRecord)
    /\ disk \in [Page -> PageContent]
    /\ buffer \in [Page -> PageContent \cup {NotBuffered}]
    /\ page_count \in Nat
    /\ transaction_counter \in {0} \cup TxnId
    /\ transaction_table \in [TxnId -> [started : BOOLEAN, modified : SUBSET Page]]
    /\ call \in Call
    /\ incarnation \in [TxnId -> {0} \cup Value]
    /\ outcome \in [Value -> {"unused", "active", "committed", "aborted", "crashed"}]
    /\ rows \in [Value -> SUBSET (Page \X Slot)]
    /\ log_end \in {"whole", "torn", "misread"}

\* The records a scan of a page finds, each with the transaction that wrote it.
RowsIn(p, page) ==
    {<<p, s, page.data[s]>> : s \in {s \in Slot : s <= page.slots /\ page.data[s] # Empty}}

DiskRows == UNION {RowsIn(p, disk[p]) : p \in Page}
VisibleRows == UNION {RowsIn(p, Fixed(p)) : p \in Page}
RecoverableRows ==
    UNION {RowsIn(p, [disk[p] EXCEPT !.data = RecoveredData(p, @)]) : p \in Page}

\* The records inserted by transactions that came to one of these ends.
RowsOf(results) ==
    UNION {{<<r[1], r[2], x>> : r \in rows[x]} : x \in {x \in Value : outcome[x] \in results}}

\* The disk and the log determine the database between any two writes to a file, of a
\* commit, of an abort, of a recovery or of the blocks of a log record: recovering from them
\* gives what the committed transactions inserted and nothing else.  Not so once a record
\* that was cut off before its transaction or its place is read as another one, and once an
\* id is used a second time.
Recoverable ==
    ~Reused /\ log_end # "misread" => RecoverableRows = RowsOf({"committed"})

\* A record on disk whose transaction has not committed is in the log, though write()
\* changes the frame first: it can be undone.
LoggedBeforeDisk ==
    \A r \in DiskRows \ RowsOf({"committed"}) :
        \E i \in DOMAIN log :
            /\ log[i].type = "UPDATE"
            /\ log[i].page = r[1] /\ log[i].slot = r[2] /\ log[i].after = r[3]

\* Between calls a scan finds what committed and running transactions inserted: no abort,
\* flush, crash or recovery has lost a record of theirs or left one of another's, unless a
\* torn log record was read as another one.
ScanExact ==
    call = Idle /\ log_end # "misread" => VisibleRows = RowsOf({"committed", "active"})

\* A commit forces its records to disk, and no later write of a shared page, rollback or
\* recovery of others takes one away, not even for the time until the next write, unless a
\* torn log record was read as another one.
CommittedOnDisk == log_end # "misread" => RowsOf({"committed"}) \subseteq DiskRows

\* "no modifications made by an aborted or crashed transaction persist in the database"
\* (README.md:19).
LosersGone == call = Idle => VisibleRows \cap RowsOf({"aborted", "crashed"}) = {}
=============================================================================
