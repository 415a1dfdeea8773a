----------------------------- MODULE LogManager -----------------------------
(***************************************************************************)
(* LogManager of lab 2: the log file, and what rolling back a transaction  *)
(* and recovering make of the pages.                                       *)
(*                                                                         *)
(* log is the part of the file before current_offset_, one element for     *)
(* each record that write_log_record has put there; an offset is an index. *)
(* An update names a slot in place of a byte offset and length, for all    *)
(* records of the heap have one size and two of them never overlap.  The   *)
(* images are the contents of that slot.                                   *)
(*                                                                         *)
(* The loops over the log overwrite a slot again and again; they are given *)
(* by the write that comes last: of a replay forwards that is the latest   *)
(* update, of a rollback, which goes backwards, the earliest.              *)
(*                                                                         *)
(* write_log_record writes a record in blocks: its type, its transaction,  *)
(* and of an update the page, length, offset and the two images.  Nothing  *)
(* reads the file between two of them, unless a crash comes there: Misread *)
(* and TornUpdates are what a later read_log_record makes of such a record.*)
(*                                                                         *)
(* active_txns_ and the list of active transactions in a checkpoint are    *)
(* left out: write_log_record does not write the list, a record that was   *)
(* read has an empty one, and nothing else reads active_txns_.  Nor is     *)
(* txn_id_to_first_log_record a variable: both log_txn_begin and the       *)
(* analysis leave the last BEGIN of a transaction there before it is read. *)
(***************************************************************************)
EXTENDS Naturals, Sequences, FiniteSets, FiniteSetsExt

CONSTANTS Page,    \* page ids of the segment
          Slot,    \* slots of a page
          TxnId,   \* ids start_txn can hand out
          Value,   \* contents of a written slot
          Empty    \* content of a slot that nobody wrote

ASSUME LogAssumption == TxnId \subseteq Nat /\ Slot \subseteq Nat /\ Empty \notin Value

VARIABLE log

Image == Value \cup {Empty}

LogRecord ==
    [type : {"BEGIN", "COMMIT", "ABORT"}, txn : TxnId]
        \cup [type : {"CHECKPOINT"}, txn : {0}]
        \cup [type : {"UPDATE"}, txn : TxnId, page : Page, slot : Slot,
              before : Image, after : Image]

\* write_log_record, all blocks of it
WriteLogRecord(record) == log' = Append(log, record)

LogOf(type, id) == WriteLogRecord([type |-> type, txn |-> id])

LogUpdateOf(id, p, s, before, after) ==
    WriteLogRecord([type |-> "UPDATE", txn |-> id, page |-> p, slot |-> s,
                    before |-> before, after |-> after])

\* What may be read of a record whose transaction, or an update whose place, was not written:
\* reads beyond the end of the file leave those fields of the LogRecord as they are, with
\* whatever was in their memory.  A length that no record has is not followed.
Misread(type) ==
    IF type = "UPDATE"
    THEN [type : {"UPDATE"}, txn : TxnId, page : Page, slot : Slot, before : {Empty},
          after : {Empty}]
    ELSE [type : {type}, txn : TxnId]

\* An update whose images were not written, or the after image alone: make_unique has
\* cleared the memory for them.
TornUpdates(id, p, s, before) ==
    [type : {"UPDATE"}, txn : {id}, page : {p}, slot : {s}, before : {before, Empty},
     after : {Empty}]

-----------------------------------------------------------------------------
(* The analysis of recovery.                                               *)

Offsets(type, id) == {i \in DOMAIN log : log[i].type = type /\ log[i].txn = id}

CommittedTxns == {id \in TxnId : Offsets("COMMIT", id) # {}}

\* A BEGIN after a COMMIT of the same id is skipped, and a COMMIT or an ABORT erases the
\* id: what is left began, never committed, and did not abort since.
ActiveTxns ==
    {id \in TxnId : /\ Offsets("COMMIT", id) = {}
                    /\ \E i \in Offsets("BEGIN", id) : \A j \in Offsets("ABORT", id) : j < i}

\* txn_id_to_first_log_record[id]
FirstLogRecord(id) == Max(Offsets("BEGIN", id))

-----------------------------------------------------------------------------
(* Replaying and rolling back.  A page is a record with a field data that  *)
(* gives the content of its slots.                                         *)

\* Updates of slot s of page p by the transactions in ids.
UpdatesOf(ids, p, s) ==
    {i \in DOMAIN log : /\ log[i].type = "UPDATE" /\ log[i].txn \in ids
                        /\ log[i].page = p /\ log[i].slot = s}

\* Variant with a fault: updates of transactions that did not commit are redone too.
RedoDataFaulty(p, data) ==
    [s \in Slot |-> LET updates == UpdatesOf(TxnId, p, s)
                    IN  IF updates = {} THEN data[s] ELSE log[Max(updates)].after]

\* The redo phase: the after images of the committed transactions, in log order.
RedoData(p, data) ==
    [s \in Slot |-> LET updates == UpdatesOf(CommittedTxns, p, s)
                    IN  IF updates = {} THEN data[s] ELSE log[Max(updates)].after]

RedoPages == {p \in Page : \E s \in Slot : UpdatesOf(CommittedTxns, p, s) # {}}

\* What rollback_txn collects, of slot s of page p.
RollbackUpdates(id, p, s) == {i \in UpdatesOf({id}, p, s) : i >= FirstLogRecord(id)}

\* rollback_txn: the before images of the transaction, last update first.
RollbackData(id, p, data) ==
    [s \in Slot |-> LET updates == RollbackUpdates(id, p, s)
                    IN  IF updates = {} THEN data[s] ELSE log[Min(updates)].before]

RollbackPages(id) == {p \in Page : \E s \in Slot : RollbackUpdates(id, p, s) # {}}

\* What redo and undo together make of a page, the active transactions being rolled
\* back in the order of their ids: a definition the steps of recovery are held against.
RecoveredData(p, data) ==
    [s \in Slot |->
        LET losers == {id \in ActiveTxns : RollbackUpdates(id, p, s) # {}}
        IN  IF losers = {} THEN RedoData(p, data)[s]
            ELSE log[Min(RollbackUpdates(Max(losers), p, s))].before]
=============================================================================
