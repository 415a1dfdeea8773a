---------------------- MODULE TransactionRecoveryProofs ----------------------
(***************************************************************************)
(* What recovery of lab 2 makes of the disk and the log, for any number of *)
(* transactions, pages and slots and crashes between any two writes: what  *)
(* the committed transactions inserted, and nothing else.                  *)
(*                                                                         *)
(* This holds for clients that flush before they abort, as the tests do    *)
(* (what a transaction has not flushed is lost with the pages that         *)
(* abort_txn discards), until ids are given out again after a crash, from  *)
(* when on the log does not say whose record is whose, and until a crash   *)
(* leaves a record whose transaction or place was not written and is read  *)
(* as another one.                                                         *)
(***************************************************************************)
EXTENDS TransactionManagerProofs

\* Clients flush before they abort, nothing crashes once an id was given out again, and no
\* record is read as another.
Sound == FlushBeforeAbort /\ (CrashAfterReuse => ~Reused) /\ log_end # "misread"

Recovering == call.op \in {"recovery", "undo"}
Aborting(x) == call.op = "abort" /\ x = incarnation[call.txn]

\* Transactions whose records pages have to hold, and those whose records they may hold.
Kept(x) == outcome[x] = "committed" \/ (outcome[x] = "active" /\ ~Aborting(x))
Shown(x) ==
    \/ Kept(x)
    \/ /\ outcome[x] = "crashed"
       /\ call.op = "recovery" \/ (call.op = "undo" /\ x \in call.losers)

\* Pages that were not made are blank, and so are slots that were not given out.
BlankPages ==
    \A p \in Page :
        /\ p >= page_count => disk[p] = BlankPage /\ Fixed(p) = BlankPage
        /\ \A s \in Slot : /\ s > disk[p].slots => disk[p].data[s] = Empty
                           /\ s > Fixed(p).slots => Fixed(p).data[s] = Empty

\* A record comes from an empty slot of a page that was made.
InsertsLogged ==
    /\ \A i \in DOMAIN log : log[i].type = "UPDATE" =>
          log[i].page < page_count /\ log[i].before = Empty
    /\ call.op = "write" =>
          /\ call.page < page_count /\ call.before = Empty
          /\ Fixed(call.page).data[call.slot] = incarnation[call.txn]
          /\ call.slot <= Fixed(call.page).slots

\* The records pages hold in memory: none but those that may be shown, ...
NoStray ==
    \A p \in Page : \A s \in Slot : \A x \in Value :
        Fixed(p).data[s] = x =>
            \/ <<p, s>> \in rows[x] /\ Shown(x)
            \/ Writes(p, s) /\ x = incarnation[call.txn]

\* ... and all that are kept, the committed ones on disk as well.
AllThere ==
    \A x \in Value : \A p \in Page : \A s \in Slot : <<p, s>> \in rows[x] =>
        /\ Kept(x) => Fixed(p).data[s] = x /\ s <= Fixed(p).slots
        /\ outcome[x] = "committed" => disk[p].data[s] = x /\ s <= disk[p].slots

\* What commit and abort still have to flush.
FlushesPending ==
    /\ call.op = "commit" =>
          \A p \in transaction_table[call.txn].modified \ call.todo : disk[p] = Fixed(p)
    /\ call.op = "abort" => \A p \in Page \ call.todo : disk[p] = Fixed(p)

\* A running transaction is the one its id was given to last: the log has its inserts.
StartedKnown ==
    /\ \A id \in TxnId : Started(id) =>
          /\ outcome[incarnation[id]] = "active"
          /\ Offsets("BEGIN", id) # {}
          /\ \A p \in Page : \A s \in Slot :
                /\ RollbackUpdates(id, p, s) # {} <=> <<p, s>> \in rows[incarnation[id]]
                /\ <<p, s>> \in rows[incarnation[id]] => p \in transaction_table[id].modified
    /\ \A id, other \in TxnId :
          Started(id) /\ Started(other) /\ incarnation[id] = incarnation[other] => id = other

UnusedEmpty == \A x \in Value : outcome[x] = "unused" => rows[x] = {}

\* Every record of a transaction in the log has a BEGIN.
BeginsLogged ==
    \A i \in DOMAIN log : log[i].type \in {"UPDATE", "COMMIT", "ABORT"} =>
        Offsets("BEGIN", log[i].txn) # {}

RecoveringOnce == Recovering => ~Reused /\ \A x \in Value : outcome[x] # "active"

\* While each id was given out once, ids are numbers of transactions.
Uncrashed == \A x \in Value : outcome[x] # "unused" => x <= transaction_counter

OutcomesLogged ==
    \A x \in Value : /\ Offsets("BEGIN", x) # {} <=> outcome[x] # "unused"
                     /\ Offsets("COMMIT", x) # {} <=> outcome[x] = "committed"
                     /\ Offsets("ABORT", x) # {} <=> outcome[x] = "aborted"

\* An update has the number of its transaction as its after image, unless a crash cut it off.
OwnImages ==
    \A i \in DOMAIN log : log[i].type = "UPDATE" =>
        \/ log[i].after = log[i].txn
        \/ log[i].after = Empty /\ outcome[log[i].txn] = "crashed"

OneInsert ==
    /\ \A id \in TxnId : Started(id) => incarnation[id] = id /\ Uncrashed
    /\ OwnImages
    /\ \A i, j \in DOMAIN log :
          /\ log[i].type \in {"UPDATE", "COMMIT", "ABORT"} /\ log[j].type = "BEGIN"
          /\ log[i].txn = log[j].txn
          => j < i
    /\ \A x \in Value : \A p \in Page : \A s \in Slot :
          <<p, s>> \in rows[x] <=> UpdatesOf({x}, p, s) # {}

RowsApart ==
    \A x \in Value : \A p \in Page : \A s \in Slot : <<p, s>> \in rows[x] =>
        /\ \A y \in Value : <<p, s>> \in rows[y] => x = y
        /\ ~Writes(p, s)
        /\ Uncrashed => s <= Fixed(p).slots

DiskShown ==
    \A p \in Page : \A s \in Slot : \A x \in Value : disk[p].data[s] = x =>
        <<p, s>> \in rows[x] /\ outcome[x] \in {"committed", "active", "crashed"}

LosersCrashed == call.op = "undo" => \A id \in call.losers : outcome[id] = "crashed"

OnceInv == OutcomesLogged /\ OneInsert /\ RowsApart /\ DiskShown /\ LosersCrashed

ViewInv ==
    /\ BlankPages /\ InsertsLogged /\ NoStray /\ AllThere /\ FlushesPending
    /\ StartedKnown /\ UnusedEmpty /\ BeginsLogged /\ RecoveringOnce
    /\ ~Reused => OnceInv

RecoveryInv == Sound => ViewInv

-----------------------------------------------------------------------------
(* The log, when it grows and when it does not.                            *)

LEMMA LogSame ==
    ASSUME UNCHANGED log
    PROVE  /\ \A type, id : Offsets(type, id)' = Offsets(type, id)
           /\ \A ids, p, s : UpdatesOf(ids, p, s)' = UpdatesOf(ids, p, s)
           /\ \A id, p, s : RollbackUpdates(id, p, s)' = RollbackUpdates(id, p, s)
           /\ Reused' <=> Reused
  <1>1. \A type, id : Offsets(type, id)' = Offsets(type, id)
    BY DEF Offsets
  <1>2. \A ids, p, s : UpdatesOf(ids, p, s)' = UpdatesOf(ids, p, s)
    BY DEF UpdatesOf
  <1>3. \A id : FirstLogRecord(id)' = FirstLogRecord(id)
    BY <1>1 DEF FirstLogRecord
  <1>4. \A id, p, s : RollbackUpdates(id, p, s)' = RollbackUpdates(id, p, s)
    BY <1>2, <1>3 DEF RollbackUpdates
  <1>5. Reused' <=> Reused
    BY <1>1 DEF Reused
  <1> QED BY <1>1, <1>2, <1>4, <1>5

LEMMA OffsetsFacts ==
    ASSUME TypeOK, NEW type, NEW id
    PROVE  /\ Offsets(type, id) \in SUBSET (1..Len(log)) /\ Len(log) \in Nat
           /\ IsFiniteSet(Offsets(type, id))
           /\ Offsets("BEGIN", id) # {} =>
                 /\ FirstLogRecord(id) \in Offsets("BEGIN", id)
                 /\ FirstLogRecord(id) \in 1..Len(log)
  <1>1. Offsets(type, id) \in SUBSET (1..Len(log)) /\ Len(log) \in Nat
    BY LogFacts DEF Offsets
  <1>2. IsFiniteSet(Offsets(type, id))
    <2>1. IsFiniteSet(1..Len(log))
      BY <1>1, FS_Interval
    <2> QED BY <1>1, <2>1, FS_Subset
  <1>3. ASSUME Offsets("BEGIN", id) # {}
        PROVE  /\ FirstLogRecord(id) \in Offsets("BEGIN", id)
               /\ FirstLogRecord(id) \in 1..Len(log)
    <2>1. Offsets("BEGIN", id) \in SUBSET (1..Len(log))
      BY LogFacts DEF Offsets
    <2>2. FirstLogRecord(id) \in Offsets("BEGIN", id)
      BY <1>1, <1>3, <2>1, MaxFact DEF FirstLogRecord
    <2> QED BY <2>1, <2>2
  <1> QED BY <1>1, <1>2, <1>3

\* What a record adds to the offsets, and to the updates of a slot.
LEMMA LogLonger ==
    ASSUME TypeOK, NEW r \in LogRecord, log' = Append(log, r)
    PROVE  /\ \A type, id : Offsets(type, id)' =
                 Offsets(type, id) \cup {i \in {Len(log) + 1} : r.type = type /\ r.txn = id}
           /\ \A ids, p, s : UpdatesOf(ids, p, s)' =
                 UpdatesOf(ids, p, s)
                   \cup {i \in {Len(log) + 1} : /\ r.type = "UPDATE" /\ r.txn \in ids
                                                /\ r.page = p /\ r.slot = s}
  <1>1. /\ DOMAIN log' = DOMAIN log \cup {Len(log) + 1}
        /\ Len(log) + 1 \notin DOMAIN log
        /\ \A i \in DOMAIN log : log'[i] = log[i]
        /\ log'[Len(log) + 1] = r
    BY LogGrows
  <1>2. ASSUME NEW type, NEW id
        PROVE  Offsets(type, id)' =
                 Offsets(type, id) \cup {i \in {Len(log) + 1} : r.type = type /\ r.txn = id}
    BY <1>1 DEF Offsets
  <1>3. ASSUME NEW ids, NEW p, NEW s
        PROVE  UpdatesOf(ids, p, s)' =
                 UpdatesOf(ids, p, s)
                   \cup {i \in {Len(log) + 1} : /\ r.type = "UPDATE" /\ r.txn \in ids
                                                /\ r.page = p /\ r.slot = s}
    BY <1>1 DEF UpdatesOf
  <1> QED BY <1>2, <1>3

\* Ids that were given out twice stay so.
LEMMA ReusedStays ==
    ASSUME TypeOK, NEW r \in LogRecord, log' = Append(log, r), log' \in Seq(LogRecord)
    PROVE  /\ Reused => Reused'
           /\ r.type # "BEGIN" => (Reused' <=> Reused)
           /\ r.type = "BEGIN" /\ Offsets("BEGIN", r.txn) # {} /\ r.txn \in TxnId => Reused'
  <1> DEFINE new == Len(log) + 1
             B(id) == Offsets("BEGIN", id)
  <1>1. \A id : B(id)' = B(id) \cup {i \in {new} : r.type = "BEGIN" /\ r.txn = id}
    BY LogLonger
  <1>2. /\ \A id : IsFiniteSet(B(id)) /\ B(id) \in SUBSET (1..Len(log))
        /\ Len(log) \in Nat
    BY OffsetsFacts
  <1>3. \A id : new \notin B(id)
    BY <1>2
  <1>4. \A id : IsFiniteSet(B(id)') /\ Cardinality(B(id)) <= Cardinality(B(id)')
    <2> SUFFICES ASSUME NEW id
                 PROVE  IsFiniteSet(B(id)') /\ Cardinality(B(id)) <= Cardinality(B(id)')
      OBVIOUS
    <2>1. \/ B(id)' = B(id)
          \/ B(id)' = B(id) \cup {new}
      BY <1>1
    <2> HIDE DEF B, new
    <2>2. IsFiniteSet(B(id)') /\ B(id) \in SUBSET B(id)'
      BY <1>2, <2>1, FS_AddElement
    <2> QED BY <2>2, FS_Subset
  <1>5. \A id : Cardinality(B(id)) \in Nat /\ Cardinality(B(id)') \in Nat
    BY <1>2, <1>4, FS_CardinalityType
  <1>6. Reused => Reused'
    BY <1>4, <1>5 DEF Reused
  <1>7. r.type # "BEGIN" => (Reused' <=> Reused)
    BY <1>1 DEF Reused
  <1>8. ASSUME r.type = "BEGIN", B(r.txn) # {}, r.txn \in TxnId PROVE Reused'
    <2>1. B(r.txn)' = B(r.txn) \cup {new}
      BY <1>1, <1>8
    <2>2. Cardinality(B(r.txn)') = Cardinality(B(r.txn)) + 1
      <3> HIDE DEF B, new
      <3> QED BY <1>2, <1>3, <2>1, FS_AddElement
    <2>3. Cardinality(B(r.txn)) # 0
      <3> HIDE DEF B
      <3> QED BY <1>2, <1>8, FS_EmptySet
    <2>4. Cardinality(B(r.txn)') > 1
      <3> HIDE DEF B
      <3> QED BY <1>5, <2>2, <2>3
    <2> QED BY <1>8, <2>4 DEF Reused
  <1> QED BY <1>6, <1>7, <1>8

\* An update of a transaction that began is one a rollback collects; other records change
\* no rollback, but for a BEGIN of the same id.
LEMMA RollbackLonger ==
    ASSUME TypeOK, NEW r \in LogRecord, log' = Append(log, r), NEW id, NEW p, NEW s,
           ~(r.type = "BEGIN" /\ r.txn = id)
    PROVE  /\ ~(/\ r.type = "UPDATE" /\ r.txn = id /\ r.page = p /\ r.slot = s) =>
                 RollbackUpdates(id, p, s)' = RollbackUpdates(id, p, s)
           /\ /\ r.type = "UPDATE" /\ r.txn = id /\ r.page = p /\ r.slot = s
              /\ Offsets("BEGIN", id) # {}
              => RollbackUpdates(id, p, s)' # {}
  <1>1. Offsets("BEGIN", id)' = Offsets("BEGIN", id)
    <2>1. Offsets("BEGIN", id)' = Offsets("BEGIN", id)
             \cup {i \in {Len(log) + 1} : r.type = "BEGIN" /\ r.txn = id}
      BY LogLonger
    <2> QED BY <2>1
  <1>2. FirstLogRecord(id)' = FirstLogRecord(id)
    BY <1>1 DEF FirstLogRecord
  <1>3. UpdatesOf({id}, p, s)' =
          UpdatesOf({id}, p, s)
            \cup {i \in {Len(log) + 1} : /\ r.type = "UPDATE" /\ r.txn \in {id}
                                         /\ r.page = p /\ r.slot = s}
    BY LogLonger
  <1>4. ASSUME ~(/\ r.type = "UPDATE" /\ r.txn = id /\ r.page = p /\ r.slot = s)
        PROVE  RollbackUpdates(id, p, s)' = RollbackUpdates(id, p, s)
    <2>1. UpdatesOf({id}, p, s)' = UpdatesOf({id}, p, s)
      BY <1>3, <1>4
    <2> QED BY <1>2, <2>1 DEF RollbackUpdates
  <1>5. ASSUME r.type = "UPDATE", r.txn = id, r.page = p, r.slot = s, Offsets("BEGIN", id) # {}
        PROVE  RollbackUpdates(id, p, s)' # {}
    <2>1. Len(log) + 1 \in UpdatesOf({id}, p, s)'
      BY <1>3, <1>5
    <2>2. Len(log) + 1 >= FirstLogRecord(id)'
      BY <1>2, <1>5, OffsetsFacts
    <2> QED BY <2>1, <2>2 DEF RollbackUpdates
  <1> QED BY <1>4, <1>5

\* While ids are given out once, a rollback collects all updates of a transaction.
LEMMA RollbackOnce ==
    ASSUME TypeOK, OneInsert, NEW id \in TxnId, Offsets("BEGIN", id) # {}, NEW p, NEW s
    PROVE  RollbackUpdates(id, p, s) = UpdatesOf({id}, p, s)
  <1>1. /\ FirstLogRecord(id) \in Offsets("BEGIN", id) /\ FirstLogRecord(id) \in 1..Len(log)
        /\ Len(log) \in Nat
    BY OffsetsFacts
  <1>2. ASSUME NEW i \in UpdatesOf({id}, p, s) PROVE i >= FirstLogRecord(id)
    <2>1. i \in DOMAIN log /\ log[i].type = "UPDATE" /\ log[i].txn = id
      BY DEF UpdatesOf
    <2>2. LET j == FirstLogRecord(id)
          IN  j \in DOMAIN log /\ log[j].type = "BEGIN" /\ log[j].txn = id
      BY <1>1 DEF Offsets
    <2>3. FirstLogRecord(id) < i
      BY <2>1, <2>2 DEF OneInsert
    <2>4. i \in Nat
      BY <2>1, LogFacts
    <2> QED BY <1>1, <2>3, <2>4
  <1> QED BY <1>2 DEF RollbackUpdates

-----------------------------------------------------------------------------
(* Steps that leave the log and the pages as they are seen.                *)

\* What a step that does not log leaves alone.
LEMMA SameRecords ==
    ASSUME ViewInv,
           UNCHANGED <<log, transaction_counter, transaction_table, incarnation, outcome, rows>>
    PROVE  /\ StartedKnown' /\ UnusedEmpty' /\ BeginsLogged' /\ (Reused' <=> Reused)
           /\ ~Reused => OutcomesLogged' /\ OneInsert'
  <1>1. /\ \A type, id : Offsets(type, id)' = Offsets(type, id)
        /\ \A ids, p, s : UpdatesOf(ids, p, s)' = UpdatesOf(ids, p, s)
        /\ \A id, p, s : RollbackUpdates(id, p, s)' = RollbackUpdates(id, p, s)
        /\ Reused' <=> Reused
    BY LogSame
  <1>2. StartedKnown'
    BY <1>1 DEF ViewInv, StartedKnown, Started
  <1>3. UnusedEmpty'
    BY DEF ViewInv, UnusedEmpty
  <1>4. BeginsLogged'
    BY <1>1 DEF ViewInv, BeginsLogged
  <1>5. ASSUME ~Reused PROVE OutcomesLogged'
    BY <1>1, <1>5 DEF ViewInv, OnceInv, OutcomesLogged
  <1>6. ASSUME ~Reused PROVE OneInsert'
    BY <1>1, <1>6 DEF ViewInv, OnceInv, OneInsert, OwnImages, Started, Uncrashed
  <1> QED BY <1>1, <1>2, <1>3, <1>4, <1>5, <1>6

\* Steps between calls, in a flush and in recovery: memory shows the same pages.
LEMMA SameView ==
    ASSUME TxnInv, ViewInv, UNCHANGED <<log, memory, ghosts>>,
           call.op # "write", call'.op # "write",
           \A p \in Page : Fixed(p)' = Fixed(p) /\ disk'[p] \in {disk[p], Fixed(p)},
           \A x \in Value : (Kept(x)' => Kept(x)) /\ (Shown(x) => Shown(x)'),
           FlushesPending', Recovering' => Recovering,
           ~Reused => LosersCrashed'
    PROVE  ViewInv'
  <1>1. UNCHANGED <<page_count, transaction_counter, transaction_table, incarnation, outcome,
                    rows>>
    BY DEF memory, ghosts
  <1>2. /\ StartedKnown' /\ UnusedEmpty' /\ BeginsLogged' /\ (Reused' <=> Reused)
        /\ ~Reused => OutcomesLogged' /\ OneInsert'
    BY <1>1, SameRecords
  <1>3. BlankPages'
    BY <1>1 DEF ViewInv, BlankPages
  <1>4. InsertsLogged'
    BY <1>1 DEF ViewInv, InsertsLogged
  <1>5. NoStray'
    BY <1>1 DEF ViewInv, NoStray, Writes
  <1>6. AllThere'
    BY <1>1 DEF ViewInv, AllThere, Kept
  <1>7. RecoveringOnce'
    BY <1>1, <1>2 DEF ViewInv, RecoveringOnce
  <1>8. ASSUME ~Reused PROVE RowsApart' /\ DiskShown'
    <2>1. RowsApart'
      BY <1>1, <1>8 DEF ViewInv, OnceInv, RowsApart, Writes, Uncrashed
    <2>2. DiskShown'
      BY <1>1, <1>8 DEF ViewInv, OnceInv, DiskShown, NoStray, Writes, Shown, Kept
    <2> QED BY <2>1, <2>2
  <1> QED BY <1>2, <1>3, <1>4, <1>5, <1>6, <1>7, <1>8 DEF ViewInv, OnceInv

LEMMA SamePages == ASSUME UNCHANGED <<disk, buffer>> PROVE \A p \in Page : Fixed(p)' = Fixed(p)
  BY DEF Fixed

LEMMA FlushedPages ==
    ASSUME NEW ps, NEW p \in ps \ ToFlush(ps, buffer)
    PROVE  disk[p] = Fixed(p)
  BY DEF ToFlush, Fixed

LEMMA CallRecovery ==
    ASSUME TxnInv, ViewInv,
           \/ FlushAllPages \/ LogCheckpoint \/ FlushEnds \/ FinalFlush
           \/ \E id \in TxnId : CommitTxn(id)
    PROVE  ViewInv'
  <1>1. /\ UNCHANGED <<log, disk, buffer, memory, ghosts>>
        /\ \/ call.op \in {"idle", "flush"}
           \/ call.op = "undo" /\ call.losers = {}
        /\ \/ call'.op \in {"idle", "flush", "checkpoint"}
           \/ \E id \in TxnId : call' = Writing("commit", id,
                                                ToFlush(transaction_table[id].modified, buffer))
    BY IdleCall
    DEF FlushAllPages, LogCheckpoint, FlushEnds, FinalFlush, CommitTxn, Writing
  <1>2. call.op \notin {"write", "abort"} /\ call'.op \notin {"write", "abort", "recovery", "undo"}
    BY <1>1 DEF Writing
  <1>3. \A p \in Page : Fixed(p)' = Fixed(p) /\ disk'[p] \in {disk[p], Fixed(p)}
    BY <1>1, SamePages
  <1>4. \A x \in Value : (Kept(x)' => Kept(x)) /\ (Shown(x) => Shown(x)')
    <2>1. UNCHANGED outcome
      BY <1>1 DEF ghosts
    <2> QED BY <1>1, <1>2, <2>1 DEF Shown, Kept, Aborting
  <1>5. FlushesPending'
    <2>1. CASE call'.op \in {"idle", "flush", "checkpoint"}
      BY <2>1 DEF FlushesPending
    <2>2. ASSUME NEW id \in TxnId,
                 call' = Writing("commit", id, ToFlush(transaction_table[id].modified, buffer))
          PROVE  FlushesPending'
      <3>1. /\ call'.op = "commit" /\ call'.txn = id
            /\ call'.todo = ToFlush(transaction_table[id].modified, buffer)
        BY <2>2 DEF Writing
      <3>2. \A p \in transaction_table[id].modified \ call'.todo : disk[p] = Fixed(p)
        BY <3>1, FlushedPages
      <3>3. transaction_table[id].modified \subseteq Page
        BY DEF TxnInv, TypeOK
      <3>4. UNCHANGED <<disk, transaction_table>>
        BY <1>1 DEF memory
      <3> QED BY <1>3, <3>1, <3>2, <3>3, <3>4 DEF FlushesPending
    <2> QED BY <1>1, <2>1, <2>2
  <1>6. ~Recovering' /\ LosersCrashed'
    BY <1>2 DEF Recovering, LosersCrashed
  <1> QED BY <1>1, <1>2, <1>3, <1>4, <1>5, <1>6, SameView

LEMMA FlushFrameRecovery == ASSUME TxnInv, TypeOK', ViewInv, FlushFrame PROVE ViewInv'
  <1>1. PICK p \in call.todo : /\ disk' = [disk EXCEPT ![p] = Fixed(p)]
                               /\ call' = [call EXCEPT !.todo = @ \ {p}]
    BY DEF FlushFrame
  <1>2. /\ call.op \in {"flush", "commit", "abort", "checkpoint", "undo"}
        /\ UNCHANGED <<log, buffer, memory, ghosts>>
        /\ UNCHANGED <<transaction_table, incarnation, outcome>>
    BY DEF FlushFrame, memory, ghosts
  <1>3. TypeOK /\ p \in Page
    BY <1>1, <1>2, CallShape DEF TxnInv
  <1>4. /\ call'.op = call.op /\ call'.txn = call.txn /\ call'.todo = call.todo \ {p}
        /\ call.op = "undo" => call'.losers = call.losers
    BY <1>1, <1>2, <1>3 DEF TypeOK, Call
  <1>5. \A q \in Page : disk'[q] = IF q = p THEN Fixed(p) ELSE disk[q]
    BY <1>1, <1>3 DEF TypeOK
  <1>6. \A q \in Page : Fixed(q)' = Fixed(q) /\ disk'[q] \in {disk[q], Fixed(q)}
    BY <1>2, <1>3, <1>5 DEF Fixed
  <1>7. \A x \in Value : (Kept(x)' => Kept(x)) /\ (Shown(x) => Shown(x)')
    BY <1>2, <1>4 DEF Shown, Kept, Aborting
  <1>8. FlushesPending'
    <2>1. ASSUME call.op = "commit", NEW q \in transaction_table[call.txn].modified \ call'.todo
          PROVE  disk'[q] = Fixed(q)
      <3>1. q \in Page
        BY <2>1 DEF TxnInv, CallOfStarted, TypeOK
      <3> QED BY <1>4, <1>5, <2>1, <3>1 DEF ViewInv, FlushesPending
    <2>2. ASSUME call.op = "abort", NEW q \in Page \ call'.todo PROVE disk'[q] = Fixed(q)
      BY <1>4, <1>5, <2>2 DEF ViewInv, FlushesPending
    <2>3. \A id \in TxnId : transaction_table[id].modified \subseteq Page
      BY <1>3 DEF TypeOK
    <2>4. call.op = "commit" => call.txn \in TxnId
      BY DEF TxnInv, CallOfStarted
    <2> QED BY <1>2, <1>4, <1>6, <2>1, <2>2, <2>3, <2>4 DEF FlushesPending
  <1>9. ~Reused => LosersCrashed'
    BY <1>2, <1>4 DEF ViewInv, OnceInv, LosersCrashed
  <1>10. Recovering' => Recovering
    BY <1>4 DEF Recovering
  <1>11. call.op # "write" /\ call'.op # "write"
    BY <1>2, <1>4
  <1> QED BY <1>2, <1>6, <1>7, <1>8, <1>9, <1>10, <1>11, SameView

LEMMA RecoveryStutter == ASSUME TxnInv, ViewInv, UNCHANGED vars PROVE ViewInv'
  <1>1. UNCHANGED <<log, disk, buffer, call, page_count, transaction_counter,
                    transaction_table, incarnation, outcome, rows>>
    BY DEF vars, memory, ghosts
  <1>2. /\ StartedKnown' /\ UnusedEmpty' /\ BeginsLogged' /\ (Reused' <=> Reused)
        /\ ~Reused => OutcomesLogged' /\ OneInsert'
    BY <1>1, SameRecords
  <1>3. \A p \in Page : Fixed(p)' = Fixed(p)
    BY <1>1, SamePages
  <1>4. /\ \A x \in Value : (Kept(x)' <=> Kept(x)) /\ (Shown(x)' <=> Shown(x))
        /\ \A p, s : Writes(p, s)' <=> Writes(p, s)
    BY <1>1 DEF Shown, Kept, Aborting, Writes
  <1>5. BlankPages' /\ InsertsLogged' /\ NoStray'
    <2>1. BlankPages'
      BY <1>1, <1>3 DEF ViewInv, BlankPages
    <2>2. InsertsLogged'
      <3>1. call.op = "write" => call.page \in Page
        BY CallShape DEF TxnInv
      <3> QED BY <1>1, <1>3, <3>1 DEF ViewInv, InsertsLogged
    <2>3. NoStray'
      BY <1>1, <1>3, <1>4 DEF ViewInv, NoStray
    <2> QED BY <2>1, <2>2, <2>3
  <1>6. AllThere'
    BY <1>1, <1>3, <1>4 DEF ViewInv, AllThere
  <1>7. FlushesPending'
    <2>1. call.op = "commit" => transaction_table[call.txn].modified \subseteq Page
      BY DEF TxnInv, CallOfStarted, TypeOK
    <2> QED BY <1>1, <1>3, <2>1 DEF ViewInv, FlushesPending
  <1>8. RecoveringOnce'
    BY <1>1, <1>2 DEF ViewInv, RecoveringOnce, Recovering
  <1>9. ASSUME ~Reused PROVE RowsApart' /\ DiskShown' /\ LosersCrashed'
    BY <1>1, <1>3, <1>4, <1>9
    DEF ViewInv, OnceInv, RowsApart, Uncrashed, DiskShown, LosersCrashed
  <1> QED BY <1>2, <1>5, <1>6, <1>7, <1>8, <1>9 DEF ViewInv, OnceInv

-----------------------------------------------------------------------------
(* Redo and rollback, of a recovery and of an abort.                       *)

LEMMA EmptyIsNoValue == ASSUME NEW x \in Value PROVE x # Empty
  BY LogAssumption

\* A rollback empties the slots of the transaction and touches nothing else.
LEMMA RolledBackPages ==
    ASSUME TypeOK, InsertsLogged, UNCHANGED disk, NEW id \in TxnId,
           NEW b \in [Page -> PageContent \cup {NotBuffered}], buffer' = RolledBack(id, b),
           NEW p \in Page,
           NEW page, page = IF b[p] = NotBuffered THEN disk[p] ELSE b[p]
    PROVE  /\ p >= page_count => Fixed(p)' = page
           /\ Fixed(p)'.slots = page.slots
           /\ \A s \in Slot : Fixed(p)'.data[s] =
                 IF RollbackUpdates(id, p, s) # {} THEN Empty ELSE page.data[s]
  <1> DEFINE after == [page EXCEPT !.data = RollbackData(id, p, page.data)]
  <1>1. page \in PageContent
    BY DEF TypeOK
  <1>2. buffer'[p] = IF p \in RollbackPages(id) THEN after ELSE b[p]
    BY DEF RolledBack
  <1>3. ASSUME p \in RollbackPages(id) PROVE Fixed(p)' = after
    <2>1. after \in [made : BOOLEAN, slots : {0} \cup Slot, data : {RollbackData(id, p, page.data)}]
      BY <1>1 DEF PageContent
    <2>2. ASSUME after = NotBuffered PROVE FALSE
      <3>1. RollbackData(id, p, page.data) \in [Slot -> Image]
        <4>1. ASSUME NEW s \in Slot PROVE RollbackData(id, p, page.data)[s] \in Image
          <5> DEFINE U == RollbackUpdates(id, p, s)
          <5>1. RollbackData(id, p, page.data)[s] =
                  IF U = {} THEN page.data[s] ELSE log[Min(U)].before
            BY DEF RollbackData
          <5>2. page.data[s] \in Image
            BY <1>1 DEF PageContent
          <5>3. U \in SUBSET Nat
            BY LogFacts DEF RollbackUpdates, UpdatesOf
          <5>4. U # {} => log[Min(U)].before \in Image
            <6> SUFFICES ASSUME U # {} PROVE log[Min(U)].before \in Image
              OBVIOUS
            <6>1. Min(U) \in U
              <7> HIDE DEF U
              <7> QED BY <5>3, MinFact
            <6> QED BY <6>1, LogFacts DEF RollbackUpdates, UpdatesOf
          <5> QED BY <5>1, <5>2, <5>4
        <4> QED BY <4>1 DEF RollbackData
      <3>2. after \in PageContent
        BY <2>1, <3>1 DEF PageContent
      <3> QED BY <2>2, <3>2, SystemAssumption
    <2> QED BY <1>2, <1>3, <2>2 DEF Fixed
  <1>4. ASSUME p \notin RollbackPages(id) PROVE Fixed(p)' = page
    BY <1>2, <1>4 DEF Fixed
  <1>5. ASSUME p >= page_count PROVE p \notin RollbackPages(id)
    <2>1. ASSUME NEW s \in Slot, NEW i \in RollbackUpdates(id, p, s) PROVE FALSE
      <3>1. i \in DOMAIN log /\ log[i].type = "UPDATE" /\ log[i].page = p
        BY <2>1 DEF RollbackUpdates, UpdatesOf
      <3>2. p < page_count /\ p \in Nat /\ page_count \in Nat
        <4>1. p < page_count
          BY <3>1 DEF InsertsLogged
        <4>2. Page \subseteq Nat
          BY SystemAssumption, FS_CardinalityType
        <4> QED BY <4>1, <4>2 DEF TypeOK
      <3> QED BY <1>5, <3>2
    <2> QED BY <2>1 DEF RollbackPages
  <1>6. ASSUME NEW s \in Slot
        PROVE  Fixed(p)'.data[s] = IF RollbackUpdates(id, p, s) # {} THEN Empty ELSE page.data[s]
    <2>1. CASE RollbackUpdates(id, p, s) = {}
      <3>1. RollbackData(id, p, page.data)[s] = page.data[s]
        BY <2>1 DEF RollbackData
      <3>2. after.data = RollbackData(id, p, page.data)
        BY <1>1 DEF PageContent
      <3> QED BY <1>3, <1>4, <2>1, <3>1, <3>2
    <2>2. CASE RollbackUpdates(id, p, s) # {}
      <3> DEFINE m == Min(RollbackUpdates(id, p, s))
      <3>1. m \in RollbackUpdates(id, p, s)
        <4> DEFINE U == RollbackUpdates(id, p, s)
        <4>1. U \in SUBSET Nat
          BY LogFacts DEF RollbackUpdates, UpdatesOf
        <4> HIDE DEF U
        <4>2. U # {} => Min(U) \in U
          BY <4>1, MinFact
        <4> QED BY <2>2, <4>2 DEF U
      <3>2. log[m].before = Empty
        BY <3>1 DEF RollbackUpdates, UpdatesOf, InsertsLogged
      <3>3. RollbackData(id, p, page.data)[s] = Empty
        BY <2>2, <3>2 DEF RollbackData
      <3>4. p \in RollbackPages(id)
        BY <2>2 DEF RollbackPages
      <3>5. after.data = RollbackData(id, p, page.data)
        BY <1>1 DEF PageContent
      <3> QED BY <1>3, <2>2, <3>3, <3>4, <3>5
    <2> QED BY <2>1, <2>2
  <1>7. Fixed(p)'.slots = page.slots
    <2>1. after.slots = page.slots
      BY <1>1 DEF PageContent
    <2> QED BY <1>3, <1>4, <2>1
  <1> QED BY <1>4, <1>5, <1>6, <1>7

\* The records of one transaction leave the memory.
LEMMA ErasedView ==
    ASSUME TxnInv, ViewInv, UNCHANGED <<log, disk, memory, ghosts>>,
           call.op # "write", call'.op # "write", NEW lost \in Value,
           \A p \in Page :
              /\ p >= page_count => Fixed(p)' = Fixed(p)
              /\ Fixed(p)'.slots = Fixed(p).slots
              /\ \A s \in Slot : Fixed(p)'.data[s] =
                    IF <<p, s>> \in rows[lost] THEN Empty ELSE Fixed(p).data[s],
           \A x \in Value : Kept(x)' => Kept(x) /\ rows[x] \cap rows[lost] = {},
           \A x \in Value : Shown(x) /\ x # lost => Shown(x)',
           FlushesPending', Recovering' => Recovering,
           ~Reused => LosersCrashed'
    PROVE  ViewInv'
  <1>1. UNCHANGED <<page_count, transaction_counter, transaction_table, incarnation, outcome,
                    rows>>
    BY DEF memory, ghosts
  <1>2. /\ StartedKnown' /\ UnusedEmpty' /\ BeginsLogged' /\ (Reused' <=> Reused)
        /\ ~Reused => OutcomesLogged' /\ OneInsert'
    BY <1>1, SameRecords
  <1>3. BlankPages'
    BY <1>1 DEF ViewInv, BlankPages
  <1>4. InsertsLogged'
    BY <1>1 DEF ViewInv, InsertsLogged
  <1>5. NoStray'
    <2> SUFFICES ASSUME NEW p \in Page, NEW s \in Slot, NEW x \in Value, Fixed(p)'.data[s] = x
                 PROVE  <<p, s>> \in rows[x] /\ Shown(x)'
      BY <1>1 DEF NoStray
    <2>1. x # Empty
      BY EmptyIsNoValue
    <2>2. <<p, s>> \notin rows[lost] /\ Fixed(p).data[s] = x
      BY <2>1
    <2>3. <<p, s>> \in rows[x] /\ Shown(x)
      BY <2>2 DEF ViewInv, NoStray, Writes
    <2> QED BY <2>2, <2>3
  <1>6. AllThere'
    <2> SUFFICES ASSUME NEW x \in Value, NEW p \in Page, NEW s \in Slot, <<p, s>> \in rows[x]
                 PROVE  /\ Kept(x)' => Fixed(p)'.data[s] = x /\ s <= Fixed(p)'.slots
                        /\ outcome[x] = "committed" => disk[p].data[s] = x /\ s <= disk[p].slots
      BY <1>1 DEF AllThere
    <2>1. ASSUME Kept(x)' PROVE Fixed(p)'.data[s] = x /\ s <= Fixed(p)'.slots
      <3>1. Kept(x) /\ <<p, s>> \notin rows[lost]
        BY <2>1
      <3> QED BY <3>1 DEF ViewInv, AllThere
    <2> QED BY <2>1 DEF ViewInv, AllThere
  <1>7. RecoveringOnce'
    BY <1>1, <1>2 DEF ViewInv, RecoveringOnce
  <1>8. ASSUME ~Reused PROVE RowsApart' /\ DiskShown'
    <2>1. RowsApart'
      BY <1>1, <1>8 DEF ViewInv, OnceInv, RowsApart, Writes, Uncrashed
    <2>2. DiskShown'
      BY <1>1, <1>8 DEF ViewInv, OnceInv, DiskShown
    <2> QED BY <2>1, <2>2
  <1> QED BY <1>2, <1>3, <1>4, <1>5, <1>6, <1>7, <1>8 DEF ViewInv, OnceInv

LEMMA AbortTxnRecovery ==
    ASSUME TxnInv, ViewInv, FlushBeforeAbort, NEW id \in TxnId, AbortTxn(id)
    PROVE  ViewInv'
  <1> DEFINE b0 == Discarded(transaction_table[id].modified)
             lost == incarnation[id]
  <1>1. /\ call.op = "idle" /\ Started(id) /\ ToFlush(Page, buffer) = {}
        /\ buffer' = RolledBack(id, b0)
        /\ call' = Writing("abort", id, ToFlush(Page, RolledBack(id, b0)))
        /\ UNCHANGED <<log, disk, memory, ghosts>>
    BY IdleCall DEF AbortTxn
  <1>2. UNCHANGED <<incarnation, outcome, rows>>
    BY <1>1 DEF ghosts
  <1>3. /\ call'.op = "abort" /\ call'.txn = id
        /\ call'.todo = ToFlush(Page, RolledBack(id, b0))
    BY <1>1 DEF Writing
  <1>4. \A p \in Page : disk[p] = Fixed(p)
    BY <1>1, FlushedPages
  <1>5. TypeOK /\ lost \in Value /\ outcome[lost] = "active"
    BY <1>1 DEF TxnInv, CallOfStarted, ViewInv, StartedKnown
  <1>6. b0 \in [Page -> PageContent \cup {NotBuffered}]
    BY <1>5 DEF Discarded, TypeOK
  <1>7. \A p \in Page : (IF b0[p] = NotBuffered THEN disk[p] ELSE b0[p]) = Fixed(p)
    BY <1>4 DEF Discarded, Fixed
  <1> HIDE DEF b0
  <1>8. ASSUME NEW p \in Page
        PROVE  /\ p >= page_count => Fixed(p)' = Fixed(p)
               /\ Fixed(p)'.slots = Fixed(p).slots
               /\ \A s \in Slot : Fixed(p)'.data[s] =
                     IF <<p, s>> \in rows[lost] THEN Empty ELSE Fixed(p).data[s]
    <2>1. /\ p >= page_count => Fixed(p)' = Fixed(p)
          /\ Fixed(p)'.slots = Fixed(p).slots
          /\ \A s \in Slot : Fixed(p)'.data[s] =
                IF RollbackUpdates(id, p, s) # {} THEN Empty ELSE Fixed(p).data[s]
      BY <1>1, <1>5, <1>6, <1>7, RolledBackPages DEF ViewInv
    <2>2. \A s \in Slot : RollbackUpdates(id, p, s) # {} <=> <<p, s>> \in rows[lost]
      BY <1>1 DEF ViewInv, StartedKnown
    <2> QED BY <2>1, <2>2
  <1>9. ASSUME NEW x \in Value, Kept(x)' PROVE Kept(x) /\ rows[x] \cap rows[lost] = {}
    <2>1. Kept(x) /\ Kept(lost) /\ x # lost
      BY <1>1, <1>2, <1>3, <1>5, <1>9 DEF Kept, Aborting
    <2>2. ASSUME NEW r \in rows[x], r \in rows[lost] PROVE FALSE
      <3>1. PICK p \in Page, s \in Slot : r = <<p, s>>
        BY <1>5, <2>2 DEF TypeOK
      <3>2. Fixed(p).data[s] = x /\ Fixed(p).data[s] = lost
        BY <1>5, <2>1, <2>2, <3>1 DEF ViewInv, AllThere
      <3> QED BY <2>1, <3>2
    <2> QED BY <2>1, <2>2
  <1>10. \A x \in Value : Shown(x) /\ x # lost => Shown(x)'
    BY <1>1, <1>2, <1>3 DEF Shown, Kept, Aborting
  <1>11. FlushesPending'
    <2>1. ASSUME NEW p \in Page \ call'.todo PROVE disk'[p] = Fixed(p)'
      BY <1>1, <1>3 DEF ToFlush, Fixed
    <2> QED BY <1>3, <2>1 DEF FlushesPending
  <1>12. ~Recovering' /\ LosersCrashed'
    BY <1>3 DEF Recovering, LosersCrashed
  <1>13. call.op # "write" /\ call'.op # "write"
    BY <1>1, <1>3
  <1> HIDE DEF lost
  <1> QED BY <1>1, <1>5, <1>8, <1>9, <1>10, <1>11, <1>12, <1>13, ErasedView

LEMMA UndoRecovery == ASSUME TxnInv, ViewInv, Undo PROVE ViewInv'
  <1> DEFINE id == Min(call.losers)
             b == RolledBack(id, buffer)
  <1>1. /\ call.op = "undo" /\ call.losers # {} /\ buffer' = RolledBack(id, buffer)
        /\ call' = [call EXCEPT !.txn = id, !.losers = @ \ {id}, !.todo = ToFlush(Page, b)]
        /\ UNCHANGED <<log, disk, memory, ghosts>>
    BY DEF Undo
  <1>2. UNCHANGED <<incarnation, outcome, rows>>
    BY <1>1 DEF ghosts
  <1>3. TypeOK /\ call.losers \subseteq TxnId
    BY <1>1, CallShape DEF TxnInv
  <1>4. id \in call.losers /\ id \in TxnId /\ id \in Value
    BY <1>1, <1>3, MinFact, LogAssumption, SystemAssumption
  <1>5. call'.op = "undo" /\ call'.losers = call.losers \ {id}
    <2>1. call \in [op : {"undo"}, txn : {0} \cup TxnId, todo : SUBSET Page,
                    losers : SUBSET TxnId]
      BY <1>1, <1>3 DEF TypeOK, Call
    <2> HIDE DEF id, b
    <2> QED BY <1>1, <2>1
  <1> HIDE DEF id, b
  <1>6. ~Reused /\ \A x \in Value : outcome[x] # "active"
    BY <1>1 DEF ViewInv, RecoveringOnce, Recovering
  <1>7. OnceInv
    BY <1>6 DEF ViewInv
  <1>8. outcome[id] = "crashed" /\ Offsets("BEGIN", id) # {}
    BY <1>1, <1>4, <1>7 DEF OnceInv, LosersCrashed, OutcomesLogged
  <1>9. \A p \in Page : \A s \in Slot : RollbackUpdates(id, p, s) # {} <=> <<p, s>> \in rows[id]
    <2>1. \A p, s : RollbackUpdates(id, p, s) = UpdatesOf({id}, p, s)
      BY <1>3, <1>4, <1>7, <1>8, RollbackOnce DEF OnceInv
    <2>2. \A p \in Page : \A s \in Slot : <<p, s>> \in rows[id] <=> UpdatesOf({id}, p, s) # {}
      BY <1>4, <1>7 DEF OnceInv, OneInsert
    <2> QED BY <2>1, <2>2
  <1>10. ASSUME NEW p \in Page
         PROVE  /\ p >= page_count => Fixed(p)' = Fixed(p)
                /\ Fixed(p)'.slots = Fixed(p).slots
                /\ \A s \in Slot : Fixed(p)'.data[s] =
                      IF <<p, s>> \in rows[id] THEN Empty ELSE Fixed(p).data[s]
    <2>1. buffer \in [Page -> PageContent \cup {NotBuffered}]
      BY <1>3 DEF TypeOK
    <2>2. Fixed(p) = IF buffer[p] = NotBuffered THEN disk[p] ELSE buffer[p]
      BY DEF Fixed
    <2>3. /\ p >= page_count => Fixed(p)' = Fixed(p)
          /\ Fixed(p)'.slots = Fixed(p).slots
          /\ \A s \in Slot : Fixed(p)'.data[s] =
                IF RollbackUpdates(id, p, s) # {} THEN Empty ELSE Fixed(p).data[s]
      BY <1>1, <1>3, <1>4, <2>1, <2>2, RolledBackPages DEF ViewInv
    <2> QED BY <1>9, <2>3
  <1>11. ASSUME NEW x \in Value, Kept(x)' PROVE Kept(x) /\ rows[x] \cap rows[id] = {}
    <2>1. outcome[x] = "committed"
      BY <1>2, <1>6, <1>11 DEF Kept
    <2>2. ASSUME NEW r \in rows[x], r \in rows[id] PROVE FALSE
      <3>1. PICK p \in Page, s \in Slot : r = <<p, s>>
        BY <1>3, <2>2 DEF TypeOK
      <3>2. x = id
        BY <1>4, <1>7, <2>2, <3>1 DEF OnceInv, RowsApart
      <3> QED BY <1>8, <2>1, <3>2
    <2> QED BY <2>1, <2>2 DEF Kept
  <1>12. \A x \in Value : Shown(x) /\ x # id => Shown(x)'
    BY <1>1, <1>2, <1>5 DEF Shown, Kept, Aborting
  <1>13. FlushesPending' /\ LosersCrashed' /\ Recovering
    BY <1>1, <1>2, <1>5, <1>7 DEF FlushesPending, OnceInv, LosersCrashed, Recovering
  <1>14. call.op # "write" /\ call'.op # "write"
    BY <1>1, <1>5
  <1> QED BY <1>1, <1>4, <1>10, <1>11, <1>12, <1>13, <1>14, ErasedView

\* What redo writes is there already: commits force their pages.
LEMMA RedoRecovery == ASSUME TxnInv, ViewInv, Redo PROVE ViewInv'
  <1>1. /\ call.op = "recovery"
        /\ buffer' = [p \in Page |->
                        IF p \in RedoPages THEN [Fixed(p) EXCEPT !.data = RedoData(p, @)]
                        ELSE buffer[p]]
        /\ call' = [op |-> "undo", txn |-> 0, todo |-> {}, losers |-> ActiveTxns]
        /\ UNCHANGED <<log, disk, memory, ghosts>>
    BY DEF Redo
  <1>2. UNCHANGED <<incarnation, outcome, rows>>
    BY <1>1 DEF ghosts
  <1>3. call'.op = "undo" /\ call'.losers = ActiveTxns
    BY <1>1
  <1>4. TypeOK /\ TxnId = Value
    BY SystemAssumption DEF TxnInv
  <1>5. ~Reused /\ OnceInv /\ \A x \in Value : outcome[x] # "active"
    BY <1>1 DEF ViewInv, RecoveringOnce, Recovering
  <1>6. ASSUME NEW p \in Page PROVE RedoData(p, Fixed(p).data) = Fixed(p).data
    <2>1. ASSUME NEW s \in Slot PROVE RedoData(p, Fixed(p).data)[s] = Fixed(p).data[s]
      <3> DEFINE U == UpdatesOf(CommittedTxns, p, s)
      <3>1. RedoData(p, Fixed(p).data)[s] =
              IF U = {} THEN Fixed(p).data[s] ELSE log[Max(U)].after
        BY DEF RedoData
      <3>2. ASSUME U # {} PROVE log[Max(U)].after = Fixed(p).data[s]
        <4> DEFINE i == Max(U)
        <4>1. U \in SUBSET (1..Len(log)) /\ Len(log) \in Nat
          BY <1>4, LogFacts DEF UpdatesOf
        <4>2. i \in U
          BY <3>2, <4>1, MaxFact
        <4>3. /\ i \in DOMAIN log /\ log[i].type = "UPDATE" /\ log[i].txn \in CommittedTxns
              /\ log[i].page = p /\ log[i].slot = s
          BY <4>2 DEF UpdatesOf
        <4> HIDE DEF i, U
        <4> DEFINE c == log[i].txn
        <4>4. c \in Value /\ outcome[c] = "committed" /\ log[i].after = c
          BY <1>4, <1>5, <4>3 DEF CommittedTxns, OnceInv, OutcomesLogged, OneInsert, OwnImages
        <4>5. i \in UpdatesOf({c}, p, s)
          BY <4>3 DEF UpdatesOf
        <4>6. <<p, s>> \in rows[c]
          BY <1>5, <4>4, <4>5 DEF OnceInv, OneInsert
        <4>7. Fixed(p).data[s] = c
          BY <4>4, <4>6 DEF ViewInv, AllThere, Kept
        <4> QED BY <4>4, <4>7 DEF i
      <3> QED BY <3>1, <3>2
    <2>2. Fixed(p).data \in [Slot -> Image]
      BY <1>4, FixedPage
    <2>3. RedoData(p, Fixed(p).data)
            = [s \in Slot |-> RedoData(p, Fixed(p).data)[s]]
      BY DEF RedoData
    <2> QED BY <2>1, <2>2, <2>3
  <1>7. \A p \in Page : Fixed(p)' = Fixed(p) /\ disk'[p] \in {disk[p], Fixed(p)}
    <2> SUFFICES ASSUME NEW p \in Page PROVE Fixed(p)' = Fixed(p)
      BY <1>1
    <2>1. Fixed(p) \in PageContent /\ Fixed(p) # NotBuffered
      BY <1>4, FixedPage, SystemAssumption
    <2>2. [Fixed(p) EXCEPT !.data = RedoData(p, Fixed(p).data)] = Fixed(p)
      BY <1>6, <2>1 DEF PageContent
    <2>3. buffer'[p] = IF p \in RedoPages THEN Fixed(p) ELSE buffer[p]
      BY <1>1, <2>2
    <2> QED BY <1>1, <2>1, <2>3 DEF Fixed
  <1>8. ASSUME NEW x \in Value PROVE x \in ActiveTxns <=> outcome[x] = "crashed"
    <2>1. /\ Offsets("BEGIN", x) # {} <=> outcome[x] # "unused"
          /\ Offsets("COMMIT", x) # {} <=> outcome[x] = "committed"
          /\ Offsets("ABORT", x) # {} <=> outcome[x] = "aborted"
      BY <1>5 DEF OnceInv, OutcomesLogged
    <2>2. outcome[x] \in {"unused", "committed", "aborted", "crashed"}
      BY <1>4, <1>5 DEF TypeOK
    <2>3. ASSUME x \in ActiveTxns PROVE outcome[x] = "crashed"
      <3>1. PICK i \in Offsets("BEGIN", x) : \A j \in Offsets("ABORT", x) : j < i
        BY <2>3 DEF ActiveTxns
      <3>2. ASSUME NEW j \in Offsets("ABORT", x) PROVE FALSE
        <4>1. j < i
          BY <3>1, <3>2
        <4>2. i < j
          BY <1>5 DEF OnceInv, OneInsert, Offsets
        <4>3. i \in Nat /\ j \in Nat
          BY <1>4, LogFacts DEF Offsets
        <4> QED BY <4>1, <4>2, <4>3
      <3>3. Offsets("COMMIT", x) = {}
        BY <2>3 DEF ActiveTxns
      <3> QED BY <2>1, <2>2, <3>1, <3>2, <3>3
    <2>4. ASSUME outcome[x] = "crashed" PROVE x \in ActiveTxns
      BY <1>4, <2>1, <2>4 DEF ActiveTxns
    <2> QED BY <2>3, <2>4
  <1>9. \A x \in Value : (Kept(x)' => Kept(x)) /\ (Shown(x) => Shown(x)')
    BY <1>1, <1>2, <1>3, <1>5, <1>8 DEF Shown, Kept, Aborting
  <1>10. LosersCrashed'
    BY <1>2, <1>3, <1>4, <1>8 DEF LosersCrashed, ActiveTxns
  <1>11. FlushesPending' /\ Recovering
    BY <1>1, <1>3 DEF FlushesPending, Recovering
  <1>12. call.op # "write" /\ call'.op # "write"
    BY <1>1, <1>3
  <1> QED BY <1>1, <1>7, <1>9, <1>10, <1>11, <1>12, SameView

-----------------------------------------------------------------------------
(* Inserts, and steps that write a record of the log.                      *)

\* A record goes into an empty slot of a page that is made.
LEMMA RowInserted ==
    ASSUME TxnInv, ViewInv, NEW id \in TxnId, InsertRow(id)
    PROVE  \E p \in Page, s \in Slot, new \in PageContent :
              /\ p < page_count' /\ page_count' \in {page_count, page_count + 1}
              /\ s = Fixed(p).slots + 1 /\ Fixed(p).data[s] = Empty
              /\ new.slots = s /\ new.data[s] = incarnation[id]
              /\ \A t \in Slot : t # s => new.data[t] = Fixed(p).data[t]
              /\ buffer' = [buffer EXCEPT ![p] = new]
              /\ call'.op = "write" /\ call'.txn = id /\ call'.page = p
              /\ call'.slot = s /\ call'.before = Empty
  <1> DEFINE p == AllocatedPage
             page == IF p = page_count THEN [Fixed(p) EXCEPT !.made = TRUE, !.slots = 0]
                     ELSE Fixed(p)
             s == page.slots + 1
             new == [page EXCEPT !.slots = s, !.data[s] = incarnation[id]]
  <1>1. /\ call.op = "idle" /\ Started(id) /\ p \in Page
        /\ page_count' = IF p = page_count THEN page_count + 1 ELSE page_count
        /\ buffer' = [buffer EXCEPT ![p] = new]
        /\ call' = [op |-> "write", txn |-> id, page |-> p, slot |-> s,
                    before |-> page.data[s]]
        /\ UNCHANGED <<log, disk, transaction_counter, transaction_table,
                       incarnation, outcome, rows>>
    BY IdleCall DEF InsertRow, ghosts
  <1>2. TypeOK
    BY DEF TxnInv
  <1>3. page \in PageContent /\ page.data = Fixed(p).data /\ s \in Slot
    <2>1. page = IF p = page_count THEN [Fixed(p) EXCEPT !.made = TRUE, !.slots = 0]
                 ELSE Fixed(p)
      OBVIOUS
    <2>2. p = AllocatedPage
      OBVIOUS
    <2> HIDE DEF p, page
    <2> QED BY <1>1, <2>1, <2>2, NextSlot
  <1>4. page_count \in Nat /\ Page \subseteq Nat /\ Slot \subseteq Nat
    BY <1>2, SystemAssumption, LogAssumption, FS_CardinalityType DEF TypeOK
  <1>5. page.slots = Fixed(p).slots
    <2>1. CASE p = page_count
      <3>1. Fixed(p) = BlankPage
        BY <1>1, <1>4, <2>1 DEF ViewInv, BlankPages
      <3>2. page.slots = 0 /\ Fixed(p).slots = 0
        BY <2>1, <3>1 DEF BlankPage
      <3> QED BY <3>2
    <2> QED BY <2>1
  <1>6. p < page_count'
    <2>1. CASE p = page_count
      BY <1>1, <1>4, <2>1
    <2>2. CASE p # page_count
      <3> DEFINE open == {q \in Page : q < page_count /\ HasSpace(q)}
      <3>1. open # {} /\ p = Min(open) /\ open \in SUBSET Nat
        BY <1>4, <2>2 DEF AllocatedPage
      <3>2. p \in open
        <4> HIDE DEF open, p
        <4> QED BY <3>1, MinFact
      <3> QED BY <1>1, <2>2, <3>2
    <2> QED BY <2>1, <2>2
  <1>7. incarnation[id] \in Value
    BY <1>1 DEF TxnInv, CallOfStarted
  <1>8. s \in Nat /\ page.slots \in Nat /\ s = page.slots + 1
    BY <1>3, <1>4 DEF PageContent
  <1> HIDE DEF p, s
  <1>9. /\ new \in PageContent /\ new.data[s] = incarnation[id] /\ new.slots = s
        /\ \A t \in Slot : t # s => new.data[t] = page.data[t]
    <2> HIDE DEF page
    <2> QED BY <1>3, <1>7 DEF PageContent, Image
  <1>10. page.data[s] = Empty /\ Fixed(p).data[s] = Empty
    <2>1. s > Fixed(p).slots
      BY <1>5, <1>8
    <2> QED BY <1>1, <1>3, <2>1 DEF ViewInv, BlankPages
  <1>11. \A t \in Slot : t # s => new.data[t] = Fixed(p).data[t]
    BY <1>3, <1>9
  <1> HIDE DEF page, new
  <1>12. /\ call'.op = "write" /\ call'.txn = id /\ call'.page = p /\ call'.slot = s
         /\ call'.before = Empty
    BY <1>1, <1>10
  <1>13. page_count' \in {page_count, page_count + 1} /\ s = Fixed(p).slots + 1
    BY <1>1, <1>5, <1>8
  <1> QED BY <1>1, <1>3, <1>6, <1>9, <1>10, <1>11, <1>12, <1>13

LEMMA InsertRowRecovery ==
    ASSUME TxnInv, ViewInv, NEW id \in TxnId, InsertRow(id)
    PROVE  ViewInv'
  <1>1. /\ call.op = "idle" /\ Started(id)
        /\ UNCHANGED <<log, disk, transaction_counter, transaction_table,
                       incarnation, outcome, rows>>
    BY IdleCall DEF InsertRow, ghosts
  <1>2. TypeOK
    BY DEF TxnInv
  <1>3. PICK p \in Page, s \in Slot, new \in PageContent :
              /\ p < page_count' /\ page_count' \in {page_count, page_count + 1}
              /\ s = Fixed(p).slots + 1 /\ Fixed(p).data[s] = Empty
              /\ new.slots = s /\ new.data[s] = incarnation[id]
              /\ \A t \in Slot : t # s => new.data[t] = Fixed(p).data[t]
              /\ buffer' = [buffer EXCEPT ![p] = new]
              /\ call'.op = "write" /\ call'.txn = id /\ call'.page = p
              /\ call'.slot = s /\ call'.before = Empty
    BY RowInserted
  <1>4. page_count \in Nat /\ Page \subseteq Nat /\ Slot \subseteq Nat
    BY <1>2, SystemAssumption, LogAssumption, FS_CardinalityType DEF TypeOK
  <1>5. Fixed(p)' = new /\ \A q \in Page : q # p => Fixed(q)' = Fixed(q)
    <2>1. buffer'[p] = new /\ \A q \in Page : q # p => buffer'[q] = buffer[q]
      BY <1>2, <1>3 DEF TypeOK
    <2>2. new # NotBuffered
      BY SystemAssumption
    <2> QED BY <1>1, <2>1, <2>2 DEF Fixed
  <1>6. \A q \in Page : Fixed(q).slots \in Nat /\ Fixed(q)'.slots \in Nat
                         /\ Fixed(q).slots <= Fixed(q)'.slots
    <2>1. \A q \in Page : Fixed(q).slots \in Nat
      <3> SUFFICES ASSUME NEW q \in Page PROVE Fixed(q).slots \in Nat
        OBVIOUS
      <3>1. Fixed(q) \in PageContent
        BY <1>2, FixedPage
      <3>2. Fixed(q).slots \in {0} \cup Slot
        BY <3>1 DEF PageContent
      <3>3. {0} \cup Slot \subseteq Nat
        BY <1>4
      <3> QED BY <3>2, <3>3
    <2> QED BY <1>3, <1>5, <2>1
  <1>7. ASSUME NEW q \in Page, NEW t \in Slot, <<q, t>> # <<p, s>>
         PROVE  Fixed(q)'.data[t] = Fixed(q).data[t]
    BY <1>3, <1>5, <1>7
  <1>8. \A q, t : Writes(q, t)' <=> <<q, t>> = <<p, s>>
    BY <1>3 DEF Writes
  <1>9. \A x \in Value : (Kept(x)' <=> Kept(x)) /\ (Shown(x)' <=> Kept(x))
                          /\ (Shown(x) <=> Kept(x))
    BY <1>1, <1>3 DEF Kept, Shown, Aborting
  <1>10. /\ StartedKnown' /\ UnusedEmpty' /\ BeginsLogged' /\ (Reused' <=> Reused)
         /\ ~Reused => OutcomesLogged' /\ OneInsert'
    BY <1>1, SameRecords
  <1>11. BlankPages'
    <2>1. ASSUME NEW q \in Page, q >= page_count'
          PROVE  disk[q] = BlankPage /\ Fixed(q)' = BlankPage
      <3>1. q >= page_count /\ q # p
        BY <1>1, <1>3, <1>4, <2>1
      <3> QED BY <1>5, <3>1 DEF ViewInv, BlankPages
    <2>2. ASSUME NEW q \in Page, NEW t \in Slot, t > Fixed(q)'.slots
          PROVE  Fixed(q)'.data[t] = Empty
      <3>1. t > Fixed(q).slots /\ <<q, t>> # <<p, s>>
        BY <1>3, <1>4, <1>5, <1>6, <2>2
      <3> QED BY <1>7, <3>1 DEF ViewInv, BlankPages
    <2> QED BY <1>1, <2>1, <2>2 DEF ViewInv, BlankPages
  <1>12. InsertsLogged'
    <2>1. ASSUME NEW i \in DOMAIN log, log[i].type = "UPDATE"
          PROVE  log[i].page < page_count' /\ log[i].before = Empty
      <3>1. log[i].page < page_count /\ log[i].before = Empty /\ log[i].page \in Page
        BY <1>2, <2>1, LogFacts DEF ViewInv, InsertsLogged
      <3>2. page_count' \in {page_count, page_count + 1}
        BY <1>3
      <3>3. \A q \in Nat : q < page_count => q < page_count'
        BY <1>4, <3>2
      <3> QED BY <1>4, <3>1, <3>3
    <2>2. s <= Fixed(p)'.slots /\ Fixed(p)'.data[s] = incarnation[id]
      BY <1>3, <1>4, <1>5
    <2>3. \A q : q = p => Fixed(q)' = Fixed(p)'
      OBVIOUS
    <2> QED BY <1>1, <1>3, <2>1, <2>2, <2>3 DEF InsertsLogged
  <1>13. NoStray'
    <2> SUFFICES ASSUME NEW q \in Page, NEW t \in Slot, NEW x \in Value, Fixed(q)'.data[t] = x
                 PROVE  \/ <<q, t>> \in rows[x] /\ Shown(x)'
                        \/ Writes(q, t)' /\ x = incarnation[id]
      BY <1>1, <1>3 DEF NoStray
    <2>1. CASE <<q, t>> = <<p, s>>
      <3>1. x = incarnation[id]
        BY <1>3, <1>5, <2>1
      <3> QED BY <1>8, <2>1, <3>1
    <2>2. CASE <<q, t>> # <<p, s>>
      BY <1>1, <1>7, <1>9, <2>2 DEF ViewInv, NoStray, Writes
    <2> QED BY <2>1, <2>2
  <1>14. AllThere'
    <2> SUFFICES ASSUME NEW x \in Value, NEW q \in Page, NEW t \in Slot, <<q, t>> \in rows[x],
                        Kept(x)
                 PROVE  Fixed(q)'.data[t] = x /\ t <= Fixed(q)'.slots
      BY <1>1, <1>9 DEF ViewInv, AllThere
    <2>1. Fixed(q).data[t] = x /\ t <= Fixed(q).slots
      BY DEF ViewInv, AllThere
    <2>2. <<q, t>> # <<p, s>>
      BY <1>3, <2>1, EmptyIsNoValue
    <2> QED BY <1>4, <1>6, <1>7, <2>1, <2>2
  <1>15. FlushesPending' /\ RecoveringOnce' /\ LosersCrashed'
    BY <1>3 DEF FlushesPending, RecoveringOnce, Recovering, LosersCrashed
  <1>16. ASSUME ~Reused PROVE RowsApart' /\ DiskShown'
    <2>1. Uncrashed /\ RowsApart
      BY <1>1, <1>16 DEF ViewInv, OnceInv, OneInsert
    <2>2. ASSUME NEW x \in Value, NEW q \in Page, NEW t \in Slot, <<q, t>> \in rows[x]
          PROVE  t <= Fixed(q).slots
      BY <2>1, <2>2 DEF RowsApart
    <2>3. ASSUME NEW x \in Value, NEW q \in Page, NEW t \in Slot, <<q, t>> \in rows[x]
          PROVE  t <= Fixed(q)'.slots /\ ~Writes(q, t)'
      <3>1. t <= Fixed(q).slots
        BY <2>2, <2>3
      <3>2. <<q, t>> # <<p, s>>
        <4>1. ~(s <= Fixed(p).slots)
          BY <1>3, <1>6
        <4> QED BY <3>1, <4>1
      <3> QED BY <1>4, <1>6, <1>8, <3>1, <3>2
    <2>4. RowsApart'
      BY <1>1, <2>1, <2>3 DEF RowsApart
    <2>5. DiskShown'
      BY <1>1, <1>16 DEF ViewInv, OnceInv, DiskShown
    <2> QED BY <2>4, <2>5
  <1> QED BY <1>10, <1>11, <1>12, <1>13, <1>14, <1>15, <1>16 DEF ViewInv, OnceInv

\* The transaction a call works for.
LEMMA CallOfActive ==
    ASSUME TxnInv, ViewInv, call.op \in {"write", "commit", "abort"}
    PROVE  /\ call.txn \in TxnId /\ Started(call.txn)
           /\ incarnation[call.txn] \in Value /\ outcome[incarnation[call.txn]] = "active"
           /\ Offsets("BEGIN", call.txn) # {}
           /\ \A id \in TxnId : Started(id) /\ id # call.txn =>
                 incarnation[id] # incarnation[call.txn]
           /\ ~Reused => incarnation[call.txn] = call.txn /\ Uncrashed
  <1>1. call.txn \in TxnId /\ Started(call.txn) /\ incarnation[call.txn] \in Value
    BY DEF TxnInv, CallOfStarted
  <1> QED BY <1>1 DEF ViewInv, StartedKnown, OnceInv, OneInsert

\* A record that is no update leaves the images as they are.
LEMMA OwnImagesStay ==
    ASSUME TypeOK, OwnImages, DOMAIN log' = DOMAIN log \cup {Len(log) + 1},
           \A i \in DOMAIN log : log'[i] = log[i], log'[Len(log) + 1].type # "UPDATE",
           \A x \in Value : outcome[x] = "crashed" => outcome'[x] = "crashed"
    PROVE  OwnImages'
  <1>1. \A i \in DOMAIN log : log[i].type = "UPDATE" => log[i].txn \in Value
    BY LogFacts, SystemAssumption
  <1> QED BY <1>1 DEF OwnImages

LEMMA LogUpdateRecovery == ASSUME TxnInv, ViewInv, LogUpdate PROVE ViewInv'
  <1> DEFINE v == incarnation[call.txn]
             r == [type |-> "UPDATE", txn |-> call.txn, page |-> call.page,
                   slot |-> call.slot, before |-> call.before, after |-> v]
  <1>1. /\ call.op = "write" /\ log' = Append(log, r)
        /\ transaction_table' = [transaction_table EXCEPT
                                   ![call.txn].modified = @ \cup {call.page}]
        /\ rows' = [rows EXCEPT ![v] = @ \cup {<<call.page, call.slot>>}]
        /\ call'.op = "idle"
        /\ UNCHANGED <<disk, buffer, page_count, transaction_counter, incarnation, outcome>>
    BY IdleCall DEF LogUpdate, LogUpdateOf, WriteLogRecord
  <1>2. PICK id \in TxnId, p \in Page, s \in Slot, x \in Value :
             /\ id = call.txn /\ p = call.page /\ s = call.slot /\ x = v
             /\ Started(id) /\ outcome[x] = "active" /\ Offsets("BEGIN", id) # {}
             /\ \A other \in TxnId : Started(other) /\ other # id => incarnation[other] # x
             /\ incarnation[id] = x
             /\ ~Reused => x = id /\ Uncrashed
    BY <1>1, CallOfActive, CallShape DEF TxnInv
  <1>3. TypeOK /\ call.before = Empty /\ p < page_count
        /\ Fixed(p).data[s] = x /\ s <= Fixed(p).slots
    BY <1>1, <1>2 DEF TxnInv, ViewInv, InsertsLogged
  <1>4. PICK rec \in LogRecord :
             /\ rec.type = "UPDATE" /\ rec.txn = id /\ rec.page = p /\ rec.slot = s
             /\ rec.before = Empty /\ rec.after = x /\ log' = Append(log, rec)
    <2>1. r \in LogRecord
      BY <1>2, <1>3 DEF LogRecord, Image
    <2> QED BY <1>1, <1>2, <1>3, <2>1
  <1> HIDE DEF v, r
  <1>5. /\ DOMAIN log' = DOMAIN log \cup {Len(log) + 1} /\ Len(log) + 1 \notin DOMAIN log
        /\ \A i \in DOMAIN log : log'[i] = log[i]
        /\ log'[Len(log) + 1] = rec /\ log' \in Seq(LogRecord)
    BY <1>3, <1>4, LogGrows
  <1>6. /\ \A type, i : type # "UPDATE" => Offsets(type, i)' = Offsets(type, i)
        /\ Reused' <=> Reused
    <2>1. \A type, i : Offsets(type, i)' =
                 Offsets(type, i) \cup {k \in {Len(log) + 1} : rec.type = type /\ rec.txn = i}
      BY <1>3, <1>4, LogLonger
    <2>2. \A type, i : type # "UPDATE" => Offsets(type, i)' = Offsets(type, i)
      BY <1>4, <2>1
    <2>3. Reused' <=> Reused
      BY <1>3, <1>4, <1>5, ReusedStays
    <2> QED BY <2>2, <2>3
  <1>7. /\ rows'[x] = rows[x] \cup {<<p, s>>}
        /\ \A y \in Value : y # x => rows'[y] = rows[y]
    BY <1>1, <1>2, <1>3 DEF TypeOK
  <1>8. /\ transaction_table'[id].modified = transaction_table[id].modified \cup {p}
        /\ \A i \in TxnId : i # id => transaction_table'[i] = transaction_table[i]
        /\ \A i \in TxnId : Started(i)' <=> Started(i)
    BY <1>1, <1>2, <1>3 DEF TypeOK, Started
  <1>9. /\ \A q \in Page : Fixed(q)' = Fixed(q)
        /\ \A y \in Value : (Kept(y)' <=> Kept(y)) /\ (Shown(y)' <=> Kept(y))
                            /\ (Shown(y) <=> Kept(y))
        /\ \A q, t : (Writes(q, t) <=> q = p /\ t = s) /\ ~Writes(q, t)'
    BY <1>1, <1>2, SamePages DEF Kept, Shown, Aborting, Writes
  <1>10. BlankPages'
    BY <1>1, <1>9 DEF ViewInv, BlankPages
  <1>11. InsertsLogged'
    BY <1>1, <1>3, <1>4, <1>5 DEF ViewInv, InsertsLogged
  <1>12. NoStray'
    <2> SUFFICES ASSUME NEW q \in Page, NEW t \in Slot, NEW y \in Value, Fixed(q).data[t] = y
                 PROVE  <<q, t>> \in rows'[y] /\ Shown(y)'
      BY <1>9 DEF NoStray
    <2>1. CASE q = p /\ t = s
      BY <1>1, <1>2, <1>3, <1>7, <1>9, <2>1 DEF Kept, Aborting
    <2>2. CASE ~(q = p /\ t = s)
      BY <1>7, <1>9, <2>2 DEF ViewInv, NoStray
    <2> QED BY <2>1, <2>2
  <1>13. AllThere'
    <2> SUFFICES ASSUME NEW y \in Value, NEW q \in Page, NEW t \in Slot, <<q, t>> \in rows'[y]
                 PROVE  /\ Kept(y) => Fixed(q).data[t] = y /\ t <= Fixed(q).slots
                        /\ outcome[y] = "committed" =>
                              disk[q].data[t] = y /\ t <= disk[q].slots
      BY <1>1, <1>9 DEF AllThere
    <2>1. CASE <<q, t>> \in rows[y]
      BY <2>1 DEF ViewInv, AllThere
    <2>2. CASE <<q, t>> \notin rows[y]
      BY <1>2, <1>3, <1>7, <2>2
    <2> QED BY <2>1, <2>2
  <1>14. FlushesPending' /\ RecoveringOnce' /\ LosersCrashed'
    BY <1>1 DEF FlushesPending, RecoveringOnce, Recovering, LosersCrashed
  <1>15. StartedKnown'
    <2> SUFFICES ASSUME NEW i \in TxnId, Started(i), NEW q \in Page, NEW t \in Slot
                 PROVE  /\ RollbackUpdates(i, q, t)' # {} <=> <<q, t>> \in rows'[incarnation[i]]
                        /\ <<q, t>> \in rows'[incarnation[i]] =>
                              q \in transaction_table'[i].modified
      BY <1>1, <1>6, <1>8 DEF ViewInv, StartedKnown
    <2>1. /\ RollbackUpdates(i, q, t) # {} <=> <<q, t>> \in rows[incarnation[i]]
          /\ <<q, t>> \in rows[incarnation[i]] => q \in transaction_table[i].modified
      BY DEF ViewInv, StartedKnown
    <2>2. CASE i = id /\ q = p /\ t = s
      <3>1. RollbackUpdates(i, q, t)' # {}
        BY <1>2, <1>3, <1>4, <2>2, RollbackLonger
      <3> QED BY <1>2, <1>7, <1>8, <2>2, <3>1
    <2>3. CASE ~(i = id /\ q = p /\ t = s)
      <3>1. RollbackUpdates(i, q, t)' = RollbackUpdates(i, q, t)
        BY <1>3, <1>4, <2>3, RollbackLonger
      <3>2. incarnation[i] \in Value /\ (i # id => incarnation[i] # x)
        BY <1>2 DEF TxnInv, CallOfStarted
      <3>3. <<q, t>> \in rows'[incarnation[i]] <=> <<q, t>> \in rows[incarnation[i]]
        BY <1>2, <1>7, <2>3, <3>2
      <3> QED BY <1>8, <2>1, <3>1, <3>3
    <2> QED BY <2>2, <2>3
  <1>16. UnusedEmpty' /\ BeginsLogged'
    <2>1. UnusedEmpty'
      BY <1>1, <1>2, <1>7 DEF ViewInv, UnusedEmpty
    <2>2. BeginsLogged'
      <3> SUFFICES ASSUME NEW i \in DOMAIN log', log'[i].type \in {"UPDATE", "COMMIT", "ABORT"},
                          NEW t, t = log'[i].txn
                   PROVE  Offsets("BEGIN", t)' # {}
        BY DEF BeginsLogged
      <3>1. Offsets("BEGIN", t) # {}
        BY <1>2, <1>4, <1>5 DEF ViewInv, BeginsLogged
      <3> QED BY <1>6, <3>1
    <2> QED BY <2>1, <2>2
  <1>17. ASSUME ~Reused PROVE OutcomesLogged' /\ OneInsert' /\ RowsApart' /\ DiskShown'
    <2>1. OnceInv /\ x = id /\ Uncrashed /\ (Uncrashed' <=> Uncrashed)
      BY <1>1, <1>2, <1>17 DEF ViewInv, Uncrashed
    <2>2. OutcomesLogged'
      BY <1>1, <1>6, <2>1 DEF OnceInv, OutcomesLogged
    <2>3. OneInsert'
      <3>1. \A i \in TxnId : Started(i)' => incarnation'[i] = i /\ Uncrashed'
        BY <1>1, <1>8, <2>1 DEF OnceInv, OneInsert
      <3>2. OwnImages'
        BY <1>1, <1>4, <1>5, <2>1 DEF OnceInv, OneInsert, OwnImages
      <3>3. ASSUME NEW i \in DOMAIN log', NEW j \in DOMAIN log', log'[j].type = "BEGIN",
                   log'[i].type \in {"UPDATE", "COMMIT", "ABORT"}, log'[i].txn = log'[j].txn
            PROVE  j < i
        <4>1. j \in DOMAIN log /\ log[j].type = "BEGIN" /\ log'[j] = log[j]
          BY <1>4, <1>5, <3>3
        <4>2. CASE i \in DOMAIN log
          BY <1>5, <2>1, <3>3, <4>1, <4>2 DEF OnceInv, OneInsert
        <4>3. CASE i = Len(log) + 1
          BY <1>3, <4>1, <4>3, LogFacts
        <4> QED BY <1>5, <4>2, <4>3
      <3>4. ASSUME NEW y \in Value, NEW q \in Page, NEW t \in Slot
            PROVE  <<q, t>> \in rows'[y] <=> UpdatesOf({y}, q, t)' # {}
        <4>1. UpdatesOf({y}, q, t)' = UpdatesOf({y}, q, t)
                 \cup {i \in {Len(log) + 1} : /\ rec.type = "UPDATE" /\ rec.txn \in {y}
                                              /\ rec.page = q /\ rec.slot = t}
          BY <1>3, <1>4, LogLonger
        <4>2. <<q, t>> \in rows[y] <=> UpdatesOf({y}, q, t) # {}
          BY <2>1 DEF OnceInv, OneInsert
        <4>3. CASE y = x /\ q = p /\ t = s
          BY <1>4, <1>7, <2>1, <4>1, <4>3
        <4>4. CASE ~(y = x /\ q = p /\ t = s)
          <5>1. UpdatesOf({y}, q, t)' = UpdatesOf({y}, q, t)
            BY <1>4, <2>1, <4>1, <4>4
          <5> QED BY <1>7, <4>2, <4>4, <5>1
        <4> QED BY <4>3, <4>4
      <3> QED BY <3>1, <3>2, <3>3, <3>4 DEF OneInsert
    <2>4. RowsApart'
      <3> SUFFICES ASSUME NEW y \in Value, NEW q \in Page, NEW t \in Slot, <<q, t>> \in rows'[y]
                   PROVE  /\ \A z \in Value : <<q, t>> \in rows'[z] => y = z
                          /\ t <= Fixed(q).slots
        BY <1>9 DEF RowsApart
      <3>1. CASE q = p /\ t = s
        <4>1. \A z \in Value : <<q, t>> \notin rows[z]
          BY <1>9, <2>1, <3>1 DEF OnceInv, RowsApart
        <4> QED BY <1>3, <1>7, <3>1, <4>1
      <3>2. CASE ~(q = p /\ t = s)
        BY <1>7, <2>1, <3>2 DEF OnceInv, RowsApart
      <3> QED BY <3>1, <3>2
    <2>5. DiskShown'
      BY <1>1, <1>7, <2>1 DEF OnceInv, DiskShown
    <2> QED BY <2>2, <2>3, <2>4, <2>5
  <1> QED BY <1>6, <1>10, <1>11, <1>12, <1>13, <1>14, <1>15, <1>16, <1>17 DEF ViewInv, OnceInv

\* The end of a commit and of an abort.
LEMMA EndsRecovery == ASSUME TxnInv, ViewInv, LogCommit \/ LogAbort PROVE ViewInv'
  <1>1. PICK type \in {"COMMIT", "ABORT"}, result \in {"committed", "aborted"} :
             /\ call.todo = {} /\ Ends(call.txn, type, result)
             /\ \/ call.op = "commit" /\ type = "COMMIT" /\ result = "committed"
                \/ call.op = "abort" /\ type = "ABORT" /\ result = "aborted"
    BY DEF LogCommit, LogAbort
  <1>2. PICK id \in TxnId, x \in Value :
             /\ id = call.txn /\ incarnation[id] = x
             /\ Started(id) /\ outcome[x] = "active" /\ Offsets("BEGIN", id) # {}
             /\ \A other \in TxnId : Started(other) /\ other # id => incarnation[other] # x
             /\ ~Reused => x = id /\ Uncrashed
    BY <1>1, CallOfActive
  <1>3. TypeOK
    BY DEF TxnInv
  <1>4. /\ transaction_table' = [transaction_table EXCEPT ![id].started = FALSE]
        /\ outcome' = [outcome EXCEPT ![x] = result]
        /\ call'.op = "idle"
        /\ UNCHANGED <<disk, buffer, page_count, transaction_counter, incarnation, rows>>
    BY <1>1, <1>2, IdleCall DEF Ends
  <1>5. PICK rec \in LogRecord :
             rec.type = type /\ rec.txn = id /\ log' = Append(log, rec)
    <2> DEFINE r == [type |-> type, txn |-> id]
    <2>1. r \in LogRecord /\ r.type = type /\ r.txn = id
      BY DEF LogRecord
    <2>2. log' = Append(log, r)
      BY <1>1, <1>2 DEF Ends, LogOf, WriteLogRecord
    <2> QED BY <2>1, <2>2
  <1>6. /\ DOMAIN log' = DOMAIN log \cup {Len(log) + 1} /\ Len(log) + 1 \notin DOMAIN log
        /\ \A i \in DOMAIN log : log'[i] = log[i]
        /\ log'[Len(log) + 1] = rec /\ log' \in Seq(LogRecord)
    BY <1>3, <1>5, LogGrows
  <1>7. /\ \A t, i : Offsets(t, i)' = Offsets(t, i)
                        \cup {k \in {Len(log) + 1} : rec.type = t /\ rec.txn = i}
        /\ \A ids, p, s : UpdatesOf(ids, p, s)' = UpdatesOf(ids, p, s)
        /\ Reused' <=> Reused
    <2>1. Reused' <=> Reused
      BY <1>1, <1>3, <1>5, <1>6, ReusedStays
    <2>2. \A ids, p, s : UpdatesOf(ids, p, s)' = UpdatesOf(ids, p, s)
                \cup {i \in {Len(log) + 1} : /\ rec.type = "UPDATE" /\ rec.txn \in ids
                                             /\ rec.page = p /\ rec.slot = s}
      BY <1>3, <1>5, LogLonger
    <2>3. rec.type # "UPDATE"
      BY <1>1, <1>5
    <2>4. \A ids, p, s : UpdatesOf(ids, p, s)' = UpdatesOf(ids, p, s)
      BY <2>2, <2>3
    <2> QED BY <1>3, <1>5, <2>1, <2>4, LogLonger
  <1>8. /\ outcome'[x] = result
        /\ \A y \in Value : y # x => outcome'[y] = outcome[y]
    BY <1>3, <1>4 DEF TypeOK
  <1>9. /\ \A i \in TxnId : transaction_table'[i].modified = transaction_table[i].modified
        /\ \A i \in TxnId : Started(i)' <=> Started(i) /\ i # id
    BY <1>3, <1>4 DEF TypeOK, Started
  <1>10. /\ \A p \in Page : Fixed(p)' = Fixed(p)
         /\ \A y \in Value : Shown(y) <=> Kept(y)
         /\ \A p, s : ~Writes(p, s) /\ ~Writes(p, s)'
    BY <1>1, <1>4, SamePages DEF Shown, Writes
  <1>11. \A y \in Value : /\ Kept(y) => Kept(y)' /\ Shown(y)'
                          /\ Kept(y)' /\ outcome'[y] # "committed" => Kept(y)
                          /\ y # x => (Kept(y)' => Kept(y))
                          /\ y = x /\ Kept(y)' => call.op = "commit"
    BY <1>1, <1>2, <1>4, <1>8 DEF Kept, Shown, Aborting
  <1>12. BlankPages'
    BY <1>4, <1>10 DEF ViewInv, BlankPages
  <1>13. InsertsLogged'
    BY <1>1, <1>4, <1>5, <1>6 DEF ViewInv, InsertsLogged
  <1>14. NoStray'
    BY <1>4, <1>10, <1>11 DEF ViewInv, NoStray
  <1>15. ASSUME call.op = "commit", NEW p \in Page, NEW s \in Slot, <<p, s>> \in rows[x]
         PROVE  disk[p] = Fixed(p)
    <2>1. p \in transaction_table[id].modified
      BY <1>2, <1>15 DEF ViewInv, StartedKnown
    <2> QED BY <1>1, <1>2, <1>15, <2>1 DEF ViewInv, FlushesPending
  <1>16. AllThere'
    <2> SUFFICES ASSUME NEW y \in Value, NEW p \in Page, NEW s \in Slot, <<p, s>> \in rows[y]
                 PROVE  /\ Kept(y)' => Fixed(p).data[s] = y /\ s <= Fixed(p).slots
                        /\ outcome'[y] = "committed" =>
                              disk[p].data[s] = y /\ s <= disk[p].slots
      BY <1>4, <1>10 DEF AllThere
    <2>1. CASE y # x
      BY <1>8, <1>11, <2>1 DEF ViewInv, AllThere
    <2>2. CASE y = x /\ call.op = "commit"
      <3>1. Kept(x)
        BY <1>2, <2>2 DEF Kept, Aborting
      <3>2. Fixed(p).data[s] = x /\ s <= Fixed(p).slots
        BY <2>2, <3>1 DEF ViewInv, AllThere
      <3> QED BY <1>15, <2>2, <3>2
    <2>3. CASE y = x /\ call.op = "abort"
      BY <1>1, <1>8, <1>11, <2>3
    <2> QED BY <1>1, <2>1, <2>2, <2>3
  <1>17. FlushesPending' /\ RecoveringOnce' /\ LosersCrashed'
    BY <1>4 DEF FlushesPending, RecoveringOnce, Recovering, LosersCrashed
  <1>18. StartedKnown'
    <2>1. ASSUME NEW i \in TxnId, Started(i)'
          PROVE  /\ outcome'[incarnation[i]] = "active"
                 /\ Offsets("BEGIN", i)' # {}
                 /\ \A p \in Page : \A s \in Slot :
                       /\ RollbackUpdates(i, p, s)' # {} <=> <<p, s>> \in rows[incarnation[i]]
                       /\ <<p, s>> \in rows[incarnation[i]] =>
                             p \in transaction_table'[i].modified
      <3>1. Started(i) /\ incarnation[i] # x /\ incarnation[i] \in Value
        BY <1>2, <1>9, <2>1 DEF TxnInv, CallOfStarted
      <3>2. \A p \in Page : \A s \in Slot : RollbackUpdates(i, p, s)' = RollbackUpdates(i, p, s)
        BY <1>1, <1>3, <1>5, RollbackLonger
      <3> QED BY <1>7, <1>8, <1>9, <3>1, <3>2 DEF ViewInv, StartedKnown
    <2>2. ASSUME NEW i \in TxnId, NEW j \in TxnId, Started(i)', Started(j)',
                 incarnation[i] = incarnation[j]
          PROVE  i = j
      BY <1>9, <2>2 DEF ViewInv, StartedKnown
    <2> QED BY <1>4, <2>1, <2>2 DEF StartedKnown
  <1>19. UnusedEmpty' /\ BeginsLogged'
    <2>1. UnusedEmpty'
      BY <1>1, <1>4, <1>8 DEF ViewInv, UnusedEmpty
    <2>2. BeginsLogged'
      <3> SUFFICES ASSUME NEW i \in DOMAIN log', log'[i].type \in {"UPDATE", "COMMIT", "ABORT"},
                          NEW t, t = log'[i].txn
                   PROVE  Offsets("BEGIN", t)' # {}
        BY DEF BeginsLogged
      <3>1. Offsets("BEGIN", t) # {}
        BY <1>2, <1>5, <1>6 DEF ViewInv, BeginsLogged
      <3> QED BY <1>7, <3>1
    <2> QED BY <2>1, <2>2
  <1>20. ASSUME ~Reused PROVE OutcomesLogged' /\ OneInsert' /\ RowsApart' /\ DiskShown'
    <2>1. OnceInv /\ x = id /\ Uncrashed
      BY <1>2, <1>20 DEF ViewInv
    <2>2. Uncrashed' <=> Uncrashed
      BY <1>1, <1>2, <1>4, <1>8 DEF Uncrashed
    <2>3. OutcomesLogged'
      <3> SUFFICES ASSUME NEW y \in Value
                   PROVE  /\ Offsets("BEGIN", y)' # {} <=> outcome'[y] # "unused"
                          /\ Offsets("COMMIT", y)' # {} <=> outcome'[y] = "committed"
                          /\ Offsets("ABORT", y)' # {} <=> outcome'[y] = "aborted"
        BY DEF OutcomesLogged
      <3>1. /\ Offsets("BEGIN", y) # {} <=> outcome[y] # "unused"
            /\ Offsets("COMMIT", y) # {} <=> outcome[y] = "committed"
            /\ Offsets("ABORT", y) # {} <=> outcome[y] = "aborted"
        BY <2>1 DEF OnceInv, OutcomesLogged
      <3>2. \A t : Offsets(t, y)' # {} <=> Offsets(t, y) # {} \/ (t = type /\ y = id)
        BY <1>5, <1>7
      <3>3. CASE y = x
        BY <1>1, <1>2, <1>8, <2>1, <3>1, <3>2, <3>3
      <3>4. CASE y # x
        BY <1>8, <2>1, <3>1, <3>2, <3>4
      <3> QED BY <3>3, <3>4
    <2>4. OneInsert'
      <3>1. \A i \in TxnId : Started(i)' => incarnation'[i] = i /\ Uncrashed'
        BY <1>4, <1>9, <2>1, <2>2 DEF OnceInv, OneInsert
      <3>2. OwnImages'
        <4>1. log'[Len(log) + 1].type # "UPDATE"
          BY <1>1, <1>5, <1>6
        <4>2. \A y \in Value : outcome[y] = "crashed" => outcome'[y] = "crashed"
          BY <1>2, <1>8
        <4> QED BY <1>3, <1>6, <2>1, <4>1, <4>2, OwnImagesStay DEF OnceInv, OneInsert
      <3>3. ASSUME NEW i \in DOMAIN log', NEW j \in DOMAIN log', log'[j].type = "BEGIN",
                   log'[i].type \in {"UPDATE", "COMMIT", "ABORT"}, log'[i].txn = log'[j].txn
            PROVE  j < i
        <4>1. j \in DOMAIN log /\ log[j].type = "BEGIN" /\ log'[j] = log[j]
          BY <1>1, <1>5, <1>6, <3>3
        <4>2. CASE i \in DOMAIN log
          BY <1>6, <2>1, <3>3, <4>1, <4>2 DEF OnceInv, OneInsert
        <4>3. CASE i = Len(log) + 1
          BY <1>3, <4>1, <4>3, LogFacts
        <4> QED BY <1>6, <4>2, <4>3
      <3>4. \A y \in Value : \A p \in Page : \A s \in Slot :
               <<p, s>> \in rows'[y] <=> UpdatesOf({y}, p, s)' # {}
        BY <1>4, <1>7, <2>1 DEF OnceInv, OneInsert
      <3> QED BY <3>1, <3>2, <3>3, <3>4 DEF OneInsert
    <2>5. RowsApart'
      BY <1>4, <1>10, <2>1, <2>2 DEF OnceInv, RowsApart
    <2>6. DiskShown'
      <3> SUFFICES ASSUME NEW p \in Page, NEW s \in Slot, NEW y \in Value, disk[p].data[s] = y
                   PROVE  /\ <<p, s>> \in rows[y]
                          /\ outcome'[y] \in {"committed", "active", "crashed"}
        BY <1>4 DEF DiskShown
      <3>1. <<p, s>> \in rows[y] /\ outcome[y] \in {"committed", "active", "crashed"}
        BY <2>1 DEF OnceInv, DiskShown
      <3>2. CASE y # x
        BY <1>8, <3>1, <3>2
      <3>3. CASE y = x /\ call.op = "commit"
        BY <1>1, <1>8, <3>1, <3>3
      <3>4. CASE y = x /\ call.op = "abort"
        <4>1. disk[p] = Fixed(p)
          BY <1>1, <3>4 DEF ViewInv, FlushesPending
        <4>2. Kept(x)
          BY <1>10, <3>4, <4>1 DEF ViewInv, NoStray
        <4> QED BY <1>2, <3>4, <4>2 DEF Kept, Aborting
      <3> QED BY <1>1, <3>2, <3>3, <3>4
    <2> QED BY <2>3, <2>4, <2>5, <2>6
  <1> QED BY <1>7, <1>12, <1>13, <1>14, <1>16, <1>17, <1>18, <1>19, <1>20 DEF ViewInv, OnceInv

LEMMA CheckpointRecovery == ASSUME TxnInv, ViewInv, CheckpointEnds PROVE ViewInv'
  <1>1. /\ call.op = "checkpoint" /\ call'.op = "idle"
        /\ UNCHANGED <<disk, buffer, page_count, transaction_counter, transaction_table,
                       incarnation, outcome, rows>>
    BY IdleCall DEF CheckpointEnds, memory, ghosts
  <1>2. TypeOK
    BY DEF TxnInv
  <1>3. PICK rec \in LogRecord : rec.type = "CHECKPOINT" /\ log' = Append(log, rec)
    <2> DEFINE r == [type |-> "CHECKPOINT", txn |-> 0]
    <2>1. r \in LogRecord /\ r.type = "CHECKPOINT"
      BY DEF LogRecord
    <2> QED BY <2>1 DEF CheckpointEnds, LogOf, WriteLogRecord
  <1>4. /\ DOMAIN log' = DOMAIN log \cup {Len(log) + 1} /\ Len(log) + 1 \notin DOMAIN log
        /\ \A i \in DOMAIN log : log'[i] = log[i]
        /\ log'[Len(log) + 1] = rec /\ log' \in Seq(LogRecord)
    BY <1>2, <1>3, LogGrows
  <1>5. /\ \A t, i : t # "CHECKPOINT" => Offsets(t, i)' = Offsets(t, i)
        /\ \A ids, p, s : UpdatesOf(ids, p, s)' = UpdatesOf(ids, p, s)
        /\ Reused' <=> Reused
    <2>1. Reused' <=> Reused
      BY <1>2, <1>3, <1>4, ReusedStays
    <2>2. \A t, i : Offsets(t, i)' = Offsets(t, i)
                        \cup {k \in {Len(log) + 1} : rec.type = t /\ rec.txn = i}
      BY <1>2, <1>3, LogLonger
    <2>3. \A ids, p, s : UpdatesOf(ids, p, s)' = UpdatesOf(ids, p, s)
                \cup {i \in {Len(log) + 1} : /\ rec.type = "UPDATE" /\ rec.txn \in ids
                                             /\ rec.page = p /\ rec.slot = s}
      BY <1>2, <1>3, LogLonger
    <2>4. \A t, i : t # "CHECKPOINT" => Offsets(t, i)' = Offsets(t, i)
      BY <1>3, <2>2
    <2>5. \A ids, p, s : UpdatesOf(ids, p, s)' = UpdatesOf(ids, p, s)
      BY <1>3, <2>3
    <2> QED BY <2>1, <2>4, <2>5
  <1>6. /\ \A p \in Page : Fixed(p)' = Fixed(p)
        /\ \A y \in Value : (Kept(y)' <=> Kept(y)) /\ (Shown(y)' <=> Shown(y))
        /\ \A p, s : ~Writes(p, s) /\ ~Writes(p, s)'
        /\ \A i \in TxnId : Started(i)' <=> Started(i)
        /\ Uncrashed' <=> Uncrashed
    BY <1>1, SamePages DEF Kept, Shown, Aborting, Writes, Started, Uncrashed
  <1>7. BlankPages' /\ InsertsLogged' /\ NoStray' /\ AllThere'
    <2>1. BlankPages'
      BY <1>1, <1>6 DEF ViewInv, BlankPages
    <2>2. InsertsLogged'
      BY <1>1, <1>3, <1>4 DEF ViewInv, InsertsLogged
    <2>3. NoStray'
      BY <1>1, <1>6 DEF ViewInv, NoStray
    <2>4. AllThere'
      BY <1>1, <1>6 DEF ViewInv, AllThere
    <2> QED BY <2>1, <2>2, <2>3, <2>4
  <1>8. FlushesPending' /\ RecoveringOnce' /\ LosersCrashed'
    BY <1>1 DEF FlushesPending, RecoveringOnce, Recovering, LosersCrashed
  <1>9. StartedKnown'
    <2>1. \A id \in TxnId : \A p \in Page : \A s \in Slot :
             RollbackUpdates(id, p, s)' = RollbackUpdates(id, p, s)
      BY <1>2, <1>3, RollbackLonger
    <2> QED BY <1>1, <1>5, <1>6, <2>1 DEF ViewInv, StartedKnown
  <1>10. UnusedEmpty'
    BY <1>1 DEF ViewInv, UnusedEmpty
  <1>11. BeginsLogged'
    <2> SUFFICES ASSUME NEW i \in DOMAIN log', log'[i].type \in {"UPDATE", "COMMIT", "ABORT"},
                        NEW t, t = log'[i].txn
                 PROVE  Offsets("BEGIN", t)' # {}
      BY DEF BeginsLogged
    <2>1. Offsets("BEGIN", t) # {}
      BY <1>3, <1>4 DEF ViewInv, BeginsLogged
    <2> QED BY <1>5, <2>1
  <1>12. ASSUME ~Reused PROVE OutcomesLogged' /\ OneInsert' /\ RowsApart' /\ DiskShown'
    <2>1. OnceInv
      BY <1>12 DEF ViewInv
    <2>2. OutcomesLogged'
      BY <1>1, <1>5, <2>1 DEF OnceInv, OutcomesLogged
    <2>3. OneInsert'
      <3>1. \A i \in TxnId : Started(i)' => incarnation'[i] = i /\ Uncrashed'
        BY <1>1, <1>6, <2>1 DEF OnceInv, OneInsert
      <3>2. OwnImages'
        BY <1>1, <1>3, <1>4, <2>1 DEF OnceInv, OneInsert, OwnImages
      <3>3. \A i, j \in DOMAIN log' :
               /\ log'[i].type \in {"UPDATE", "COMMIT", "ABORT"} /\ log'[j].type = "BEGIN"
               /\ log'[i].txn = log'[j].txn
               => j < i
        BY <1>3, <1>4, <2>1 DEF OnceInv, OneInsert
      <3>4. \A y \in Value : \A p \in Page : \A s \in Slot :
               <<p, s>> \in rows'[y] <=> UpdatesOf({y}, p, s)' # {}
        BY <1>1, <1>5, <2>1 DEF OnceInv, OneInsert
      <3> QED BY <3>1, <3>2, <3>3, <3>4 DEF OneInsert
    <2>4. RowsApart' /\ DiskShown'
      BY <1>1, <1>6, <2>1 DEF OnceInv, RowsApart, DiskShown
    <2> QED BY <2>2, <2>3, <2>4
  <1> QED BY <1>5, <1>7, <1>8, <1>9, <1>10, <1>11, <1>12 DEF ViewInv, OnceInv

\* While an id is given out for the first time, it is the number of the transaction.
LEMMA StartTxnRecovery == ASSUME TxnInv, TypeOK', ViewInv, StartTxn PROVE ViewInv'
  <1>1. PICK id, x : /\ id = transaction_counter + 1
                     /\ x = Min({y \in Value : outcome[y] = "unused"})
    OBVIOUS
  <1>2. /\ call.op = "idle" /\ {y \in Value : outcome[y] = "unused"} # {}
        /\ transaction_counter' = id
        /\ transaction_table' = [transaction_table EXCEPT
                                   ![id] = [started |-> TRUE, modified |-> {}]]
        /\ log' = Append(log, [type |-> "BEGIN", txn |-> id])
        /\ incarnation' = [incarnation EXCEPT ![id] = x]
        /\ outcome' = [outcome EXCEPT ![x] = "active"]
        /\ UNCHANGED <<disk, buffer, call, page_count, rows>>
    BY <1>1, IdleCall DEF StartTxn, LogOf, WriteLogRecord
  <1>3. TypeOK
    BY DEF TxnInv
  <1>4. id \in TxnId /\ id \in Nat /\ transaction_counter \in Nat
    BY <1>1, <1>2, <1>3, LogAssumption DEF TypeOK
  <1>5. x \in Value /\ outcome[x] = "unused"
        /\ \A y \in Value : outcome[y] = "unused" => x <= y
    <2> DEFINE unused == {y \in Value : outcome[y] = "unused"}
    <2>1. unused \in SUBSET Nat
      BY SystemAssumption
    <2>2. Min(unused) \in unused /\ \A y \in unused : Min(unused) <= y
      <3>1. unused # {}
        BY <1>2
      <3> HIDE DEF unused
      <3> QED BY <2>1, <3>1, MinFact
    <2> QED BY <1>1, <2>2
  <1>6. PICK rec \in LogRecord : rec.type = "BEGIN" /\ rec.txn = id /\ log' = Append(log, rec)
    <2> DEFINE r == [type |-> "BEGIN", txn |-> id]
    <2>1. r \in LogRecord /\ r.type = "BEGIN" /\ r.txn = id
      BY <1>4 DEF LogRecord
    <2> QED BY <1>2, <2>1
  <1>7. /\ DOMAIN log' = DOMAIN log \cup {Len(log) + 1} /\ Len(log) + 1 \notin DOMAIN log
        /\ \A i \in DOMAIN log : log'[i] = log[i]
        /\ log'[Len(log) + 1] = rec /\ log' \in Seq(LogRecord)
    BY <1>3, <1>6, LogGrows
  <1>8. /\ \A t, i : Offsets(t, i)' = Offsets(t, i)
                        \cup {k \in {Len(log) + 1} : rec.type = t /\ rec.txn = i}
        /\ \A ids, p, s : UpdatesOf(ids, p, s)' = UpdatesOf(ids, p, s)
        /\ Reused => Reused'
        /\ Offsets("BEGIN", id) # {} => Reused'
    <2>1. \A ids, p, s : UpdatesOf(ids, p, s)' = UpdatesOf(ids, p, s)
                \cup {i \in {Len(log) + 1} : /\ rec.type = "UPDATE" /\ rec.txn \in ids
                                             /\ rec.page = p /\ rec.slot = s}
      BY <1>3, <1>6, LogLonger
    <2>2. \A ids, p, s : UpdatesOf(ids, p, s)' = UpdatesOf(ids, p, s)
      BY <1>6, <2>1
    <2>3. (Reused => Reused') /\ (Offsets("BEGIN", id) # {} => Reused')
      BY <1>3, <1>4, <1>6, <1>7, ReusedStays
    <2> QED BY <1>3, <1>6, <2>2, <2>3, LogLonger
  <1>9. /\ outcome'[x] = "active"
        /\ \A y \in Value : y # x => outcome'[y] = outcome[y]
    BY <1>2, <1>3, <1>5 DEF TypeOK
  <1>10. /\ transaction_table'[id] = [started |-> TRUE, modified |-> {}]
         /\ incarnation'[id] = x /\ Started(id)'
         /\ \A i \in TxnId : i # id => /\ transaction_table'[i] = transaction_table[i]
                                       /\ incarnation'[i] = incarnation[i]
                                       /\ Started(i)' <=> Started(i)
    BY <1>2, <1>3, <1>4 DEF TypeOK, Started
  <1>11. /\ \A p \in Page : Fixed(p)' = Fixed(p)
         /\ \A y \in Value : (Shown(y) <=> Kept(y)) /\ (Kept(y) => Shown(y)')
                             /\ (y # x => (Kept(y)' => Kept(y)))
         /\ \A p, s : ~Writes(p, s) /\ ~Writes(p, s)'
         /\ rows[x] = {}
    <2>1. \A p \in Page : Fixed(p)' = Fixed(p)
      BY <1>2, SamePages
    <2>2. rows[x] = {}
      BY <1>5 DEF ViewInv, UnusedEmpty
    <2> QED BY <1>2, <1>5, <1>9, <2>1, <2>2 DEF Kept, Shown, Aborting, Writes
  <1>12. BlankPages' /\ InsertsLogged' /\ NoStray' /\ AllThere'
    <2>1. BlankPages'
      BY <1>2, <1>11 DEF ViewInv, BlankPages
    <2>2. InsertsLogged'
      BY <1>2, <1>6, <1>7 DEF ViewInv, InsertsLogged
    <2>3. NoStray'
      BY <1>2, <1>11 DEF ViewInv, NoStray
    <2>4. AllThere'
      <3> SUFFICES ASSUME NEW y \in Value, NEW p \in Page, NEW s \in Slot, <<p, s>> \in rows[y]
                   PROVE  /\ Kept(y)' => Fixed(p).data[s] = y /\ s <= Fixed(p).slots
                          /\ outcome'[y] = "committed" =>
                                disk[p].data[s] = y /\ s <= disk[p].slots
        BY <1>2, <1>11 DEF AllThere
      <3>1. y # x
        BY <1>11
      <3> QED BY <1>9, <1>11, <3>1 DEF ViewInv, AllThere
    <2> QED BY <2>1, <2>2, <2>3, <2>4
  <1>13. FlushesPending' /\ RecoveringOnce' /\ LosersCrashed'
    BY <1>2 DEF FlushesPending, RecoveringOnce, Recovering, LosersCrashed
  <1>14. StartedKnown'
    <2>1. ASSUME NEW i \in TxnId, Started(i)', i # id
          PROVE  /\ incarnation'[i] = incarnation[i] /\ incarnation[i] \in Value
                 /\ incarnation[i] # x /\ Started(i)
      <3>1. Started(i) /\ incarnation'[i] = incarnation[i]
        BY <1>10, <2>1
      <3>2. incarnation[i] \in Value /\ outcome[incarnation[i]] = "active"
        BY <3>1 DEF TxnInv, CallOfStarted, ViewInv, StartedKnown
      <3> QED BY <1>5, <3>1, <3>2
    <2>2. ASSUME NEW p \in Page, NEW s \in Slot PROVE RollbackUpdates(id, p, s)' = {}
      <3>1. Offsets("BEGIN", id)' = Offsets("BEGIN", id) \cup {Len(log) + 1}
        BY <1>6, <1>8
      <3>2. FirstLogRecord(id)' = Len(log) + 1
        <4> DEFINE n == Len(log) + 1
                   O == Offsets("BEGIN", id) \cup {n}
        <4>1. n \in Nat /\ O \in SUBSET (1..n) /\ O # {} /\ n \in O
          BY <1>3, OffsetsFacts
        <4>2. Max(O) \in O /\ \A k \in O : k <= Max(O)
          <5> HIDE DEF O, n
          <5> QED BY <4>1, MaxFact
        <4>3. Max(O) = n
          <5>1. Max(O) \in 1..n /\ n <= Max(O)
            BY <4>1, <4>2
          <5> HIDE DEF O, n
          <5> QED BY <4>1, <5>1
        <4> QED BY <3>1, <4>3 DEF FirstLogRecord
      <3>3. ASSUME NEW k \in UpdatesOf({id}, p, s) PROVE ~(k >= Len(log) + 1)
        BY <1>3, LogFacts DEF UpdatesOf
      <3> QED BY <1>8, <3>2, <3>3 DEF RollbackUpdates
    <2>3. ASSUME NEW i \in TxnId, Started(i)'
          PROVE  /\ outcome'[incarnation'[i]] = "active"
                 /\ Offsets("BEGIN", i)' # {}
                 /\ \A p \in Page : \A s \in Slot :
                       /\ RollbackUpdates(i, p, s)' # {} <=> <<p, s>> \in rows[incarnation'[i]]
                       /\ <<p, s>> \in rows[incarnation'[i]] =>
                             p \in transaction_table'[i].modified
      <3>1. CASE i = id
        <4>1. Offsets("BEGIN", id)' # {}
          BY <1>6, <1>8
        <4> QED BY <1>9, <1>10, <1>11, <2>2, <3>1, <4>1
      <3>2. CASE i # id
        <4>1. \A p \in Page : \A s \in Slot : RollbackUpdates(i, p, s)' = RollbackUpdates(i, p, s)
          BY <1>3, <1>6, <3>2, RollbackLonger
        <4>2. /\ incarnation'[i] = incarnation[i] /\ incarnation[i] \in Value
              /\ incarnation[i] # x /\ Started(i)
          BY <2>1, <2>3, <3>2
        <4>3. transaction_table'[i] = transaction_table[i]
          BY <1>10, <3>2
        <4>4. Offsets("BEGIN", i)' # {}
          BY <1>8, <4>2 DEF ViewInv, StartedKnown
        <4> QED BY <1>9, <4>1, <4>2, <4>3, <4>4 DEF ViewInv, StartedKnown
      <3> QED BY <3>1, <3>2
    <2>4. ASSUME NEW i \in TxnId, NEW j \in TxnId, Started(i)', Started(j)',
                 incarnation'[i] = incarnation'[j]
          PROVE  i = j
      BY <1>10, <2>1, <2>4 DEF ViewInv, StartedKnown
    <2> QED BY <1>2, <2>3, <2>4 DEF StartedKnown
  <1>15. UnusedEmpty'
    BY <1>2, <1>9 DEF ViewInv, UnusedEmpty
  <1>16. BeginsLogged'
    <2> SUFFICES ASSUME NEW i \in DOMAIN log', log'[i].type \in {"UPDATE", "COMMIT", "ABORT"},
                        NEW t, t = log'[i].txn
                 PROVE  Offsets("BEGIN", t)' # {}
      BY DEF BeginsLogged
    <2>1. Offsets("BEGIN", t) # {}
      BY <1>6, <1>7 DEF ViewInv, BeginsLogged
    <2> QED BY <1>8, <2>1
  <1>17. ASSUME ~Reused' PROVE OutcomesLogged' /\ OneInsert' /\ RowsApart' /\ DiskShown'
    <2>1. OnceInv /\ Offsets("BEGIN", id) = {}
      BY <1>8, <1>17 DEF ViewInv
    <2>2. x = id /\ Uncrashed /\ Uncrashed'
      <3>1. id \in Value /\ outcome[id] = "unused"
        BY <1>4, <2>1, SystemAssumption DEF OnceInv, OutcomesLogged
      <3>2. PICK u \in 0..MaxTxns : /\ transaction_counter <= u
                                    /\ \A y \in Value : outcome[y] = "unused" <=> y > u
        BY DEF TxnInv, Numbered
      <3>3. Value \subseteq Nat /\ u \in Nat
        BY SystemAssumption
      <3>4. id > u /\ x > u /\ x <= id /\ x \in Nat
        BY <1>5, <3>1, <3>2, <3>3
      <3>5. u = transaction_counter /\ x = id
        BY <1>1, <1>4, <3>2, <3>3, <3>4
      <3>6. ASSUME NEW y \in Value, outcome[y] # "unused" PROVE y <= transaction_counter
        BY <3>2, <3>3, <3>5, <3>6
      <3>7. ASSUME NEW y \in Value, outcome'[y] # "unused" PROVE y <= transaction_counter'
        <4>1. y = x \/ y <= transaction_counter
          BY <1>9, <3>6, <3>7
        <4> QED BY <1>1, <1>2, <1>4, <3>3, <3>5, <4>1
      <3> QED BY <3>5, <3>6, <3>7 DEF Uncrashed
    <2>3. OutcomesLogged'
      <3> SUFFICES ASSUME NEW y \in Value
                   PROVE  /\ Offsets("BEGIN", y)' # {} <=> outcome'[y] # "unused"
                          /\ Offsets("COMMIT", y)' # {} <=> outcome'[y] = "committed"
                          /\ Offsets("ABORT", y)' # {} <=> outcome'[y] = "aborted"
        BY DEF OutcomesLogged
      <3>1. /\ Offsets("BEGIN", y) # {} <=> outcome[y] # "unused"
            /\ Offsets("COMMIT", y) # {} <=> outcome[y] = "committed"
            /\ Offsets("ABORT", y) # {} <=> outcome[y] = "aborted"
        BY <2>1 DEF OnceInv, OutcomesLogged
      <3>2. \A t : Offsets(t, y)' # {} <=> Offsets(t, y) # {} \/ (t = "BEGIN" /\ y = id)
        BY <1>6, <1>8
      <3>3. CASE y = x
        BY <1>5, <1>9, <2>2, <3>1, <3>2, <3>3
      <3>4. CASE y # x
        BY <1>9, <2>2, <3>1, <3>2, <3>4
      <3> QED BY <3>3, <3>4
    <2>4. OneInsert'
      <3>1. \A i \in TxnId : Started(i)' => incarnation'[i] = i /\ Uncrashed'
        BY <1>10, <2>1, <2>2 DEF OnceInv, OneInsert
      <3>2. OwnImages'
        <4>1. log'[Len(log) + 1].type # "UPDATE"
          BY <1>6, <1>7
        <4>2. \A y \in Value : outcome[y] = "crashed" => outcome'[y] = "crashed"
          BY <1>5, <1>9
        <4> QED BY <1>3, <1>7, <2>1, <4>1, <4>2, OwnImagesStay DEF OnceInv, OneInsert
      <3>3. ASSUME NEW i \in DOMAIN log', NEW j \in DOMAIN log', log'[j].type = "BEGIN",
                   log'[i].type \in {"UPDATE", "COMMIT", "ABORT"}, log'[i].txn = log'[j].txn
            PROVE  j < i
        <4>1. i \in DOMAIN log /\ log'[i] = log[i]
          BY <1>6, <1>7, <3>3
        <4>2. CASE j \in DOMAIN log
          BY <1>7, <2>1, <3>3, <4>1, <4>2 DEF OnceInv, OneInsert
        <4>3. CASE j = Len(log) + 1
          <5>1. log[i].txn = id
            BY <1>6, <1>7, <3>3, <4>1, <4>3
          <5>2. Offsets("BEGIN", log[i].txn) # {}
            BY <3>3, <4>1 DEF ViewInv, BeginsLogged
          <5> QED BY <2>1, <5>1, <5>2
        <4> QED BY <1>7, <4>2, <4>3
      <3>4. \A y \in Value : \A p \in Page : \A s \in Slot :
               <<p, s>> \in rows'[y] <=> UpdatesOf({y}, p, s)' # {}
        BY <1>2, <1>8, <2>1 DEF OnceInv, OneInsert
      <3> QED BY <3>1, <3>2, <3>3, <3>4 DEF OneInsert
    <2>5. RowsApart'
      BY <1>2, <1>11, <2>1, <2>2 DEF OnceInv, RowsApart
    <2>6. DiskShown'
      BY <1>2, <1>9, <2>1 DEF OnceInv, DiskShown
    <2> QED BY <2>3, <2>4, <2>5, <2>6
  <1> QED BY <1>12, <1>13, <1>14, <1>15, <1>16, <1>17 DEF ViewInv, OnceInv

-----------------------------------------------------------------------------
(* Crashes, and the invariant.                                             *)

\* A crash leaves what DiskShown says of the disk, and a log that may have got the insert
\* that was under way.
LEMMA ResetRecovery ==
    ASSUME TxnInv, TxnInv', ViewInv, ~Reused, Reset, NEW added,
           \A x \in Value : \A p \in Page : \A s \in Slot :
              /\ <<p, s>> \in rows'[x] <=> <<p, s>> \in rows[x] \/ <<x, p, s>> \in added
              /\ UpdatesOf({x}, p, s)' # {} <=>
                    UpdatesOf({x}, p, s) # {} \/ <<x, p, s>> \in added
              /\ <<x, p, s>> \in added =>
                    /\ Writes(p, s) /\ outcome[x] = "active"
                    /\ \A y \in Value : <<y, p, s>> \in added => x = y,
           \A type \in {"BEGIN", "COMMIT", "ABORT"} : \A id :
              Offsets(type, id)' = Offsets(type, id),
           \A i \in DOMAIN log' : log'[i].type = "UPDATE" =>
              log'[i].page < page_count /\ log'[i].before = Empty,
           OwnImages', BeginsLogged',
           \A i, j \in DOMAIN log' :
              /\ log'[i].type \in {"UPDATE", "COMMIT", "ABORT"} /\ log'[j].type = "BEGIN"
              /\ log'[i].txn = log'[j].txn
              => j < i
    PROVE  ViewInv'
  <1>1. /\ UNCHANGED <<disk, page_count>>
        /\ buffer' = [p \in Page |-> NotBuffered]
        /\ transaction_counter' = 0
        /\ transaction_table' = [id \in TxnId |-> [started |-> FALSE, modified |-> {}]]
        /\ call'.op = "recovery"
        /\ outcome' = [x \in Value |-> IF outcome[x] = "active" THEN "crashed" ELSE outcome[x]]
    BY DEF Reset, Discarded
  <1>2. OnceInv /\ TypeOK /\ TypeOK'
    BY DEF ViewInv, TxnInv
  <1>3. Reused' <=> Reused
    BY DEF Reused
  <1>4. \A p \in Page : Fixed(p)' = disk[p]
    BY <1>1 DEF Fixed
  <1>5. \A x \in Value :
           /\ outcome'[x] \in {"unused", "committed", "aborted", "crashed"}
           /\ outcome'[x] = "committed" <=> outcome[x] = "committed"
           /\ outcome'[x] = "unused" <=> outcome[x] = "unused"
           /\ outcome'[x] = "aborted" <=> outcome[x] = "aborted"
           /\ outcome'[x] = "crashed" <=> outcome[x] \in {"active", "crashed"}
    BY <1>1, <1>2 DEF TypeOK
  <1>6. /\ \A i \in TxnId : ~Started(i)'
        /\ \A p, s : ~Writes(p, s)'
    BY <1>1 DEF Started, Writes
  <1>7. BlankPages'
    BY <1>1, <1>4 DEF ViewInv, BlankPages
  <1>8. InsertsLogged'
    BY <1>1 DEF InsertsLogged
  <1>9. NoStray'
    <2> SUFFICES ASSUME NEW p \in Page, NEW s \in Slot, NEW x \in Value, disk[p].data[s] = x
                 PROVE  <<p, s>> \in rows'[x] /\ Shown(x)'
      BY <1>1, <1>4 DEF NoStray
    <2>1. <<p, s>> \in rows[x] /\ outcome[x] \in {"committed", "active", "crashed"}
      BY <1>2 DEF OnceInv, DiskShown
    <2> QED BY <1>1, <1>5, <2>1 DEF Shown, Kept
  <1>10. AllThere'
    <2> SUFFICES ASSUME NEW x \in Value, NEW p \in Page, NEW s \in Slot, <<p, s>> \in rows'[x],
                        outcome[x] = "committed"
                 PROVE  disk[p].data[s] = x /\ s <= disk[p].slots
      BY <1>1, <1>4, <1>5 DEF AllThere, Kept
    <2>1. <<p, s>> \in rows[x]
      OBVIOUS
    <2> QED BY <2>1 DEF ViewInv, AllThere
  <1>11. FlushesPending' /\ LosersCrashed'
    BY <1>1 DEF FlushesPending, LosersCrashed
  <1>12. StartedKnown'
    BY <1>6 DEF StartedKnown
  <1>13. UnusedEmpty'
    <2> SUFFICES ASSUME NEW x \in Value, outcome[x] = "unused", NEW r \in rows'[x] PROVE FALSE
      BY <1>5 DEF UnusedEmpty
    <2>1. PICK p \in Page, s \in Slot : r = <<p, s>>
      BY <1>2 DEF TypeOK
    <2> QED BY <2>1 DEF ViewInv, UnusedEmpty
  <1>14. RecoveringOnce'
    BY <1>3, <1>5 DEF RecoveringOnce
  <1>15. OutcomesLogged'
    BY <1>2, <1>5 DEF OnceInv, OutcomesLogged
  <1>16. OneInsert'
    <2>1. ASSUME NEW x \in Value, NEW p \in Page, NEW s \in Slot
          PROVE  <<p, s>> \in rows'[x] <=> UpdatesOf({x}, p, s)' # {}
      <3>1. <<p, s>> \in rows[x] <=> UpdatesOf({x}, p, s) # {}
        BY <1>2 DEF OnceInv, OneInsert
      <3> QED BY <3>1
    <2> QED BY <1>6, <2>1 DEF OneInsert
  <1>17. RowsApart'
    <2> SUFFICES ASSUME NEW x \in Value, NEW p \in Page, NEW s \in Slot, <<p, s>> \in rows'[x]
                 PROVE  (\A y \in Value : <<p, s>> \in rows'[y] => x = y) /\ ~Uncrashed'
      BY <1>6 DEF RowsApart
    <2>1. outcome'[x] # "unused"
      BY <1>13 DEF UnusedEmpty
    <2>2. ~(x <= transaction_counter')
      BY <1>1, SystemAssumption
    <2>3. ~Uncrashed'
      BY <2>1, <2>2 DEF Uncrashed
    <2>4. ASSUME NEW y \in Value, <<p, s>> \in rows'[y] PROVE x = y
      BY <1>2, <2>4 DEF OnceInv, RowsApart
    <2> QED BY <2>3, <2>4
  <1>18. DiskShown'
    <2> SUFFICES ASSUME NEW p \in Page, NEW s \in Slot, NEW x \in Value, disk[p].data[s] = x
                 PROVE  <<p, s>> \in rows'[x] /\ outcome'[x] \in {"committed", "crashed"}
      BY <1>1 DEF DiskShown
    <2>1. <<p, s>> \in rows[x] /\ outcome[x] \in {"committed", "active", "crashed"}
      BY <1>2 DEF OnceInv, DiskShown
    <2> QED BY <1>5, <2>1
  <1> QED BY <1>7, <1>8, <1>9, <1>10, <1>11, <1>12, <1>13, <1>14, <1>15, <1>16, <1>17, <1>18
          DEF ViewInv, OnceInv

\* A crash between two calls, or between two writes to the segment file.
LEMMA CrashRecovery == ASSUME TxnInv, TxnInv', ViewInv, ~Reused, Crash PROVE ViewInv'
  <1>1. Reset /\ UNCHANGED <<log, rows>>
    BY DEF Crash
  <1>2. OnceInv /\ TypeOK
    BY DEF ViewInv, TxnInv
  <1>3. /\ \A type, id : Offsets(type, id)' = Offsets(type, id)
        /\ \A ids, p, s : UpdatesOf(ids, p, s)' = UpdatesOf(ids, p, s)
    BY <1>1, LogSame
  <1>4. OwnImages'
    <2>1. \A x \in Value : outcome[x] = "crashed" => outcome'[x] = "crashed"
      BY <1>1 DEF Reset
    <2>2. \A i \in DOMAIN log : log[i].type = "UPDATE" => log[i].txn \in Value
      BY <1>2, LogFacts, SystemAssumption
    <2> QED BY <1>1, <1>2, <2>1, <2>2 DEF OnceInv, OneInsert, OwnImages
  <1>5. BeginsLogged'
    BY <1>1, <1>3 DEF ViewInv, BeginsLogged
  <1>6. /\ \A i \in DOMAIN log' : log'[i].type = "UPDATE" =>
              log'[i].page < page_count /\ log'[i].before = Empty
        /\ \A i, j \in DOMAIN log' :
              /\ log'[i].type \in {"UPDATE", "COMMIT", "ABORT"} /\ log'[j].type = "BEGIN"
              /\ log'[i].txn = log'[j].txn
              => j < i
    BY <1>1, <1>2 DEF ViewInv, InsertsLogged, OnceInv, OneInsert
  <1> DEFINE added == {}
  <1>7. \A x \in Value : \A p \in Page : \A s \in Slot :
           /\ <<p, s>> \in rows'[x] <=> <<p, s>> \in rows[x] \/ <<x, p, s>> \in added
           /\ UpdatesOf({x}, p, s)' # {} <=>
                 UpdatesOf({x}, p, s) # {} \/ <<x, p, s>> \in added
           /\ <<x, p, s>> \notin added
    BY <1>1, <1>3
  <1> HIDE DEF added
  <1> QED BY <1>1, <1>3, <1>4, <1>5, <1>6, <1>7, ResetRecovery

\* A crash inside a record that is not read as another: an insert that was under way is then
\* in the log with empty images, and nothing else of it.
LEMMA CrashInRecordRecovery ==
    ASSUME TxnInv, TxnInv', ViewInv, ~Reused, CrashInRecord, log_end' # "misread"
    PROVE  ViewInv'
  <1> DEFINE writing == /\ call.op = "write"
                        /\ rows' = [rows EXCEPT ![incarnation[call.txn]] =
                                       @ \cup {<<call.page, call.slot>>}]
  <1>1. Reset
    BY DEF CrashInRecord
  <1>2. OnceInv /\ TypeOK /\ Value = TxnId
    BY SystemAssumption DEF ViewInv, TxnInv
  <1>3. PICK rec \in LogRecord :
             /\ log' = Append(log, rec)
             /\ \/ /\ writing
                   /\ rec \in TornUpdates(call.txn, call.page, call.slot, call.before)
                \/ UNCHANGED rows /\ rec = [type |-> "CHECKPOINT", txn |-> 0]
    <2>1. CASE /\ writing
               /\ \E r \in TornUpdates(call.txn, call.page, call.slot, call.before) :
                     WriteLogRecord(r)
      <3>1. PICK r \in TornUpdates(call.txn, call.page, call.slot, call.before) :
                 log' = Append(log, r)
        BY <2>1 DEF WriteLogRecord
      <3>2. r \in LogRecord
        <4>1. /\ call.txn \in TxnId /\ call.page \in Page /\ call.slot \in Slot
              /\ call.before \in Image
          BY <1>2, <2>1, CallShape
        <4> QED BY <3>1, <4>1 DEF TornUpdates, LogRecord, Image
      <3> QED BY <2>1, <3>1, <3>2
    <2>2. CASE LogOf("CHECKPOINT", 0) /\ UNCHANGED rows
      <3>1. [type |-> "CHECKPOINT", txn |-> 0] \in LogRecord
        BY DEF LogRecord
      <3> QED BY <2>2, <3>1 DEF LogOf, WriteLogRecord
    <2> QED BY <2>1, <2>2 DEF CrashInRecord
  <1>4. /\ DOMAIN log' = DOMAIN log \cup {Len(log) + 1} /\ Len(log) + 1 \notin DOMAIN log
        /\ \A i \in DOMAIN log : log'[i] = log[i]
        /\ log'[Len(log) + 1] = rec
    BY <1>2, <1>3, LogGrows
  <1>5. ASSUME writing,
               rec \in TornUpdates(call.txn, call.page, call.slot, call.before)
        PROVE  /\ rec.type = "UPDATE" /\ rec.txn \in Value /\ outcome[rec.txn] = "active"
               /\ rec.page \in Page /\ rec.slot \in Slot /\ rec.page < page_count
               /\ rec.before = Empty /\ rec.after = Empty
               /\ Offsets("BEGIN", rec.txn) # {} /\ Writes(rec.page, rec.slot)
               /\ rows' = [rows EXCEPT ![rec.txn] = @ \cup {<<rec.page, rec.slot>>}]
    <2>1. PICK id \in TxnId, x \in Value :
               /\ id = call.txn /\ incarnation[id] = x /\ outcome[x] = "active"
               /\ Offsets("BEGIN", id) # {} /\ x = id
      BY <1>5, CallOfActive
    <2>2. /\ rec.type = "UPDATE" /\ rec.txn = call.txn /\ rec.page = call.page
          /\ rec.slot = call.slot /\ rec.before \in {call.before, Empty} /\ rec.after = Empty
      BY <1>5 DEF TornUpdates
    <2>3. call.before = Empty /\ call.page < page_count
      BY <1>5 DEF ViewInv, InsertsLogged
    <2>4. call.page \in Page /\ call.slot \in Slot
      BY <1>2, <1>5, CallShape
    <2> QED BY <1>5, <2>1, <2>2, <2>3, <2>4 DEF Writes
  <1>6. \/ /\ rec.type = "UPDATE" /\ rec.txn \in Value /\ outcome[rec.txn] = "active"
           /\ rec.page \in Page /\ rec.slot \in Slot /\ rec.page < page_count
           /\ rec.before = Empty /\ rec.after = Empty
           /\ Offsets("BEGIN", rec.txn) # {} /\ Writes(rec.page, rec.slot)
           /\ rows' = [rows EXCEPT ![rec.txn] = @ \cup {<<rec.page, rec.slot>>}]
        \/ rec.type = "CHECKPOINT" /\ UNCHANGED rows
    BY <1>3, <1>5
  <1> HIDE DEF writing
  <1>7. /\ \A type \in {"BEGIN", "COMMIT", "ABORT"} : \A id :
              Offsets(type, id)' = Offsets(type, id)
        /\ \A x, p, s : UpdatesOf({x}, p, s)' =
              UpdatesOf({x}, p, s) \cup {i \in {Len(log) + 1} :
                 /\ rec.type = "UPDATE" /\ rec.txn \in {x} /\ rec.page = p /\ rec.slot = s}
    <2>1. \A type, id : Offsets(type, id)' =
             Offsets(type, id) \cup {i \in {Len(log) + 1} : rec.type = type /\ rec.txn = id}
      BY <1>2, <1>3, LogLonger
    <2>2. \A type \in {"BEGIN", "COMMIT", "ABORT"} : \A id :
             Offsets(type, id)' = Offsets(type, id)
      BY <1>6, <2>1
    <2> QED BY <1>2, <1>3, <2>2, LogLonger
  <1>8. OwnImages'
    <2>1. /\ \A x \in Value : outcome[x] \in {"active", "crashed"} => outcome'[x] = "crashed"
      BY <1>1 DEF Reset
    <2>2. \A i \in DOMAIN log : log[i].type = "UPDATE" => log[i].txn \in Value
      BY <1>2, LogFacts
    <2> QED BY <1>2, <1>4, <1>6, <2>1, <2>2 DEF OnceInv, OneInsert, OwnImages
  <1>9. BeginsLogged'
    BY <1>4, <1>6, <1>7 DEF ViewInv, BeginsLogged
  <1>10. \A i \in DOMAIN log' : log'[i].type = "UPDATE" =>
            log'[i].page < page_count /\ log'[i].before = Empty
    BY <1>4, <1>6 DEF ViewInv, InsertsLogged
  <1>11. ASSUME NEW i \in DOMAIN log', NEW j \in DOMAIN log', log'[j].type = "BEGIN",
                log'[i].type \in {"UPDATE", "COMMIT", "ABORT"}, log'[i].txn = log'[j].txn
         PROVE  j < i
    <2>1. j \in DOMAIN log /\ log'[j] = log[j]
      BY <1>4, <1>6, <1>11
    <2>2. CASE i \in DOMAIN log
      BY <1>2, <1>4, <1>11, <2>1, <2>2 DEF OnceInv, OneInsert
    <2>3. CASE i = Len(log) + 1
      BY <1>2, <2>1, <2>3, LogFacts
    <2> QED BY <1>4, <2>2, <2>3
  <1> DEFINE added == {a \in {<<rec.txn, rec.page, rec.slot>>} : rec.type = "UPDATE"}
  <1>12. \A x \in Value : \A p \in Page : \A s \in Slot :
            <<x, p, s>> \in added <=>
               rec.type = "UPDATE" /\ rec.txn = x /\ rec.page = p /\ rec.slot = s
    OBVIOUS
  <1> HIDE DEF added
  <1>13. ASSUME NEW x \in Value, NEW p \in Page, NEW s \in Slot
         PROVE  /\ <<p, s>> \in rows'[x] <=> <<p, s>> \in rows[x] \/ <<x, p, s>> \in added
                /\ UpdatesOf({x}, p, s)' # {} <=>
                      UpdatesOf({x}, p, s) # {} \/ <<x, p, s>> \in added
                /\ <<x, p, s>> \in added =>
                      /\ Writes(p, s) /\ outcome[x] = "active"
                      /\ \A y \in Value : <<y, p, s>> \in added => x = y
    <2>1. <<p, s>> \in rows'[x] <=> <<p, s>> \in rows[x] \/ <<x, p, s>> \in added
      BY <1>2, <1>6, <1>12 DEF TypeOK
    <2>2. UpdatesOf({x}, p, s)' # {} <=> UpdatesOf({x}, p, s) # {} \/ <<x, p, s>> \in added
      <3>1. UpdatesOf({x}, p, s)' =
               UpdatesOf({x}, p, s) \cup {i \in {Len(log) + 1} :
                  /\ rec.type = "UPDATE" /\ rec.txn \in {x} /\ rec.page = p /\ rec.slot = s}
        BY <1>7
      <3>2. CASE <<x, p, s>> \in added
        BY <1>12, <3>1, <3>2
      <3>3. CASE <<x, p, s>> \notin added
        BY <1>12, <3>1, <3>3
      <3> QED BY <3>2, <3>3
    <2>3. <<x, p, s>> \in added => /\ Writes(p, s) /\ outcome[x] = "active"
                                   /\ \A y \in Value : <<y, p, s>> \in added => x = y
      BY <1>6, <1>12
    <2> QED BY <2>1, <2>2, <2>3
  <1> QED BY <1>1, <1>7, <1>8, <1>9, <1>10, <1>11, <1>13, ResetRecovery

LEMMA RecoveryInit == Init => RecoveryInv
  <1> SUFFICES ASSUME Init PROVE ViewInv
    BY DEF RecoveryInv
  <1>1. /\ log = <<>> /\ DOMAIN log = {} /\ call.op = "idle"
        /\ \A x \in Value : outcome[x] = "unused" /\ rows[x] = {}
        /\ \A id \in TxnId : ~Started(id)
        /\ \A p \in Page : disk[p] = BlankPage /\ Fixed(p) = BlankPage
    BY IdleCall DEF Init, Started, Fixed
  <1>2. \A s \in Slot : BlankPage.data[s] = Empty
    BY DEF BlankPage
  <1>3. /\ \A type, id : Offsets(type, id) = {}
        /\ \A ids, p, s : UpdatesOf(ids, p, s) = {}
    BY <1>1 DEF Offsets, UpdatesOf
  <1>4. \A x \in Value : x # Empty
    BY EmptyIsNoValue
  <1>5. BlankPages /\ InsertsLogged
    BY <1>1, <1>2 DEF BlankPages, InsertsLogged
  <1>6. NoStray /\ DiskShown
    BY <1>1, <1>2, <1>4 DEF NoStray, DiskShown
  <1>7. AllThere /\ FlushesPending /\ StartedKnown /\ UnusedEmpty /\ LosersCrashed
    BY <1>1 DEF AllThere, FlushesPending, StartedKnown, UnusedEmpty, LosersCrashed
  <1>8. BeginsLogged /\ RecoveringOnce
    BY <1>1 DEF BeginsLogged, RecoveringOnce, Recovering
  <1>9. OutcomesLogged /\ RowsApart
    BY <1>1, <1>3 DEF OutcomesLogged, RowsApart
  <1>10. OneInsert
    BY <1>1, <1>3 DEF OneInsert, OwnImages
  <1> QED BY <1>5, <1>6, <1>7, <1>8, <1>9, <1>10 DEF ViewInv, OnceInv

\* No step takes back that an id was given out twice.
LEMMA ReusedForGood == ASSUME TxnInv, TypeOK', Next, Reused PROVE Reused'
  <1>1. CASE UNCHANGED log
    BY <1>1, LogSame
  <1>2. ASSUME NEW r, log' = Append(log, r) PROVE Reused'
    <2>1. log \in Seq(LogRecord) /\ log' \in Seq(LogRecord)
      BY DEF TxnInv, TypeOK
    <2>2. Len(log) + 1 \in DOMAIN log' /\ log'[Len(log) + 1] = r
      BY <1>2, <2>1
    <2>3. r \in LogRecord
      BY <2>1, <2>2
    <2> QED BY <1>2, <2>1, <2>3, ReusedStays DEF TxnInv
  <1>3. UNCHANGED log \/ \E r : log' = Append(log, r)
    <2>1. CASE Client
      BY <2>1 DEF Client, StartTxn, FlushAllPages, LogCheckpoint, InsertRow, CommitTxn, AbortTxn,
                  LogOf, WriteLogRecord
    <2>2. CASE InCall
      BY <2>2 DEF InCall, FlushFrame, FlushEnds, LogUpdate, LogUpdateOf, LogCommit, LogAbort,
                  Ends, CheckpointEnds, Redo, Undo, FinalFlush, LogOf, WriteLogRecord
    <2>3. CASE Crash \/ CrashInRecord
      BY <2>3 DEF Crash, CrashInRecord, LogOf, WriteLogRecord
    <2> QED BY <2>1, <2>2, <2>3 DEF Next
  <1> QED BY <1>1, <1>2, <1>3

\* Nor that a record is read as another.
LEMMA MisreadForGood == ASSUME Next, log_end = "misread" PROVE log_end' = "misread"
  <1>1. CASE Client
    BY <1>1 DEF Client, StartTxn, FlushAllPages, LogCheckpoint, InsertRow, CommitTxn, AbortTxn,
                ghosts
  <1>2. CASE InCall
    BY <1>2 DEF InCall, FlushFrame, FlushEnds, LogUpdate, LogCommit, LogAbort, Ends,
                CheckpointEnds, Redo, Undo, FinalFlush, ghosts
  <1>3. CASE Crash \/ CrashInRecord
    BY <1>3 DEF Crash, CrashInRecord
  <1> QED BY <1>1, <1>2, <1>3 DEF Next

LEMMA RecoveryNext == TxnInv /\ TxnInv' /\ RecoveryInv /\ [Next]_vars => RecoveryInv'
  <1> SUFFICES ASSUME TxnInv, TxnInv', RecoveryInv, [Next]_vars, Sound' PROVE ViewInv'
    BY DEF RecoveryInv
  <1>1. TypeOK' /\ FlushBeforeAbort /\ (CrashAfterReuse => ~Reused') /\ log_end' # "misread"
    BY DEF TxnInv, Sound
  <1>2. CASE UNCHANGED vars
    <2>1. UNCHANGED <<log, log_end>>
      BY <1>2 DEF vars, ghosts
    <2>2. ViewInv
      BY <1>1, <2>1, LogSame DEF RecoveryInv, Sound
    <2> QED BY <1>2, <2>2, RecoveryStutter
  <1>3. ASSUME Next PROVE ViewInv'
    <2>1. ViewInv
      BY <1>1, <1>3, ReusedForGood, MisreadForGood DEF RecoveryInv, Sound
    <2>2. CASE Client
      BY <1>1, <2>1, <2>2, StartTxnRecovery, CallRecovery, InsertRowRecovery, AbortTxnRecovery
      DEF Client
    <2>3. CASE InCall
      BY <1>1, <2>1, <2>3, FlushFrameRecovery, CallRecovery, LogUpdateRecovery, EndsRecovery,
         CheckpointRecovery, RedoRecovery, UndoRecovery
      DEF InCall
    <2>4. CASE Crash
      <3>1. (CrashAfterReuse \/ ~Reused) /\ UNCHANGED log
        BY <2>4 DEF Crash, Reset
      <3>2. ~Reused
        BY <1>1, <3>1, LogSame
      <3> QED BY <2>1, <2>4, <3>2, CrashRecovery
    <2>5. CASE CrashInRecord
      <3>1. CrashAfterReuse \/ ~Reused
        BY <2>5 DEF CrashInRecord, Reset
      <3>2. ~Reused
        BY <1>1, <1>3, <3>1, ReusedForGood
      <3> QED BY <1>1, <2>1, <2>5, <3>2, CrashInRecordRecovery
    <2> QED BY <1>3, <2>2, <2>3, <2>4, <2>5 DEF Next
  <1> QED BY <1>2, <1>3

-----------------------------------------------------------------------------
(* What follows from it.                                                   *)

LEMMA RowsInMember ==
    ASSUME NEW p, NEW page, NEW w
    PROVE  w \in RowsIn(p, page) <=>
              \E s \in Slot : s <= page.slots /\ page.data[s] # Empty /\ w = <<p, s, page.data[s]>>
  BY DEF RowsIn

\* w is a record that a transaction with one of these ends inserted.
InsertedBy(results, w) ==
    \E x \in Value, p \in Page, s \in Slot :
        outcome[x] \in results /\ <<p, s>> \in rows[x] /\ w = <<p, s, x>>

LEMMA RowsOfMember ==
    ASSUME TypeOK, NEW results, NEW w PROVE w \in RowsOf(results) <=> InsertedBy(results, w)
  <1>1. ASSUME NEW x \in Value, NEW r \in rows[x]
        PROVE  \E p \in Page : \E s \in Slot : r = <<p, s>> /\ r[1] = p /\ r[2] = s
    BY DEF TypeOK
  <1>2. ASSUME w \in RowsOf(results)
        PROVE  InsertedBy(results, w)
    <2>1. PICK x \in Value :
             outcome[x] \in results /\ \E r \in rows[x] : w = <<r[1], r[2], x>>
      BY <1>2 DEF RowsOf
    <2>2. PICK r \in rows[x] : w = <<r[1], r[2], x>>
      BY <2>1
    <2> QED BY <1>1, <2>1, <2>2 DEF InsertedBy
  <1>3. ASSUME NEW x \in Value, NEW p \in Page, NEW s \in Slot,
               outcome[x] \in results, <<p, s>> \in rows[x], w = <<p, s, x>>
        PROVE  w \in RowsOf(results)
    <2> DEFINE r == <<p, s>>
    <2>1. r \in rows[x] /\ w = <<r[1], r[2], x>>
      BY <1>3
    <2> QED BY <1>3, <2>1 DEF RowsOf
  <1> QED BY <1>2, <1>3 DEF InsertedBy

\* Transactions that came to different ends inserted different records.
LEMMA RowsOfApart ==
    ASSUME TypeOK, NEW found, NEW lost
    PROVE  found \cap lost = {} => RowsOf(found) \cap RowsOf(lost) = {}
  <1>1. ASSUME NEW w, w \in RowsOf(found), w \in RowsOf(lost) PROVE found \cap lost # {}
    <2>1. InsertedBy(found, w) /\ InsertedBy(lost, w)
      BY <1>1, RowsOfMember
    <2>2. PICK x \in Value, p \in Page, s \in Slot : outcome[x] \in found /\ w = <<p, s, x>>
      BY <2>1 DEF InsertedBy
    <2>3. PICK y \in Value, q \in Page, t \in Slot : outcome[y] \in lost /\ w = <<q, t, y>>
      BY <2>1 DEF InsertedBy
    <2> QED BY <2>2, <2>3
  <1> QED BY <1>1

\* A transaction that is analysed as active began, and neither committed nor aborted.
LEMMA LosersKnown ==
    ASSUME TypeOK, OnceInv, NEW x \in Value
    PROVE  x \in ActiveTxns <=> outcome[x] \in {"active", "crashed"}
  <1>1. /\ Offsets("BEGIN", x) # {} <=> outcome[x] # "unused"
        /\ Offsets("COMMIT", x) # {} <=> outcome[x] = "committed"
        /\ Offsets("ABORT", x) # {} <=> outcome[x] = "aborted"
    BY DEF OnceInv, OutcomesLogged
  <1>2. outcome[x] \in {"unused", "active", "committed", "aborted", "crashed"} /\ x \in TxnId
    BY SystemAssumption DEF TypeOK
  <1>3. ASSUME x \in ActiveTxns PROVE outcome[x] \in {"active", "crashed"}
    <2>1. Offsets("COMMIT", x) = {}
      BY <1>3 DEF ActiveTxns
    <2>2. PICK i \in Offsets("BEGIN", x) : \A j \in Offsets("ABORT", x) : j < i
      BY <1>3 DEF ActiveTxns
    <2>3. ASSUME NEW j \in Offsets("ABORT", x) PROVE FALSE
      <3>1. j < i
        BY <2>2, <2>3
      <3>2. i < j
        BY DEF OnceInv, OneInsert, Offsets
      <3>3. i \in Nat /\ j \in Nat
        BY LogFacts DEF Offsets
      <3> QED BY <3>1, <3>2, <3>3
    <2> QED BY <1>1, <1>2, <2>1, <2>2, <2>3
  <1>4. ASSUME outcome[x] \in {"active", "crashed"} PROVE x \in ActiveTxns
    BY <1>1, <1>2, <1>4 DEF ActiveTxns
  <1> QED BY <1>3, <1>4

\* What recovering from the disk and the log puts into a slot: the record of the committed
\* transaction that inserted there, or nothing.
LEMMA RecoveredSlot ==
    ASSUME TypeOK, ViewInv, OnceInv, NEW p \in Page, NEW s \in Slot
    PROVE  LET v == RecoveredData(p, disk[p].data)[s]
           IN  \/ /\ v = Empty
                  /\ \A x \in Value : <<p, s>> \in rows[x] => outcome[x] # "committed"
               \/ /\ v \in Value /\ <<p, s>> \in rows[v] /\ outcome[v] = "committed"
  <1> DEFINE data == disk[p].data
             losers == {id \in ActiveTxns : RollbackUpdates(id, p, s) # {}}
             U == UpdatesOf(CommittedTxns, p, s)
  <1>1. RecoveredData(p, data)[s] =
          IF losers = {} THEN RedoData(p, data)[s]
          ELSE log[Min(RollbackUpdates(Max(losers), p, s))].before
    BY DEF RecoveredData
  <1>2. RedoData(p, data)[s] = IF U = {} THEN data[s] ELSE log[Max(U)].after
    BY DEF RedoData
  <1>3. TxnId = Value /\ TxnId = 1..MaxTxns /\ MaxTxns \in Nat /\ data[s] \in Image
    BY SystemAssumption DEF TypeOK, PageContent
  <1>4. ASSUME NEW x \in Value, outcome[x] \in {"active", "crashed"}
        PROVE  RollbackUpdates(x, p, s) # {} <=> <<p, s>> \in rows[x]
    <2>1. Offsets("BEGIN", x) # {}
      BY <1>4 DEF OnceInv, OutcomesLogged
    <2>2. RollbackUpdates(x, p, s) = UpdatesOf({x}, p, s)
      BY <1>3, <2>1, RollbackOnce DEF OnceInv
    <2> QED BY <2>2 DEF OnceInv, OneInsert
  <1>5. ASSUME NEW x \in Value, NEW y \in Value, <<p, s>> \in rows[x], <<p, s>> \in rows[y]
        PROVE  x = y
    BY <1>5 DEF OnceInv, RowsApart
  <1>6. CASE losers # {}
    <2> DEFINE id == Max(losers)
               R == RollbackUpdates(id, p, s)
    <2>1. losers \in SUBSET (1..MaxTxns)
      BY <1>3 DEF ActiveTxns
    <2>2. id \in losers
      <3> HIDE DEF losers
      <3> QED BY <1>3, <1>6, <2>1, MaxFact
    <2>3. R \in SUBSET Nat /\ R # {}
      BY <2>2, LogFacts DEF RollbackUpdates, UpdatesOf
    <2>4. Min(R) \in R
      <3> HIDE DEF R
      <3> QED BY <2>3, MinFact
    <2>5. log[Min(R)].before = Empty
      BY <2>4 DEF RollbackUpdates, UpdatesOf, ViewInv, InsertsLogged
    <2>6. id \in Value /\ outcome[id] \in {"active", "crashed"}
      <3>1. id \in ActiveTxns /\ id \in Value
        BY <1>3, <2>2 DEF ActiveTxns
      <3> HIDE DEF id
      <3> QED BY <3>1, LosersKnown
    <2> HIDE DEF id
    <2>7. <<p, s>> \in rows[id]
      BY <1>4, <2>3, <2>6
    <2> QED BY <1>1, <1>5, <1>6, <2>5, <2>6, <2>7 DEF id
  <1>7. CASE losers = {} /\ U # {}
    <2> DEFINE i == Max(U)
    <2>1. U \in SUBSET (1..Len(log)) /\ Len(log) \in Nat
      BY LogFacts DEF UpdatesOf
    <2>2. i \in U
      <3> HIDE DEF U
      <3> QED BY <1>7, <2>1, MaxFact
    <2>3. /\ i \in DOMAIN log /\ log[i].type = "UPDATE" /\ log[i].txn \in CommittedTxns
          /\ log[i].page = p /\ log[i].slot = s
      BY <2>2 DEF UpdatesOf
    <2> HIDE DEF i, U, losers
    <2> DEFINE c == log[i].txn
    <2>4. c \in Value /\ outcome[c] = "committed" /\ log[i].after = c
      BY <1>3, <2>3 DEF CommittedTxns, OnceInv, OutcomesLogged, OneInsert, OwnImages
    <2>5. i \in UpdatesOf({c}, p, s)
      BY <2>3 DEF UpdatesOf
    <2>6. <<p, s>> \in rows[c]
      BY <2>4, <2>5 DEF OnceInv, OneInsert
    <2> QED BY <1>1, <1>2, <1>7, <2>4, <2>6 DEF i
  <1>8. CASE losers = {} /\ U = {}
    <2>1. \A x \in Value : <<p, s>> \in rows[x] => outcome[x] # "committed"
      <3> SUFFICES ASSUME NEW x \in Value, <<p, s>> \in rows[x], outcome[x] = "committed"
                   PROVE  FALSE
        OBVIOUS
      <3>1. x \in CommittedTxns
        BY <1>3 DEF CommittedTxns, OnceInv, OutcomesLogged
      <3>2. UpdatesOf({x}, p, s) # {}
        BY DEF OnceInv, OneInsert
      <3> QED BY <1>8, <3>1, <3>2 DEF UpdatesOf
    <2>2. ASSUME data[s] \in Value PROVE FALSE
      <3>1. /\ <<p, s>> \in rows[data[s]]
            /\ outcome[data[s]] \in {"committed", "active", "crashed"}
        BY <2>2 DEF OnceInv, DiskShown
      <3>2. outcome[data[s]] \in {"active", "crashed"}
        BY <2>1, <2>2, <3>1
      <3>3. data[s] \in ActiveTxns
        BY <2>2, <3>2, LosersKnown
      <3>4. RollbackUpdates(data[s], p, s) # {}
        BY <1>4, <2>2, <3>1, <3>2
      <3> QED BY <1>8, <3>3, <3>4
    <2>3. data[s] = Empty
      BY <1>3, <2>2 DEF Image
    <2> QED BY <1>1, <1>2, <1>8, <2>1, <2>3
  <1> QED BY <1>6, <1>7, <1>8

\* The inductive invariant: while the log says whose record is whose, pages in memory hold
\* the records of committed and running transactions, and the disk those of the committed.
THEOREM RecoveryInvariant == Spec => []RecoveryInv
  <1>1. TxnInv /\ TxnInv' /\ RecoveryInv /\ [Next]_vars => RecoveryInv'
    BY RecoveryNext
  <1> QED BY <1>1, RecoveryInit, TxnInvariant, PTL DEF Spec

\* Before ids are given out again, a crash between any two writes to a file, be it in a
\* commit, in an abort, in a recovery or in the blocks of a log record (write_log_record),
\* loses nothing that committed and leaves nothing else, for clients that flush before they
\* abort.  Only a record cut off before its transaction or its place is excepted, and that
\* only if what was in memory makes another record of it.
THEOREM CrashesRecover == ASSUME FlushBeforeAbort PROVE Spec => []Recoverable
  <1>1. ASSUME TxnInv, RecoveryInv PROVE Recoverable
    <2> SUFFICES ASSUME ~Reused, log_end # "misread"
                 PROVE  RecoverableRows = RowsOf({"committed"})
      BY DEF Recoverable
    <2>1. TypeOK /\ ViewInv /\ OnceInv
      BY <1>1 DEF TxnInv, RecoveryInv, Sound, ViewInv
    <2> DEFINE page(p) == [disk[p] EXCEPT !.data = RecoveredData(p, disk[p].data)]
    <2>2. \A p \in Page : /\ page(p).slots = disk[p].slots
                          /\ page(p).data = RecoveredData(p, disk[p].data)
      BY <2>1 DEF TypeOK, PageContent
    <2>3. RecoverableRows = UNION {RowsIn(p, page(p)) : p \in Page}
      BY DEF RecoverableRows
    <2> HIDE DEF page
    <2>4. ASSUME NEW w \in RecoverableRows PROVE w \in RowsOf({"committed"})
      <3>1. PICK p \in Page : w \in RowsIn(p, page(p))
        BY <2>3
      <3>2. PICK s \in Slot : page(p).data[s] # Empty /\ w = <<p, s, page(p).data[s]>>
        BY <3>1, RowsInMember
      <3>3. PICK v : v = RecoveredData(p, disk[p].data)[s]
        OBVIOUS
      <3>4. v # Empty /\ w = <<p, s, v>>
        BY <2>2, <3>2, <3>3
      <3>5. v \in Value /\ <<p, s>> \in rows[v] /\ outcome[v] = "committed"
        BY <2>1, <3>3, <3>4, RecoveredSlot
      <3>6. InsertedBy({"committed"}, w)
        BY <3>4, <3>5 DEF InsertedBy
      <3> QED BY <2>1, <3>6, RowsOfMember
    <2>5. ASSUME NEW w \in RowsOf({"committed"}) PROVE w \in RecoverableRows
      <3> DEFINE kept == {"committed"}
      <3>0. w \in RowsOf(kept)
        OBVIOUS
      <3> HIDE DEF kept
      <3>1. PICK x \in Value, p \in Page, s \in Slot :
                 outcome[x] \in kept /\ <<p, s>> \in rows[x] /\ w = <<p, s, x>>
        <4>1. InsertedBy(kept, w)
          BY <2>1, <3>0, RowsOfMember
        <4> QED BY <4>1 DEF InsertedBy
      <3> USE DEF kept
      <3>2. s <= disk[p].slots
        BY <2>1, <3>1 DEF ViewInv, AllThere
      <3>3. PICK v : v = RecoveredData(p, disk[p].data)[s]
        OBVIOUS
      <3>4. v \in Value /\ <<p, s>> \in rows[v]
        BY <2>1, <3>1, <3>3, RecoveredSlot
      <3>5. v = x /\ x # Empty
        BY <2>1, <3>1, <3>4, EmptyIsNoValue DEF OnceInv, RowsApart
      <3>6. w \in RowsIn(p, page(p))
        BY <2>2, <3>1, <3>2, <3>3, <3>5, RowsInMember
      <3> QED BY <2>3, <3>6
    <2> QED BY <2>4, <2>5
  <1> QED BY <1>1, TxnInvariant, RecoveryInvariant, PTL

\* Between calls a scan finds what committed and running transactions inserted and nothing
\* else, whichever aborts, flushes, crashes and recoveries came before, as long as nothing
\* crashes once ids were given out again and no torn record is read as another.
THEOREM ScansAreExact ==
    ASSUME FlushBeforeAbort PROVE Spec => []((CrashAfterReuse => ~Reused) => ScanExact)
  <1>1. ASSUME TxnInv, RecoveryInv, CrashAfterReuse => ~Reused PROVE ScanExact
    <2> SUFFICES ASSUME call.op = "idle", log_end # "misread"
                 PROVE  VisibleRows = RowsOf({"committed", "active"})
      BY IdleCall DEF ScanExact
    <2>1. TypeOK /\ ViewInv
      BY <1>1 DEF TxnInv, RecoveryInv, Sound
    <2>2. /\ \A x \in Value : Kept(x) <=> outcome[x] \in {"committed", "active"}
          /\ \A x \in Value : Shown(x) <=> outcome[x] \in {"committed", "active"}
          /\ \A p, s : ~Writes(p, s)
      BY DEF Kept, Shown, Aborting, Writes
    <2>3. ASSUME NEW w \in VisibleRows PROVE w \in RowsOf({"committed", "active"})
      <3>1. PICK p \in Page : w \in RowsIn(p, Fixed(p))
        BY DEF VisibleRows
      <3>2. PICK s \in Slot : Fixed(p).data[s] # Empty /\ w = <<p, s, Fixed(p).data[s]>>
        BY <3>1, RowsInMember
      <3>3. PICK x : x = Fixed(p).data[s]
        OBVIOUS
      <3>4. x \in Value /\ w = <<p, s, x>>
        BY <2>1, <3>2, <3>3, FixedPage DEF Image
      <3>5. <<p, s>> \in rows[x] /\ outcome[x] \in {"committed", "active"}
        BY <2>1, <2>2, <3>3, <3>4 DEF ViewInv, NoStray
      <3>6. InsertedBy({"committed", "active"}, w)
        BY <3>4, <3>5 DEF InsertedBy
      <3> QED BY <2>1, <3>6, RowsOfMember
    <2>4. ASSUME NEW w \in RowsOf({"committed", "active"}) PROVE w \in VisibleRows
      <3>1. PICK x \in Value, p \in Page, s \in Slot :
                 /\ outcome[x] \in {"committed", "active"}
                 /\ <<p, s>> \in rows[x] /\ w = <<p, s, x>>
        <4>1. InsertedBy({"committed", "active"}, w)
          BY <2>1, RowsOfMember
        <4> QED BY <4>1 DEF InsertedBy
      <3>2. Fixed(p).data[s] = x /\ s <= Fixed(p).slots /\ x # Empty
        BY <2>1, <2>2, <3>1, EmptyIsNoValue DEF ViewInv, AllThere
      <3>3. w \in RowsIn(p, Fixed(p))
        BY <3>1, <3>2, RowsInMember
      <3> QED BY <3>3 DEF VisibleRows
    <2> QED BY <2>3, <2>4
  <1> QED BY <1>1, TxnInvariant, RecoveryInvariant, PTL

\* The README's claim that nothing of an aborted or crashed transaction persists holds in
\* the same circumstances; in the run that refutes it a crash follows the reuse of an id.
THEOREM LosersLeaveNothing ==
    ASSUME FlushBeforeAbort
    PROVE  Spec => []((CrashAfterReuse => ~Reused) /\ log_end # "misread" => LosersGone)
  <1>1. ASSUME TypeOK, ScanExact, log_end # "misread" PROVE LosersGone
    <2> DEFINE found == {"committed", "active"}
               lost == {"aborted", "crashed"}
    <2>1. found \cap lost = {}
      OBVIOUS
    <2>2. call = Idle => VisibleRows = RowsOf(found)
      BY <1>1 DEF ScanExact
    <2> HIDE DEF found, lost
    <2>3. RowsOf(found) \cap RowsOf(lost) = {}
      BY <1>1, <2>1, RowsOfApart
    <2>4. call = Idle => VisibleRows \cap RowsOf(lost) = {}
      BY <2>2, <2>3
    <2> QED BY <2>4 DEF LosersGone, lost
  <1> QED BY <1>1, TxnTypeCorrect, ScansAreExact, PTL

\* A commit forces its records to disk, and while ids tell transactions apart no later
\* write of a shared page, rollback or recovery takes one away, not even between two writes,
\* unless a torn record was read as another.
THEOREM CommitsStayOnDisk ==
    ASSUME FlushBeforeAbort PROVE Spec => []((CrashAfterReuse => ~Reused) => CommittedOnDisk)
  <1> DEFINE kept == {"committed"}
  <1>1. ASSUME TxnInv, RecoveryInv, CrashAfterReuse => ~Reused, log_end # "misread",
               NEW w, w \in RowsOf(kept)
        PROVE  w \in DiskRows
    <2>1. TypeOK /\ ViewInv
      BY <1>1 DEF TxnInv, RecoveryInv, Sound
    <2>2. w \in RowsOf(kept)
      BY <1>1
    <2> HIDE DEF kept
    <2>3. PICK x \in Value, p \in Page, s \in Slot :
               outcome[x] \in kept /\ <<p, s>> \in rows[x] /\ w = <<p, s, x>>
      <3>1. InsertedBy(kept, w)
        BY <2>1, <2>2, RowsOfMember
      <3> QED BY <3>1 DEF InsertedBy
    <2>4. disk[p].data[s] = x /\ s <= disk[p].slots /\ x # Empty
      BY <2>1, <2>3, EmptyIsNoValue DEF ViewInv, AllThere, kept
    <2>5. w \in RowsIn(p, disk[p])
      BY <2>3, <2>4, RowsInMember
    <2> QED BY <2>5 DEF DiskRows
  <1>2. TxnInv /\ RecoveryInv => ((CrashAfterReuse => ~Reused) => CommittedOnDisk)
    BY <1>1 DEF CommittedOnDisk
  <1> QED BY <1>2, TxnInvariant, RecoveryInvariant, PTL
=============================================================================
