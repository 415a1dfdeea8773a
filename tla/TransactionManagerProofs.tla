---------------------- MODULE TransactionManagerProofs ----------------------
(***************************************************************************)
(* What the log of lab 2 knows of the pages, for any number of             *)
(* transactions, pages and slots, with crashes between any two writes to a *)
(* file, inside log records too, and whatever clients do before an abort   *)
(* or after ids were reused.                                               *)
(*                                                                         *)
(* LoggedBeforeDisk is not inductive: what redo and rollback put into a    *)
(* page are images of the log, so they have to be logged themselves, and a *)
(* frame may hold an image that is about to be logged.                     *)
(***************************************************************************)
EXTENDS TransactionManager, Integers, FiniteSetTheorems, WellFoundedInduction, TLAPS

\* Image v of slot s of page p is the after image of an update in the log.
Logged(p, s, v) ==
    \E i \in DOMAIN log : /\ log[i].type = "UPDATE"
                          /\ log[i].page = p /\ log[i].slot = s /\ log[i].after = v

Known(p, s, v) == v = Empty \/ Logged(p, s, v)

\* Which numbers of transactions have been given out.
Numbered ==
    \E u \in 0..MaxTxns :
        /\ transaction_counter <= u
        /\ \A x \in Value : outcome[x] = "unused" <=> x > u

\* The transaction a call works for has been started, and has a number.
CallOfStarted ==
    /\ \A id \in TxnId :
          Started(id) => incarnation[id] \in Value /\ outcome[incarnation[id]] # "unused"
    /\ call.op \in {"write", "commit", "abort"} => call.txn \in TxnId /\ Started(call.txn)

\* The slot that write has changed and not yet logged.
Writes(p, s) == call.op = "write" /\ call.page = p /\ call.slot = s

DiskKnown == \A p \in Page : \A s \in Slot : Known(p, s, disk[p].data[s])

FramesKnown ==
    \A p \in Page : buffer[p] # NotBuffered =>
        \A s \in Slot : Known(p, s, buffer[p].data[s]) \/ Writes(p, s)

\* Before images, those in the log and the one of the write under way.
BeforeKnown ==
    /\ \A i \in DOMAIN log :
          log[i].type = "UPDATE" => Known(log[i].page, log[i].slot, log[i].before)
    /\ call.op = "write" =>
          /\ Known(call.page, call.slot, call.before)
          /\ buffer[call.page] # NotBuffered
          /\ buffer[call.page].data[call.slot] = incarnation[call.txn]

TxnInv ==
    /\ TypeOK
    /\ Numbered
    /\ CallOfStarted
    /\ DiskKnown
    /\ FramesKnown
    /\ BeforeKnown

-----------------------------------------------------------------------------
(* Smallest and largest elements.                                          *)

LEMMA Smallest ==
    ASSUME NEW S \in SUBSET Nat, S # {}
    PROVE  \E x \in S : \A y \in S : x <= y
  <1>1. PICK x \in S : \A y \in S : ~(<<y, x>> \in OpToRel(<, Nat))
    BY NatLessThanWellFounded, WFMin
  <1>2. \A y \in S : ~(y < x)
    BY <1>1 DEF OpToRel
  <1> QED BY <1>2

LEMMA MinFact ==
    ASSUME NEW S \in SUBSET Nat, S # {}
    PROVE  Min(S) \in S /\ \A y \in S : Min(S) <= y
  BY Smallest DEF Min

LEMMA MaxFact ==
    ASSUME NEW n \in Nat, NEW S \in SUBSET (1..n), S # {}
    PROVE  Max(S) \in S /\ \A y \in S : y <= Max(S)
  <1> DEFINE D == {n - x : x \in S}
  <1>1. D \in SUBSET Nat
    OBVIOUS
  <1>2. D # {}
    OBVIOUS
  <1>3. PICK d \in D : \A y \in D : d <= y
    <2> HIDE DEF D
    <2> QED BY <1>1, <1>2, Smallest
  <1>4. PICK x \in S : d = n - x
    OBVIOUS
  <1>5. \A y \in S : n - y \in D
    OBVIOUS
  <1> HIDE DEF D
  <1>6. ASSUME NEW y \in S PROVE x >= y
    <2>1. n - x <= n - y
      BY <1>3, <1>4, <1>5
    <2>2. x \in Nat /\ y \in Nat
      OBVIOUS
    <2> QED BY <2>1, <2>2
  <1> QED BY <1>6 DEF Max

-----------------------------------------------------------------------------
(* The log, and the images taken from it.                                  *)

LEMMA LogFacts ==
    ASSUME TypeOK
    PROVE  /\ Len(log) \in Nat /\ DOMAIN log = 1..Len(log)
           /\ \A i \in DOMAIN log : log[i] \in LogRecord
           /\ \A i \in DOMAIN log : log[i].type = "UPDATE" =>
                 /\ log[i].page \in Page /\ log[i].slot \in Slot /\ log[i].txn \in TxnId
                 /\ log[i].before \in Image /\ log[i].after \in Image
  <1>1. log \in Seq(LogRecord)
    BY DEF TypeOK
  <1>2. /\ Len(log) \in Nat /\ DOMAIN log = 1..Len(log)
        /\ \A i \in DOMAIN log : log[i] \in LogRecord
    BY <1>1
  <1>3. ASSUME NEW r \in LogRecord, r.type = "UPDATE"
        PROVE  /\ r.page \in Page /\ r.slot \in Slot /\ r.txn \in TxnId
               /\ r.before \in Image /\ r.after \in Image
    BY <1>3 DEF LogRecord
  <1> QED BY <1>2, <1>3

\* What redo makes of a page: old images, and images of the log.
LEMMA RedoImages ==
    ASSUME TypeOK, NEW p \in Page, NEW data \in [Slot -> Image]
    PROVE  /\ RedoData(p, data) \in [Slot -> Image]
           /\ \A s \in Slot : \/ RedoData(p, data)[s] = data[s]
                              \/ Logged(p, s, RedoData(p, data)[s])
  <1> SUFFICES ASSUME NEW s \in Slot
               PROVE  /\ RedoData(p, data)[s] \in Image
                      /\ \/ RedoData(p, data)[s] = data[s]
                         \/ Logged(p, s, RedoData(p, data)[s])
    BY DEF RedoData
  <1> DEFINE U == UpdatesOf(CommittedTxns, p, s)
  <1>1. RedoData(p, data)[s] = IF U = {} THEN data[s] ELSE log[Max(U)].after
    BY DEF RedoData
  <1>2. CASE U = {}
    BY <1>1, <1>2
  <1>3. CASE U # {}
    <2>1. U \in SUBSET (1..Len(log)) /\ Len(log) \in Nat
      BY LogFacts DEF UpdatesOf
    <2>2. Max(U) \in U
      BY <1>3, <2>1, MaxFact
    <2>3. /\ Max(U) \in DOMAIN log /\ log[Max(U)].type = "UPDATE"
          /\ log[Max(U)].page = p /\ log[Max(U)].slot = s
      BY <2>2 DEF UpdatesOf
    <2>4. log[Max(U)].after \in Image
      BY <2>3, LogFacts
    <2>5. Logged(p, s, log[Max(U)].after)
      BY <2>3 DEF Logged
    <2> QED BY <1>1, <1>3, <2>4, <2>5
  <1> QED BY <1>2, <1>3

\* What a rollback makes of a page: old images, and before images of the log.
LEMMA RollbackImages ==
    ASSUME TypeOK, BeforeKnown, NEW id \in TxnId, NEW p \in Page, NEW data \in [Slot -> Image]
    PROVE  /\ RollbackData(id, p, data) \in [Slot -> Image]
           /\ \A s \in Slot : \/ RollbackData(id, p, data)[s] = data[s]
                              \/ Known(p, s, RollbackData(id, p, data)[s])
  <1> SUFFICES ASSUME NEW s \in Slot
               PROVE  /\ RollbackData(id, p, data)[s] \in Image
                      /\ \/ RollbackData(id, p, data)[s] = data[s]
                         \/ Known(p, s, RollbackData(id, p, data)[s])
    BY DEF RollbackData
  <1> DEFINE U == RollbackUpdates(id, p, s)
  <1>1. RollbackData(id, p, data)[s] = IF U = {} THEN data[s] ELSE log[Min(U)].before
    BY DEF RollbackData
  <1>2. CASE U = {}
    BY <1>1, <1>2
  <1>3. CASE U # {}
    <2>1. U \in SUBSET Nat
      BY LogFacts DEF RollbackUpdates, UpdatesOf
    <2>2. Min(U) \in U
      BY <1>3, <2>1, MinFact
    <2>3. /\ Min(U) \in DOMAIN log /\ log[Min(U)].type = "UPDATE"
          /\ log[Min(U)].page = p /\ log[Min(U)].slot = s
      BY <2>2 DEF RollbackUpdates, UpdatesOf
    <2>4. log[Min(U)].before \in Image
      BY <2>3, LogFacts
    <2>5. Known(p, s, log[Min(U)].before)
      BY <2>3 DEF BeforeKnown
    <2> QED BY <1>1, <1>3, <2>4, <2>5
  <1> QED BY <1>2, <1>3

\* The log only grows.
LEMMA LogGrows ==
    ASSUME TypeOK, NEW r \in LogRecord, log' = Append(log, r)
    PROVE  /\ log' \in Seq(LogRecord)
           /\ DOMAIN log' = DOMAIN log \cup {Len(log) + 1}
           /\ Len(log) + 1 \notin DOMAIN log
           /\ \A i \in DOMAIN log : log'[i] = log[i]
           /\ log'[Len(log) + 1] = r
           /\ \A p, s, v : Logged(p, s, v) => Logged(p, s, v)'
           /\ \A p, s, v : Known(p, s, v) => Known(p, s, v)'
  <1>1. log \in Seq(LogRecord)
    BY DEF TypeOK
  <1>2. /\ log' \in Seq(LogRecord)
        /\ DOMAIN log' = DOMAIN log \cup {Len(log) + 1}
        /\ Len(log) + 1 \notin DOMAIN log
        /\ \A i \in DOMAIN log : log'[i] = log[i]
        /\ log'[Len(log) + 1] = r
    BY <1>1
  <1>3. ASSUME NEW p, NEW s, NEW v, Logged(p, s, v)
        PROVE  Logged(p, s, v)'
    BY <1>2, <1>3 DEF Logged
  <1>4. \A p, s, v : Known(p, s, v) => Known(p, s, v)'
    BY <1>3 DEF Known
  <1> QED BY <1>2, <1>3, <1>4

\* A step that does not log leaves what is known as it is.
LEMMA LogStays ==
    ASSUME UNCHANGED log
    PROVE  /\ \A p, s, v : Logged(p, s, v)' <=> Logged(p, s, v)
           /\ \A p, s, v : Known(p, s, v)' <=> Known(p, s, v)
  BY DEF Logged, Known

-----------------------------------------------------------------------------
(* The call under way.                                                     *)

LEMMA CallShape ==
    ASSUME TypeOK
    PROVE  /\ call.op = "write" =>
                 /\ call.txn \in TxnId /\ call.page \in Page /\ call.slot \in Slot
                 /\ call.before \in Image
           /\ call.op \in {"flush", "commit", "abort", "checkpoint", "undo"} =>
                 /\ call.txn \in {0} \cup TxnId /\ call.todo \subseteq Page
                 /\ \A ps \in SUBSET Page : [call EXCEPT !.todo = ps] \in Call
           /\ call.op = "undo" =>
                 /\ call.losers \subseteq TxnId
                 /\ \A id \in TxnId, ps \in SUBSET Page, ls \in SUBSET TxnId :
                       [call EXCEPT !.txn = id, !.losers = ls, !.todo = ps] \in Call
  <1> DEFINE Simple == [op : {"idle", "recovery"}]
             Flush == [op : {"flush", "commit", "abort", "checkpoint"}, txn : {0} \cup TxnId,
                       todo : SUBSET Page]
             Undoing == [op : {"undo"}, txn : {0} \cup TxnId, todo : SUBSET Page,
                         losers : SUBSET TxnId]
             Write == [op : {"write"}, txn : TxnId, page : Page, slot : Slot, before : Image]
  <1>1. call \in Simple \cup Flush \cup Undoing \cup Write
    BY DEF TypeOK, Call
  <1>2. CASE call \in Simple
    BY <1>2
  <1>3. CASE call \in Flush
    <2>1. /\ call.op \in {"flush", "commit", "abort", "checkpoint"}
          /\ call.txn \in {0} \cup TxnId /\ call.todo \subseteq Page
      BY <1>3
    <2>2. \A ps \in SUBSET Page : [call EXCEPT !.todo = ps] \in Flush
      BY <1>3
    <2> QED BY <2>1, <2>2 DEF Call
  <1>4. CASE call \in Undoing
    <2>1. /\ call.op = "undo" /\ call.losers \subseteq TxnId
          /\ call.txn \in {0} \cup TxnId /\ call.todo \subseteq Page
      BY <1>4
    <2>2. \A ps \in SUBSET Page : [call EXCEPT !.todo = ps] \in Undoing
      BY <1>4
    <2>3. \A id \in TxnId, ps \in SUBSET Page, ls \in SUBSET TxnId :
             [call EXCEPT !.txn = id, !.losers = ls, !.todo = ps] \in Undoing
      BY <1>4
    <2> QED BY <2>1, <2>2, <2>3 DEF Call
  <1>5. CASE call \in Write
    BY <1>5
  <1> QED BY <1>1, <1>2, <1>3, <1>4, <1>5

LEMMA WritingCall ==
    ASSUME NEW op \in {"flush", "commit", "abort", "checkpoint"}, NEW id \in {0} \cup TxnId,
           NEW ps \in SUBSET Page
    PROVE  Writing(op, id, ps) \in Call /\ Writing(op, id, ps).op = op
           /\ Writing(op, id, ps).txn = id
  BY DEF Writing, Call

LEMMA IdleCall == Idle \in Call /\ Idle.op = "idle"
  BY DEF Idle, Call

LEMMA FixedPage ==
    ASSUME TypeOK, NEW p \in Page
    PROVE  Fixed(p) \in PageContent /\ Fixed(p).data \in [Slot -> Image]
  BY DEF Fixed, TypeOK, PageContent

\* A frame holds known images, but for the slot that is being written.
LEMMA FixedKnown ==
    ASSUME TxnInv, call.op # "write", NEW p \in Page, NEW s \in Slot
    PROVE  Known(p, s, Fixed(p).data[s])
  BY DEF TxnInv, DiskKnown, FramesKnown, Writes, Fixed

-----------------------------------------------------------------------------
(* TxnInv is inductive.                                                    *)

LEMMA TxnInitInv == Init => TxnInv
  <1> SUFFICES ASSUME Init PROVE TxnInv
    OBVIOUS
  <1>1. BlankPage \in PageContent /\ \A s \in Slot : BlankPage.data[s] = Empty
    BY DEF BlankPage, PageContent, Image
  <1>2. log = <<>> /\ DOMAIN log = {}
    BY DEF Init
  <1>3. TypeOK
    <2>1. call \in Call
      BY IdleCall DEF Init
    <2>2. transaction_table \in [TxnId -> [started : BOOLEAN, modified : SUBSET Page]]
      BY DEF Init
    <2> QED BY <1>1, <1>2, <2>1, <2>2 DEF Init, TypeOK
  <1>4. Numbered
    <2>1. 0 \in 0..MaxTxns /\ \A x \in Value : x > 0
      BY SystemAssumption
    <2> QED BY <2>1 DEF Numbered, Init
  <1>5. CallOfStarted /\ DiskKnown /\ FramesKnown /\ BeforeKnown
    <2>1. call.op = "idle"
      BY IdleCall DEF Init
    <2> QED BY <1>1, <1>2, <2>1 DEF Init, CallOfStarted, Started, DiskKnown, FramesKnown,
                                     BeforeKnown, Known
  <1> QED BY <1>3, <1>4, <1>5 DEF TxnInv

\* Steps that only change which call is under way.
LEMMA CallChanges ==
    ASSUME TxnInv, UNCHANGED <<log, disk, buffer, memory, ghosts>>, call.op # "write",
           call' \in Call, call'.op # "write",
           call'.op \in {"commit", "abort"} => call'.txn \in TxnId /\ Started(call'.txn)
    PROVE  TxnInv'
  <1>1. UNCHANGED <<log, disk, buffer, page_count, transaction_counter, transaction_table,
                    incarnation, outcome, rows, log_end>>
    BY DEF memory, ghosts
  <1>2. \A p, s, v : Known(p, s, v)' <=> Known(p, s, v)
    BY <1>1, LogStays
  <1>3. TypeOK'
    BY <1>1 DEF TxnInv, TypeOK
  <1>4. Numbered'
    BY <1>1 DEF TxnInv, Numbered
  <1>5. CallOfStarted'
    BY <1>1 DEF TxnInv, CallOfStarted, Started
  <1>6. DiskKnown'
    BY <1>1, <1>2 DEF TxnInv, DiskKnown
  <1>7. FramesKnown'
    BY <1>1, <1>2 DEF TxnInv, FramesKnown, Writes
  <1>8. BeforeKnown'
    BY <1>1, <1>2 DEF TxnInv, BeforeKnown
  <1> QED BY <1>3, <1>4, <1>5, <1>6, <1>7, <1>8 DEF TxnInv

LEMMA ClientFlushInv ==
    ASSUME TxnInv, FlushAllPages \/ LogCheckpoint \/ FlushEnds \/ FinalFlush
    PROVE  TxnInv'
  <1>1. ToFlush(Page, buffer) \in SUBSET Page
    BY DEF ToFlush
  <1>2. /\ UNCHANGED <<log, disk, buffer, memory, ghosts>>
        /\ call.op # "write"
    BY IdleCall DEF FlushAllPages, LogCheckpoint, FlushEnds, FinalFlush
  <1>3. \/ call' = Idle
        \/ call' = Writing("flush", 0, ToFlush(Page, buffer))
        \/ call' = Writing("checkpoint", 0, ToFlush(Page, buffer))
    BY DEF FlushAllPages, LogCheckpoint, FlushEnds, FinalFlush
  <1>4. call' \in Call /\ call'.op \in {"idle", "flush", "checkpoint"}
    BY <1>1, <1>3, IdleCall, WritingCall
  <1> QED BY <1>2, <1>4, CallChanges

LEMMA CommitTxnInv == ASSUME TxnInv, NEW id \in TxnId, CommitTxn(id) PROVE TxnInv'
  <1> DEFINE ps == ToFlush(transaction_table[id].modified, buffer)
  <1>1. ps \in SUBSET Page
    BY DEF ToFlush, TxnInv, TypeOK
  <1>2. /\ UNCHANGED <<log, disk, buffer, memory, ghosts>>
        /\ call.op # "write" /\ Started(id) /\ call' = Writing("commit", id, ps)
    BY IdleCall DEF CommitTxn
  <1>3. call' \in Call /\ call'.op = "commit" /\ call'.txn = id
    <2>1. id \in {0} \cup TxnId
      OBVIOUS
    <2> HIDE DEF ps
    <2> QED BY <1>1, <1>2, <2>1, WritingCall
  <1> QED BY <1>2, <1>3, CallChanges

\* Steps that change the frames to known images.
LEMMA FramesChange ==
    ASSUME TxnInv, UNCHANGED <<log, disk, memory, ghosts>>, call.op # "write",
           buffer' \in [Page -> PageContent \cup {NotBuffered}],
           \A p \in Page : buffer'[p] # NotBuffered =>
              \A s \in Slot : Known(p, s, buffer'[p].data[s]),
           call' \in Call, call'.op # "write",
           call'.op \in {"commit", "abort"} => call'.txn \in TxnId /\ Started(call'.txn)
    PROVE  TxnInv'
  <1>1. UNCHANGED <<log, disk, page_count, transaction_counter, transaction_table,
                    incarnation, outcome, rows, log_end>>
    BY DEF memory, ghosts
  <1>2. \A p, s, v : Known(p, s, v)' <=> Known(p, s, v)
    BY <1>1, LogStays
  <1>3. TypeOK'
    BY <1>1 DEF TxnInv, TypeOK
  <1>4. Numbered' /\ CallOfStarted'
    BY <1>1 DEF TxnInv, Numbered, CallOfStarted, Started
  <1>5. DiskKnown'
    BY <1>1, <1>2 DEF TxnInv, DiskKnown
  <1>6. FramesKnown'
    BY <1>2 DEF FramesKnown
  <1>7. BeforeKnown'
    BY <1>1, <1>2 DEF TxnInv, BeforeKnown
  <1> QED BY <1>3, <1>4, <1>5, <1>6, <1>7 DEF TxnInv

LEMMA RolledBackKnown ==
    ASSUME TxnInv, call.op # "write", NEW id \in TxnId,
           NEW b \in [Page -> PageContent \cup {NotBuffered}],
           \A p \in Page : b[p] # NotBuffered =>
              \A s \in Slot : Known(p, s, b[p].data[s])
    PROVE  /\ RolledBack(id, b) \in [Page -> PageContent \cup {NotBuffered}]
           /\ \A p \in Page : RolledBack(id, b)[p] # NotBuffered =>
                 \A s \in Slot : Known(p, s, RolledBack(id, b)[p].data[s])
  <1> DEFINE page(p) == IF b[p] = NotBuffered THEN disk[p] ELSE b[p]
             after(p) == [page(p) EXCEPT !.data = RollbackData(id, p, page(p).data)]
             c(p) == IF p \in RollbackPages(id) THEN after(p) ELSE b[p]
  <1>1. ASSUME NEW p \in Page
        PROVE  /\ page(p) \in PageContent /\ page(p).data \in [Slot -> Image]
               /\ \A s \in Slot : Known(p, s, page(p).data[s])
    <2>1. disk[p] \in PageContent
      BY DEF TxnInv, TypeOK
    <2>2. page(p) \in PageContent
      BY <2>1
    <2>3. \A s \in Slot : Known(p, s, page(p).data[s])
      BY DEF TxnInv, DiskKnown
    <2> QED BY <2>2, <2>3 DEF PageContent
  <1>2. ASSUME NEW p \in Page
        PROVE  /\ after(p) \in PageContent
               /\ \A s \in Slot : Known(p, s, after(p).data[s])
    <2> DEFINE d == RollbackData(id, p, page(p).data)
    <2>1. /\ d \in [Slot -> Image]
          /\ \A s \in Slot : d[s] = page(p).data[s] \/ Known(p, s, d[s])
      <3>1. TypeOK /\ BeforeKnown
        BY DEF TxnInv
      <3>2. page(p).data \in [Slot -> Image]
        BY <1>1
      <3> HIDE DEF page
      <3> QED BY <3>1, <3>2, RollbackImages
    <2>2. page(p) \in PageContent /\ \A s \in Slot : Known(p, s, page(p).data[s])
      BY <1>1
    <2>3. after(p) = [page(p) EXCEPT !.data = d]
      OBVIOUS
    <2> HIDE DEF d, page, after
    <2>4. after(p) \in PageContent /\ after(p).data = d
      BY <2>1, <2>2, <2>3 DEF PageContent
    <2>5. ASSUME NEW s \in Slot PROVE Known(p, s, d[s])
      <3>1. CASE d[s] = page(p).data[s]
        BY <2>2, <3>1
      <3>2. CASE Known(p, s, d[s])
        BY <3>2
      <3> QED BY <2>1, <3>1, <3>2
    <2> QED BY <2>4, <2>5
  <1>3. RolledBack(id, b) = [p \in Page |-> c(p)]
    BY DEF RolledBack
  <1>4. ASSUME NEW p \in Page
        PROVE  /\ c(p) \in PageContent \cup {NotBuffered}
               /\ c(p) # NotBuffered => \A s \in Slot : Known(p, s, c(p).data[s])
    <2> HIDE DEF page, after
    <2> QED BY <1>2
  <1> HIDE DEF c
  <1> QED BY <1>3, <1>4

LEMMA AbortTxnInv == ASSUME TxnInv, NEW id \in TxnId, AbortTxn(id) PROVE TxnInv'
  <1> DEFINE d == Discarded(transaction_table[id].modified)
             b == RolledBack(id, d)
  <1>1. /\ UNCHANGED <<log, disk, memory, ghosts>> /\ call.op # "write" /\ Started(id)
        /\ buffer' = b /\ call' = Writing("abort", id, ToFlush(Page, b))
    BY IdleCall DEF AbortTxn
  <1>2. /\ d \in [Page -> PageContent \cup {NotBuffered}]
        /\ \A p \in Page : d[p] # NotBuffered => d[p] = buffer[p]
    BY DEF Discarded, TxnInv, TypeOK
  <1>3. \A p \in Page : d[p] # NotBuffered => \A s \in Slot : Known(p, s, d[p].data[s])
    <2> HIDE DEF d
    <2> QED BY <1>1, <1>2 DEF TxnInv, FramesKnown, Writes
  <1>4. /\ b \in [Page -> PageContent \cup {NotBuffered}]
        /\ \A p \in Page : b[p] # NotBuffered => \A s \in Slot : Known(p, s, b[p].data[s])
    <2> HIDE DEF d
    <2> QED BY <1>1, <1>2, <1>3, RolledBackKnown
  <1>5. call' \in Call /\ call'.op = "abort" /\ call'.txn = id
    <2>1. id \in {0} \cup TxnId /\ ToFlush(Page, b) \in SUBSET Page
      BY DEF ToFlush
    <2> HIDE DEF b
    <2> QED BY <1>1, <2>1, WritingCall
  <1> HIDE DEF b
  <1> QED BY <1>1, <1>4, <1>5, FramesChange

LEMMA RedoInv == ASSUME TxnInv, Redo PROVE TxnInv'
  <1> DEFINE redone(p) == [Fixed(p) EXCEPT !.data = RedoData(p, Fixed(p).data)]
             b(p) == IF p \in RedoPages THEN redone(p) ELSE buffer[p]
  <1>1. /\ UNCHANGED <<log, disk, memory, ghosts>> /\ call.op = "recovery"
        /\ buffer' = [p \in Page |-> b(p)]
        /\ call' = [op |-> "undo", txn |-> 0, todo |-> {}, losers |-> ActiveTxns]
    BY DEF Redo
  <1>2. ASSUME NEW p \in Page
        PROVE  redone(p) \in PageContent /\ \A s \in Slot : Known(p, s, redone(p).data[s])
    <2> DEFINE d == RedoData(p, Fixed(p).data)
    <2>1. TypeOK
      BY DEF TxnInv
    <2>2. Fixed(p) \in PageContent /\ Fixed(p).data \in [Slot -> Image]
      BY <2>1, FixedPage
    <2>3. /\ d \in [Slot -> Image]
          /\ \A s \in Slot : d[s] = Fixed(p).data[s] \/ Logged(p, s, d[s])
      BY <2>1, <2>2, RedoImages
    <2>4. \A s \in Slot : Known(p, s, Fixed(p).data[s])
      BY <1>1, FixedKnown
    <2>5. redone(p) = [Fixed(p) EXCEPT !.data = d]
      OBVIOUS
    <2> HIDE DEF d, redone
    <2>6. redone(p) \in PageContent /\ redone(p).data = d
      BY <2>2, <2>3, <2>5 DEF PageContent
    <2>7. ASSUME NEW s \in Slot PROVE Known(p, s, d[s])
      <3>1. CASE d[s] = Fixed(p).data[s]
        BY <2>4, <3>1
      <3>2. CASE Logged(p, s, d[s])
        BY <3>2 DEF Known
      <3> QED BY <2>3, <3>1, <3>2
    <2> QED BY <2>6, <2>7
  <1>3. ASSUME NEW p \in Page
        PROVE  /\ b(p) \in PageContent \cup {NotBuffered}
               /\ b(p) # NotBuffered => \A s \in Slot : Known(p, s, b(p).data[s])
    <2> HIDE DEF redone
    <2>1. buffer[p] \in PageContent \cup {NotBuffered}
      BY DEF TxnInv, TypeOK
    <2>2. buffer[p] # NotBuffered => \A s \in Slot : Known(p, s, buffer[p].data[s])
      BY <1>1 DEF TxnInv, FramesKnown, Writes
    <2> QED BY <1>2, <2>1, <2>2
  <1>4. call' \in Call /\ call'.op = "undo"
    BY <1>1 DEF Call, ActiveTxns
  <1> HIDE DEF b
  <1>5. /\ buffer' \in [Page -> PageContent \cup {NotBuffered}]
        /\ \A p \in Page : buffer'[p] # NotBuffered =>
              \A s \in Slot : Known(p, s, buffer'[p].data[s])
    BY <1>1, <1>3
  <1> QED BY <1>1, <1>4, <1>5, FramesChange

LEMMA UndoInv == ASSUME TxnInv, Undo PROVE TxnInv'
  <1> DEFINE id == Min(call.losers)
             b == RolledBack(id, buffer)
  <1>1. /\ UNCHANGED <<log, disk, memory, ghosts>> /\ call.op = "undo"
        /\ call.losers # {} /\ buffer' = b
        /\ call' = [call EXCEPT !.txn = id, !.losers = @ \ {id}, !.todo = ToFlush(Page, b)]
    BY DEF Undo
  <1>2. call.losers \subseteq TxnId
    BY <1>1, CallShape DEF TxnInv
  <1>3. id \in call.losers /\ id \in TxnId
    <2>1. call.losers \in SUBSET Nat
      BY <1>2, LogAssumption
    <2> QED BY <1>1, <1>2, <2>1, MinFact
  <1>4. /\ buffer \in [Page -> PageContent \cup {NotBuffered}]
        /\ \A p \in Page : buffer[p] # NotBuffered =>
              \A s \in Slot : Known(p, s, buffer[p].data[s])
    BY <1>1 DEF TxnInv, TypeOK, FramesKnown, Writes
  <1>5. /\ b \in [Page -> PageContent \cup {NotBuffered}]
        /\ \A p \in Page : b[p] # NotBuffered => \A s \in Slot : Known(p, s, b[p].data[s])
    <2> HIDE DEF id
    <2> QED BY <1>1, <1>3, <1>4, RolledBackKnown
  <1>6. call' \in Call /\ call'.op = "undo"
    <2> DEFINE ls == call.losers \ {id}
               ps == ToFlush(Page, b)
    <2>1. ps \in SUBSET Page /\ ls \in SUBSET TxnId
      BY <1>2 DEF ToFlush
    <2>2. call' = [call EXCEPT !.txn = id, !.losers = ls, !.todo = ps]
      BY <1>1
    <2> HIDE DEF id, ls, ps
    <2>3. [call EXCEPT !.txn = id, !.losers = ls, !.todo = ps] \in Call
      BY <1>1, <1>3, <2>1, CallShape DEF TxnInv
    <2>4. call.op = "undo" => [call EXCEPT !.txn = id, !.losers = ls, !.todo = ps].op = "undo"
      BY <1>1
    <2> QED BY <1>1, <2>2, <2>3, <2>4
  <1> HIDE DEF b
  <1> QED BY <1>1, <1>5, <1>6, FramesChange

LEMMA StartTxnInv == ASSUME TxnInv, StartTxn PROVE TxnInv'
  <1> DEFINE id == transaction_counter + 1
             unused == {x \in Value : outcome[x] = "unused"}
             x0 == Min(unused)
             r == [type |-> "BEGIN", txn |-> id]
  <1>1. /\ call.op = "idle" /\ unused # {}
        /\ transaction_counter' = id
        /\ transaction_table' = [transaction_table EXCEPT
                                   ![id] = [started |-> TRUE, modified |-> {}]]
        /\ log' = Append(log, r)
        /\ incarnation' = [incarnation EXCEPT ![id] = x0]
        /\ outcome' = [outcome EXCEPT ![x0] = "active"]
        /\ UNCHANGED <<disk, buffer, call, page_count, rows, log_end>>
    BY IdleCall DEF StartTxn, LogOf, WriteLogRecord
  <1>2. TypeOK /\ Numbered /\ CallOfStarted
    BY DEF TxnInv
  <1>3. PICK u \in 0..MaxTxns : /\ transaction_counter <= u
                                /\ \A x \in Value : outcome[x] = "unused" <=> x > u
    BY <1>2 DEF Numbered
  <1>4. x0 \in unused /\ \A y \in unused : x0 <= y
    <2>1. unused \in SUBSET Nat
      BY SystemAssumption
    <2> HIDE DEF unused
    <2> QED BY <1>1, <2>1, MinFact
  <1>5. x0 = u + 1 /\ u + 1 \in 0..MaxTxns /\ x0 \in Value
    <2>1. x0 \in Value /\ x0 > u /\ Value = 1..MaxTxns /\ MaxTxns \in Nat /\ u \in Nat
      BY <1>3, <1>4, SystemAssumption
    <2>2. u + 1 \in Value
      <3> HIDE DEF x0
      <3> QED BY <2>1
    <2>3. u + 1 \in unused
      BY <1>3, <2>1, <2>2
    <2>4. x0 <= u + 1
      BY <1>4, <2>3
    <2> HIDE DEF x0, unused
    <2> QED BY <2>1, <2>2, <2>4
  <1>6. id \in TxnId
    <2>1. transaction_counter \in {0} \cup TxnId /\ TxnId = 1..MaxTxns /\ MaxTxns \in Nat
      BY <1>2, SystemAssumption DEF TypeOK
    <2> QED BY <1>3, <1>5, <2>1
  <1>7. r \in LogRecord
    BY <1>6 DEF LogRecord
  <1> HIDE DEF id, unused, x0, r
  <1>8. /\ log' \in Seq(LogRecord)
        /\ \A p, s, v : Known(p, s, v) => Known(p, s, v)'
        /\ DOMAIN log' = DOMAIN log \cup {Len(log) + 1}
        /\ \A i \in DOMAIN log : log'[i] = log[i]
        /\ log'[Len(log) + 1] = r
    BY <1>1, <1>2, <1>7, LogGrows
  <1>9. TypeOK'
    <2>1. transaction_table' \in [TxnId -> [started : BOOLEAN, modified : SUBSET Page]]
      BY <1>1, <1>2 DEF TypeOK
    <2>2. /\ incarnation' \in [TxnId -> {0} \cup Value]
          /\ outcome' \in [Value -> {"unused", "active", "committed", "aborted", "crashed"}]
      BY <1>1, <1>2, <1>5 DEF TypeOK
    <2> QED BY <1>1, <1>2, <1>6, <1>8, <2>1, <2>2 DEF TypeOK
  <1>10. Numbered'
    <2>1. transaction_counter' <= u + 1
      <3>1. transaction_counter \in Nat /\ u \in Nat
        BY <1>2, <1>3, LogAssumption DEF TypeOK
      <3> QED BY <1>1, <1>3, <3>1 DEF id
    <2>2. ASSUME NEW x \in Value PROVE outcome'[x] = "unused" <=> x > u + 1
      <3>1. x \in Nat /\ u \in Nat
        BY <1>3, SystemAssumption
      <3>2. outcome \in [Value -> {"unused", "active", "committed", "aborted", "crashed"}]
        BY <1>2 DEF TypeOK
      <3>3. CASE x = u + 1
        BY <1>1, <1>5, <3>1, <3>2, <3>3
      <3>4. CASE x # u + 1
        <4>1. outcome'[x] = outcome[x]
          BY <1>1, <1>5, <3>2, <3>4
        <4>2. x > u <=> x > u + 1
          BY <3>1, <3>4
        <4> QED BY <1>3, <4>1, <4>2
      <3> QED BY <3>3, <3>4
    <2> QED BY <1>5, <2>1, <2>2 DEF Numbered
  <1>11. CallOfStarted'
    <2>1. ASSUME NEW i \in TxnId, Started(i)'
          PROVE  incarnation'[i] \in Value /\ outcome'[incarnation'[i]] # "unused"
      <3>1. CASE i = id
        BY <1>1, <1>2, <1>5, <1>6, <3>1 DEF TypeOK
      <3>2. CASE i # id
        <4>1. Started(i) /\ incarnation'[i] = incarnation[i]
          BY <1>1, <1>2, <2>1, <3>2 DEF TypeOK, Started
        <4> QED BY <1>1, <1>2, <4>1 DEF TypeOK, CallOfStarted
      <3> QED BY <3>1, <3>2
    <2> QED BY <1>1, <2>1 DEF CallOfStarted
  <1>12. DiskKnown'
    BY <1>1, <1>8 DEF TxnInv, DiskKnown
  <1>13. FramesKnown'
    BY <1>1, <1>8 DEF TxnInv, FramesKnown, Writes
  <1>14. BeforeKnown'
    <2>1. r.type # "UPDATE"
      BY DEF r
    <2> QED BY <1>1, <1>8, <2>1 DEF TxnInv, BeforeKnown
  <1> QED BY <1>9, <1>10, <1>11, <1>12, <1>13, <1>14 DEF TxnInv

\* The page a record goes into, and the slot it gets.
LEMMA NextSlot ==
    ASSUME TxnInv, NEW p \in Page, p = AllocatedPage,
           NEW page, page = IF p = page_count THEN [Fixed(p) EXCEPT !.made = TRUE, !.slots = 0]
                            ELSE Fixed(p)
    PROVE  page \in PageContent /\ page.data = Fixed(p).data /\ page.slots + 1 \in Slot
  <1> DEFINE open == {q \in Page : q < page_count /\ HasSpace(q)}
  <1>1. Fixed(p) \in PageContent
    BY FixedPage DEF TxnInv
  <1>2. page \in PageContent /\ page.data = Fixed(p).data
    BY <1>1 DEF PageContent
  <1>3. Cardinality(Slot) \in Nat /\ Slot = 1..Cardinality(Slot) /\ 1 \in Slot
    <2>1. Cardinality(Slot) \in Nat
      BY SystemAssumption, FS_CardinalityType
    <2>2. Slot = 1..Cardinality(Slot) /\ Slot # {}
      BY SystemAssumption
    <2> QED BY <2>1, <2>2
  <1>4. CASE p = page_count
    <2>1. page.slots = 0
      BY <1>1, <1>4 DEF PageContent
    <2> QED BY <1>2, <1>3, <2>1
  <1>5. CASE p # page_count
    <2>1. open # {} /\ p = Min(open)
      BY <1>5 DEF AllocatedPage
    <2>2. open \in SUBSET Nat
      <3>1. Cardinality(Page) \in Nat /\ Page = 0..(Cardinality(Page) - 1)
        BY SystemAssumption, FS_CardinalityType
      <3> QED BY <3>1
    <2>3. p \in open
      <3> HIDE DEF open
      <3> QED BY <2>1, <2>2, MinFact
    <2>4. page = Fixed(p) /\ page.slots < Cardinality(Slot) /\ page.slots \in {0} \cup Slot
      BY <1>1, <1>5, <2>3 DEF HasSpace, PageContent
    <2>5. page.slots + 1 \in Slot
      <3> HIDE DEF open
      <3> QED BY <1>3, <2>4
    <2> QED BY <1>2, <2>5
  <1> QED BY <1>4, <1>5

LEMMA InsertRowInv == ASSUME TxnInv, NEW id \in TxnId, InsertRow(id) PROVE TxnInv'
  <1> DEFINE p == AllocatedPage
             page == IF p = page_count THEN [Fixed(p) EXCEPT !.made = TRUE, !.slots = 0]
                     ELSE Fixed(p)
             s == page.slots + 1
             new == [page EXCEPT !.slots = s, !.data[s] = incarnation[id]]
  <1>1. /\ call.op = "idle" /\ Started(id) /\ p \in Page
        /\ page_count' = IF p = page_count THEN page_count + 1 ELSE page_count
        /\ buffer' = [buffer EXCEPT ![p] = new]
        /\ call' = [op |-> "write", txn |-> id, page |-> p, slot |-> s,
                    before |-> page.data[s]]
        /\ UNCHANGED <<log, disk, transaction_counter, transaction_table,
                       incarnation, outcome, rows, log_end>>
    BY IdleCall DEF InsertRow, ghosts
  <1>2. TypeOK /\ CallOfStarted
    BY DEF TxnInv
  <1>3. page \in PageContent /\ page.data = Fixed(p).data /\ s \in Slot
    <2>1. page = IF p = page_count THEN [Fixed(p) EXCEPT !.made = TRUE, !.slots = 0]
                 ELSE Fixed(p)
      OBVIOUS
    <2>2. p = AllocatedPage
      OBVIOUS
    <2> HIDE DEF p, page
    <2> QED BY <1>1, <2>1, <2>2, NextSlot
  <1>4. \A t \in Slot : Known(p, t, page.data[t])
    <2> HIDE DEF p, page
    <2> QED BY <1>1, <1>3, FixedKnown
  <1>5. incarnation[id] \in Value
    BY <1>1, <1>2 DEF CallOfStarted
  <1> HIDE DEF p, s
  <1>6. /\ new \in PageContent /\ new.data[s] = incarnation[id]
        /\ \A t \in Slot : t # s => new.data[t] = page.data[t]
    <2> HIDE DEF page
    <2> QED BY <1>3, <1>5 DEF PageContent, Image
  <1>7. page.data[s] \in Image
    <2> HIDE DEF page
    <2> QED BY <1>3 DEF PageContent
  <1> HIDE DEF page, new
  <1>8. \A q, t, v : Known(q, t, v)' <=> Known(q, t, v)
    BY <1>1, LogStays
  <1>9. call' \in Call
    BY <1>1, <1>3, <1>7 DEF Call
  <1>10. /\ call'.op = "write" /\ call'.txn = id /\ call'.page = p /\ call'.slot = s
         /\ call'.before = page.data[s]
    BY <1>1
  <1>11. /\ buffer'[p] = new
         /\ \A q \in Page : q # p => buffer'[q] = buffer[q]
    BY <1>1, <1>2 DEF TypeOK
  <1>12. TypeOK'
    BY <1>1, <1>2, <1>6, <1>9 DEF TypeOK
  <1>13. Numbered'
    BY <1>1 DEF TxnInv, Numbered
  <1>14. CallOfStarted'
    BY <1>1, <1>10 DEF TxnInv, CallOfStarted, Started
  <1>15. DiskKnown'
    BY <1>1, <1>8 DEF TxnInv, DiskKnown
  <1>16. FramesKnown'
    <2> SUFFICES ASSUME NEW q \in Page, buffer'[q] # NotBuffered, NEW t \in Slot
                 PROVE  Known(q, t, buffer'[q].data[t]) \/ Writes(q, t)'
      BY <1>8 DEF FramesKnown
    <2>1. CASE q = p /\ t = s
      BY <1>10, <2>1 DEF Writes
    <2>2. CASE q = p /\ t # s
      BY <1>4, <1>6, <1>11, <2>2
    <2>3. CASE q # p
      BY <1>1, <1>11, <2>3 DEF TxnInv, FramesKnown, Writes
    <2> QED BY <2>1, <2>2, <2>3
  <1>17. BeforeKnown'
    <2>1. /\ buffer'[call'.page] # NotBuffered
          /\ buffer'[call'.page].data[call'.slot] = incarnation'[call'.txn]
      BY <1>1, <1>6, <1>10, <1>11, SystemAssumption
    <2>2. Known(call'.page, call'.slot, call'.before)
      BY <1>3, <1>4, <1>10
    <2>3. Known(call.page, call.slot, call.before)'
      BY <1>8, <2>2
    <2>4. \A i \in DOMAIN log' : log'[i].type = "UPDATE" =>
             Known(log'[i].page, log'[i].slot, log'[i].before)
      BY <1>1 DEF TxnInv, BeforeKnown
    <2>5. \A i \in DOMAIN log' : log'[i].type = "UPDATE" =>
             Known(log[i].page, log[i].slot, log[i].before)'
      BY <1>8, <2>4
    <2> QED BY <2>1, <2>3, <2>5 DEF BeforeKnown
  <1> QED BY <1>12, <1>13, <1>14, <1>15, <1>16, <1>17 DEF TxnInv

LEMMA LogUpdateInv == ASSUME TxnInv, LogUpdate PROVE TxnInv'
  <1> DEFINE v == incarnation[call.txn]
             r == [type |-> "UPDATE", txn |-> call.txn, page |-> call.page,
                   slot |-> call.slot, before |-> call.before, after |-> v]
  <1>1. /\ call.op = "write" /\ log' = Append(log, r)
        /\ transaction_table' = [transaction_table EXCEPT
                                   ![call.txn].modified = @ \cup {call.page}]
        /\ rows' = [rows EXCEPT ![v] = @ \cup {<<call.page, call.slot>>}]
        /\ call' = Idle /\ call'.op = "idle" /\ call' \in Call
        /\ UNCHANGED <<disk, buffer, page_count, transaction_counter, incarnation, outcome,
                       log_end>>
    BY IdleCall DEF LogUpdate, LogUpdateOf, WriteLogRecord
  <1>2. TypeOK /\ CallOfStarted /\ BeforeKnown
    BY DEF TxnInv
  <1>3. /\ call.txn \in TxnId /\ call.page \in Page /\ call.slot \in Slot
        /\ call.before \in Image /\ Started(call.txn) /\ v \in Value
    BY <1>1, <1>2, CallShape DEF CallOfStarted
  <1>4. r \in LogRecord
    BY <1>3 DEF LogRecord, Image
  <1>5. /\ r.type = "UPDATE" /\ r.page = call.page /\ r.slot = call.slot
        /\ r.before = call.before /\ r.after = v
    OBVIOUS
  <1> HIDE DEF r, v
  <1>6. /\ log' \in Seq(LogRecord)
        /\ \A q, t, w : Known(q, t, w) => Known(q, t, w)'
        /\ DOMAIN log' = DOMAIN log \cup {Len(log) + 1}
        /\ \A i \in DOMAIN log : log'[i] = log[i]
        /\ log'[Len(log) + 1] = r
    BY <1>1, <1>2, <1>4, LogGrows
  <1>8. TypeOK'
    <2>1. transaction_table' \in [TxnId -> [started : BOOLEAN, modified : SUBSET Page]]
      BY <1>1, <1>2, <1>3 DEF TypeOK
    <2>2. rows' \in [Value -> SUBSET (Page \X Slot)]
      BY <1>1, <1>2, <1>3 DEF TypeOK
    <2> QED BY <1>1, <1>2, <1>6, <2>1, <2>2 DEF TypeOK
  <1>9. Numbered'
    BY <1>1 DEF TxnInv, Numbered
  <1>10. CallOfStarted'
    <2>1. \A id \in TxnId : transaction_table'[id].started = transaction_table[id].started
      BY <1>1, <1>2 DEF TypeOK
    <2> QED BY <1>1, <1>2, <2>1 DEF CallOfStarted, Started
  <1>11. DiskKnown'
    BY <1>1, <1>6 DEF TxnInv, DiskKnown
  <1>12. FramesKnown'
    <2> SUFFICES ASSUME NEW q \in Page, buffer[q] # NotBuffered, NEW t \in Slot,
                        NEW w, w = buffer[q].data[t]
                 PROVE  Known(q, t, w)'
      BY <1>1 DEF FramesKnown
    <2>1. CASE Writes(q, t)
      <3>1. w = v
        BY <1>2, <2>1 DEF BeforeKnown, Writes, v
      <3>2. \A x : x = v => Known(q, t, x)'
        BY <1>5, <1>6, <2>1 DEF Logged, Known, Writes
      <3> QED BY <3>1, <3>2
    <2>2. CASE ~Writes(q, t)
      BY <1>6, <2>2 DEF TxnInv, FramesKnown
    <2> QED BY <2>1, <2>2
  <1>13. BeforeKnown'
    <2> SUFFICES ASSUME NEW i \in DOMAIN log', log'[i].type = "UPDATE",
                        NEW q, NEW t, NEW w,
                        q = log'[i].page, t = log'[i].slot, w = log'[i].before
                 PROVE  Known(q, t, w)'
      BY <1>1 DEF BeforeKnown
    <2>1. Known(q, t, w)
      BY <1>1, <1>2, <1>5, <1>6 DEF BeforeKnown
    <2> QED BY <1>6, <2>1
  <1> QED BY <1>8, <1>9, <1>10, <1>11, <1>12, <1>13 DEF TxnInv

\* Steps that write a record of another type and end a call.
LEMMA RecordWritten ==
    ASSUME TxnInv, call.op # "write", NEW r \in LogRecord, r.type # "UPDATE",
           log' = Append(log, r), call' = Idle,
           UNCHANGED <<disk, buffer, page_count, transaction_counter, incarnation, rows, log_end>>,
           transaction_table' \in [TxnId -> [started : BOOLEAN, modified : SUBSET Page]],
           \A id \in TxnId : Started(id)' => Started(id),
           outcome' \in [Value -> {"unused", "active", "committed", "aborted", "crashed"}],
           \A x \in Value : outcome'[x] = "unused" <=> outcome[x] = "unused"
    PROVE  TxnInv'
  <1>1. TypeOK
    BY DEF TxnInv
  <1>2. /\ log' \in Seq(LogRecord)
        /\ \A q, t, w : Known(q, t, w) => Known(q, t, w)'
        /\ DOMAIN log' = DOMAIN log \cup {Len(log) + 1}
        /\ \A i \in DOMAIN log : log'[i] = log[i]
        /\ log'[Len(log) + 1] = r
    BY <1>1, LogGrows
  <1>3. call' \in Call /\ call'.op = "idle"
    BY IdleCall
  <1>4. TypeOK'
    BY <1>1, <1>2, <1>3 DEF TypeOK
  <1>5. Numbered'
    BY DEF TxnInv, Numbered
  <1>6. CallOfStarted'
    BY <1>3 DEF TxnInv, CallOfStarted
  <1>7. DiskKnown'
    BY <1>2 DEF TxnInv, DiskKnown
  <1>8. FramesKnown'
    BY <1>2 DEF TxnInv, FramesKnown, Writes
  <1>9. BeforeKnown'
    BY <1>2, <1>3 DEF TxnInv, BeforeKnown
  <1> QED BY <1>4, <1>5, <1>6, <1>7, <1>8, <1>9 DEF TxnInv

LEMMA EndsInv ==
    ASSUME TxnInv, NEW id, NEW type, NEW result, call.op \in {"commit", "abort"}, id = call.txn,
           type \in {"COMMIT", "ABORT"}, result \in {"committed", "aborted"},
           Ends(id, type, result)
    PROVE  TxnInv'
  <1> DEFINE r == [type |-> type, txn |-> id]
  <1>1. /\ log' = Append(log, r) /\ call' = Idle
        /\ transaction_table' = [transaction_table EXCEPT ![id].started = FALSE]
        /\ outcome' = [outcome EXCEPT ![incarnation[id]] = result]
        /\ UNCHANGED <<disk, buffer, page_count, transaction_counter, incarnation, rows, log_end>>
    BY DEF Ends, LogOf, WriteLogRecord
  <1>2. TypeOK /\ id \in TxnId /\ outcome[incarnation[id]] # "unused"
    BY DEF TxnInv, CallOfStarted
  <1>3. r \in LogRecord /\ r.type # "UPDATE"
    BY <1>2 DEF LogRecord
  <1>4. /\ transaction_table' \in [TxnId -> [started : BOOLEAN, modified : SUBSET Page]]
        /\ \A i \in TxnId : Started(i)' => Started(i)
    BY <1>1, <1>2 DEF TypeOK, Started
  <1>5. /\ outcome' \in [Value -> {"unused", "active", "committed", "aborted", "crashed"}]
        /\ \A x \in Value : outcome'[x] = "unused" <=> outcome[x] = "unused"
    BY <1>1, <1>2 DEF TypeOK
  <1> HIDE DEF r
  <1> QED BY <1>1, <1>3, <1>4, <1>5, RecordWritten

LEMMA RecordsInv == ASSUME TxnInv, LogCommit \/ LogAbort \/ CheckpointEnds PROVE TxnInv'
  <1>1. CASE LogCommit
    <2>1. call.op = "commit" /\ Ends(call.txn, "COMMIT", "committed")
      BY <1>1 DEF LogCommit
    <2> QED BY <2>1, EndsInv
  <1>2. CASE LogAbort
    <2>1. call.op = "abort" /\ Ends(call.txn, "ABORT", "aborted")
      BY <1>2 DEF LogAbort
    <2> QED BY <2>1, EndsInv
  <1>3. CASE CheckpointEnds
    <2> DEFINE r == [type |-> "CHECKPOINT", txn |-> 0]
    <2>1. /\ call.op = "checkpoint" /\ log' = Append(log, r) /\ call' = Idle
          /\ UNCHANGED <<disk, buffer, page_count, transaction_counter, transaction_table,
                         incarnation, outcome, rows, log_end>>
      BY <1>3 DEF CheckpointEnds, LogOf, WriteLogRecord, memory, ghosts
    <2>2. r \in LogRecord /\ r.type # "UPDATE"
      BY DEF LogRecord
    <2> HIDE DEF r
    <2>3. /\ transaction_table' \in [TxnId -> [started : BOOLEAN, modified : SUBSET Page]]
          /\ \A id \in TxnId : Started(id)' => Started(id)
          /\ outcome' \in [Value -> {"unused", "active", "committed", "aborted", "crashed"}]
      BY <2>1 DEF TxnInv, TypeOK, Started
    <2> QED BY <2>1, <2>2, <2>3, RecordWritten
  <1> QED BY <1>1, <1>2, <1>3

LEMMA FlushFrameInv == ASSUME TxnInv, FlushFrame PROVE TxnInv'
  <1>1. PICK p \in call.todo : /\ disk' = [disk EXCEPT ![p] = Fixed(p)]
                               /\ call' = [call EXCEPT !.todo = @ \ {p}]
    BY DEF FlushFrame
  <1>2. /\ call.op \in {"flush", "commit", "abort", "checkpoint", "undo"}
        /\ UNCHANGED <<log, buffer, page_count, transaction_counter, transaction_table,
                       incarnation, outcome, rows, log_end>>
    BY DEF FlushFrame, memory, ghosts
  <1>3. TypeOK
    BY DEF TxnInv
  <1>4. p \in Page
    BY <1>1, <1>2, <1>3, CallShape
  <1>5. /\ call' \in Call /\ call'.op = call.op /\ call'.txn = call.txn
    <2> DEFINE ps == call.todo \ {p}
    <2>1. ps \in SUBSET Page /\ call' = [call EXCEPT !.todo = ps]
      BY <1>1, <1>2, <1>3, CallShape
    <2> HIDE DEF ps
    <2>2. [call EXCEPT !.todo = ps] \in Call
      BY <1>2, <1>3, <2>1, CallShape
    <2>3. call \in Call
      BY <1>3 DEF TypeOK
    <2>4. [call EXCEPT !.todo = ps].op = call.op /\ [call EXCEPT !.todo = ps].txn = call.txn
      BY <1>2, <2>3 DEF Call
    <2> QED BY <2>1, <2>2, <2>4
  <1>6. Fixed(p) \in PageContent /\ \A s \in Slot : Known(p, s, Fixed(p).data[s])
    BY <1>2, <1>3, <1>4, FixedPage, FixedKnown
  <1>7. \A q, s, v : Known(q, s, v)' <=> Known(q, s, v)
    BY <1>2, LogStays
  <1>8. TypeOK'
    BY <1>1, <1>2, <1>3, <1>4, <1>5, <1>6 DEF TypeOK
  <1>9. Numbered' /\ CallOfStarted'
    BY <1>2, <1>5 DEF TxnInv, Numbered, CallOfStarted, Started
  <1>10. DiskKnown'
    <2> SUFFICES ASSUME NEW q \in Page, NEW s \in Slot, NEW v, v = disk'[q].data[s]
                 PROVE  Known(q, s, v)
      BY <1>7 DEF DiskKnown
    <2>1. CASE q = p
      BY <1>1, <1>3, <1>4, <1>6, <2>1 DEF TypeOK
    <2>2. CASE q # p
      <3>1. disk'[q] = disk[q]
        BY <1>1, <1>3, <2>2 DEF TypeOK
      <3> QED BY <3>1 DEF TxnInv, DiskKnown
    <2> QED BY <2>1, <2>2
  <1>11. FramesKnown'
    BY <1>2, <1>7 DEF TxnInv, FramesKnown, Writes
  <1>12. BeforeKnown'
    BY <1>2, <1>5, <1>7 DEF TxnInv, BeforeKnown
  <1> QED BY <1>8, <1>9, <1>10, <1>11, <1>12 DEF TxnInv

\* A crash, with a log that keeps what it had and may have got an insert or another record.
LEMMA ResetInv ==
    ASSUME TxnInv, Reset, log' \in Seq(LogRecord),
           \A q, s, v : Known(q, s, v) => Known(q, s, v)',
           \A i \in DOMAIN log' : log'[i].type = "UPDATE" =>
              Known(log'[i].page, log'[i].slot, log'[i].before),
           rows' \in [Value -> SUBSET (Page \X Slot)], log_end' \in {"whole", "torn", "misread"}
    PROVE  TxnInv'
  <1>1. /\ UNCHANGED <<disk, page_count>>
        /\ buffer' = [p \in Page |-> NotBuffered]
        /\ transaction_counter' = 0
        /\ transaction_table' = [id \in TxnId |-> [started |-> FALSE, modified |-> {}]]
        /\ call' = [op |-> "recovery"]
        /\ incarnation' = [id \in TxnId |-> 0]
        /\ outcome' = [x \in Value |-> IF outcome[x] = "active" THEN "crashed" ELSE outcome[x]]
    BY DEF Reset, Discarded
  <1>2. TypeOK /\ Numbered
    BY DEF TxnInv
  <1>3. call' \in Call /\ call'.op = "recovery"
    BY <1>1 DEF Call
  <1>5. TypeOK'
    <2>1. transaction_table' \in [TxnId -> [started : BOOLEAN, modified : SUBSET Page]]
      BY <1>1
    <2>2. outcome' \in [Value -> {"unused", "active", "committed", "aborted", "crashed"}]
      BY <1>1, <1>2 DEF TypeOK
    <2> QED BY <1>1, <1>2, <1>3, <2>1, <2>2 DEF TypeOK
  <1>6. Numbered'
    <2>1. PICK u \in 0..MaxTxns : \A x \in Value : outcome[x] = "unused" <=> x > u
      BY <1>2 DEF Numbered
    <2>2. \A x \in Value : outcome'[x] = "unused" <=> x > u
      BY <1>1, <2>1
    <2>3. 0 <= u
      BY SystemAssumption
    <2> QED BY <1>1, <2>2, <2>3 DEF Numbered
  <1>7. CallOfStarted'
    BY <1>1, <1>3 DEF CallOfStarted, Started
  <1>8. DiskKnown' /\ FramesKnown'
    BY <1>1 DEF TxnInv, DiskKnown, FramesKnown
  <1>9. BeforeKnown'
    <2> SUFFICES ASSUME NEW i \in DOMAIN log', log'[i].type = "UPDATE",
                        NEW q, NEW t, NEW w,
                        q = log'[i].page, t = log'[i].slot, w = log'[i].before
                 PROVE  Known(q, t, w)'
      BY <1>3 DEF BeforeKnown
    <2> QED OBVIOUS
  <1> QED BY <1>5, <1>6, <1>7, <1>8, <1>9 DEF TxnInv

LEMMA CrashInv == ASSUME TxnInv, Crash PROVE TxnInv'
  <1>1. Reset /\ UNCHANGED <<log, rows, log_end>>
    BY DEF Crash
  <1>2. \A q, s, v : Known(q, s, v)' <=> Known(q, s, v)
    BY <1>1, LogStays
  <1>3. /\ log' \in Seq(LogRecord) /\ rows' \in [Value -> SUBSET (Page \X Slot)]
        /\ log_end' \in {"whole", "torn", "misread"}
    BY <1>1 DEF TxnInv, TypeOK
  <1>4. \A i \in DOMAIN log' : log'[i].type = "UPDATE" =>
           Known(log'[i].page, log'[i].slot, log'[i].before)
    BY <1>1 DEF TxnInv, BeforeKnown
  <1> QED BY <1>1, <1>2, <1>3, <1>4, ResetInv

\* The records a crash in write_log_record leaves; what they restore is known.
LEMMA TornRecord ==
    ASSUME TxnInv, CrashInRecord
    PROVE  /\ Reset
           /\ \E r \in LogRecord :
                 /\ log' = Append(log, r)
                 /\ r.type = "UPDATE" => Known(r.page, r.slot, r.before)
           /\ rows' \in [Value -> SUBSET (Page \X Slot)] /\ log_end' \in {"torn", "misread"}
  <1>1. TypeOK /\ CallOfStarted /\ BeforeKnown
    BY DEF TxnInv
  <1>2. Reset
    BY DEF CrashInRecord
  <1>3. ASSUME call.op = "write",
               NEW r \in TornUpdates(call.txn, call.page, call.slot, call.before)
        PROVE  r \in LogRecord /\ (r.type = "UPDATE" => Known(r.page, r.slot, r.before))
    <2>1. /\ call.txn \in TxnId /\ call.page \in Page /\ call.slot \in Slot
          /\ call.before \in Image /\ Known(call.page, call.slot, call.before)
      BY <1>1, <1>3, CallShape DEF BeforeKnown
    <2>2. /\ r \in [type : {"UPDATE"}, txn : {call.txn}, page : {call.page},
                    slot : {call.slot}, before : {call.before, Empty}, after : {Empty}]
      BY DEF TornUpdates
    <2>3. r \in LogRecord
      BY <2>1, <2>2 DEF LogRecord, Image
    <2>4. Known(call.page, call.slot, r.before)
      BY <2>1, <2>2 DEF Known
    <2> QED BY <2>2, <2>3, <2>4
  <1>4. ASSUME NEW type \in {"BEGIN", "UPDATE", "COMMIT", "ABORT"}, NEW r \in Misread(type)
        PROVE  r \in LogRecord /\ (r.type = "UPDATE" => Known(r.page, r.slot, r.before))
    <2>1. CASE type = "UPDATE"
      <3>1. r \in [type : {"UPDATE"}, txn : TxnId, page : Page, slot : Slot, before : {Empty},
                   after : {Empty}]
        BY <2>1 DEF Misread
      <3> QED BY <3>1 DEF LogRecord, Image, Known
    <2>2. CASE type # "UPDATE"
      <3>1. r \in [type : {type}, txn : TxnId]
        BY <2>2 DEF Misread
      <3> QED BY <2>2, <3>1 DEF LogRecord
    <2> QED BY <2>1, <2>2
  <1>5. /\ [type |-> "CHECKPOINT", txn |-> 0] \in LogRecord
        /\ [type |-> "CHECKPOINT", txn |-> 0].type # "UPDATE"
    BY DEF LogRecord
  <1>6. \E r \in LogRecord : /\ log' = Append(log, r)
                             /\ r.type = "UPDATE" => Known(r.page, r.slot, r.before)
    BY <1>3, <1>4, <1>5 DEF CrashInRecord, LogOf, WriteLogRecord
  <1>7. rows' \in [Value -> SUBSET (Page \X Slot)] /\ log_end' \in {"torn", "misread"}
    <2>1. CASE UNCHANGED rows
      BY <1>1, <2>1 DEF TypeOK, CrashInRecord
    <2>2. CASE /\ call.op = "write"
               /\ rows' = [rows EXCEPT ![incarnation[call.txn]] = @ \cup {<<call.page, call.slot>>}]
      <3>1. /\ call.page \in Page /\ call.slot \in Slot
            /\ incarnation[call.txn] \in Value
        BY <1>1, <2>2, CallShape DEF CallOfStarted
      <3>2. rows' \in [Value -> SUBSET (Page \X Slot)]
        BY <1>1, <2>2, <3>1 DEF TypeOK
      <3> QED BY <3>2 DEF CrashInRecord
    <2> QED BY <2>1, <2>2 DEF CrashInRecord
  <1> QED BY <1>2, <1>6, <1>7

LEMMA CrashInRecordInv == ASSUME TxnInv, CrashInRecord PROVE TxnInv'
  <1>1. /\ Reset /\ rows' \in [Value -> SUBSET (Page \X Slot)]
        /\ log_end' \in {"whole", "torn", "misread"}
    BY TornRecord
  <1>2. PICK r \in LogRecord : /\ log' = Append(log, r)
                               /\ r.type = "UPDATE" => Known(r.page, r.slot, r.before)
    BY TornRecord
  <1>3. /\ log' \in Seq(LogRecord)
        /\ \A q, s, v : Known(q, s, v) => Known(q, s, v)'
        /\ DOMAIN log' = DOMAIN log \cup {Len(log) + 1}
        /\ \A i \in DOMAIN log : log'[i] = log[i]
        /\ log'[Len(log) + 1] = r
    BY <1>2, LogGrows DEF TxnInv
  <1>4. \A i \in DOMAIN log' : log'[i].type = "UPDATE" =>
           Known(log'[i].page, log'[i].slot, log'[i].before)
    BY <1>2, <1>3 DEF TxnInv, BeforeKnown
  <1> QED BY <1>1, <1>3, <1>4, ResetInv

LEMMA TxnStutter == ASSUME TxnInv, UNCHANGED vars PROVE TxnInv'
  <1>1. UNCHANGED <<log, disk, buffer, call, page_count, transaction_counter,
                    transaction_table, incarnation, outcome, rows, log_end>>
    BY DEF vars, memory, ghosts
  <1>2. \A q, s, v : Known(q, s, v)' <=> Known(q, s, v)
    BY <1>1, LogStays
  <1>3. TypeOK' /\ Numbered' /\ CallOfStarted'
    BY <1>1 DEF TxnInv, TypeOK, Numbered, CallOfStarted, Started
  <1>4. DiskKnown' /\ FramesKnown'
    BY <1>1, <1>2 DEF TxnInv, DiskKnown, FramesKnown, Writes
  <1>5. BeforeKnown'
    BY <1>1, <1>2 DEF TxnInv, BeforeKnown
  <1> QED BY <1>3, <1>4, <1>5 DEF TxnInv

LEMMA TxnNextInv == TxnInv /\ [Next]_vars => TxnInv'
  <1> SUFFICES ASSUME TxnInv, [Next]_vars PROVE TxnInv'
    OBVIOUS
  <1>1. CASE Client
    BY <1>1, StartTxnInv, ClientFlushInv, InsertRowInv, CommitTxnInv, AbortTxnInv DEF Client
  <1>2. CASE InCall
    BY <1>2, FlushFrameInv, ClientFlushInv, LogUpdateInv, RecordsInv, RedoInv, UndoInv
    DEF InCall
  <1>3. CASE Crash
    BY <1>3, CrashInv
  <1>4. CASE CrashInRecord
    BY <1>4, CrashInRecordInv
  <1>5. CASE UNCHANGED vars
    BY <1>5, TxnStutter
  <1> QED BY <1>1, <1>2, <1>3, <1>4, <1>5 DEF Next

-----------------------------------------------------------------------------
(* What follows from it.                                                   *)

\* The inductive invariant of the transactions of lab 2: whatever a page on disk or in a
\* frame holds is logged, or is the one record that write() has just put there.
THEOREM TxnInvariant == Spec => []TxnInv
  BY TxnInitInv, TxnNextInv, PTL DEF Spec

\* Every variable keeps its type: no insert goes past the slots of a page, no recovery or
\* rollback puts anything but a logged image into one, and ids handed out again after a
\* crash stay within the transaction table.
THEOREM TxnTypeCorrect == Spec => []TypeOK
  BY TxnInvariant, PTL DEF TxnInv

\* A record on disk whose transaction has not committed can be undone: its insert is in
\* the log, whenever the page was flushed and by whomever (write of slotted_page.cc and
\* log_update, flush_page, rollback_txn and recovery).
THEOREM DiskIsLogged == Spec => []LoggedBeforeDisk
  <1>1. ASSUME TxnInv PROVE LoggedBeforeDisk
    <2> SUFFICES ASSUME NEW r \in DiskRows
                 PROVE  \E i \in DOMAIN log :
                           /\ log[i].type = "UPDATE"
                           /\ log[i].page = r[1] /\ log[i].slot = r[2] /\ log[i].after = r[3]
      BY DEF LoggedBeforeDisk
    <2>1. PICK p \in Page : r \in RowsIn(p, disk[p])
      BY DEF DiskRows
    <2>2. PICK s \in Slot : disk[p].data[s] # Empty /\ r = <<p, s, disk[p].data[s]>>
      BY <2>1 DEF RowsIn
    <2>3. Logged(p, s, disk[p].data[s])
      BY <1>1, <2>2 DEF TxnInv, DiskKnown, Known
    <2> QED BY <2>2, <2>3 DEF Logged
  <1> QED BY <1>1, TxnInvariant, PTL
=============================================================================
