----------------------------- MODULE HeapSegment -----------------------------
(***************************************************************************)
(* The rows of lab 3: HeapSegment allocates and writes records in slotted  *)
(* pages, which BufferManager keeps in recycled frames, and which come and *)
(* go with the commits and aborts of transactions that run one at a time   *)
(* (BufferManager and LockManager are about those that overlap).           *)
(*                                                                         *)
(* What decides where a row is found again is the bytes: the pointer a     *)
(* page stores to itself, and what a frame still holds from its last page. *)
(* A row is the pair (table_id, field) a client inserts; rows are told     *)
(* apart by the order of insertion.  A page is numbered from 1 here, as 0  *)
(* is what zeros name.  discard_all_pages, which replaces all frames and   *)
(* leaves pointers into freed memory, is not used by these clients.        *)
(***************************************************************************)
EXTENDS SlottedPage, Sequences, FiniteSets

CONSTANTS Frames,     \* frames in the pool
          PageSizes,  \* words a page may have behind its header
          MaxPages,   \* bound: pages of the segment
          MaxRows     \* bound: rows inserted

ASSUME HeapAssumption ==
    /\ Frames \in Nat \ {0} /\ MaxPages \in Nat /\ MaxRows \in Nat
    /\ PageSizes \subseteq Nat /\ \A n \in PageSizes : n > RecordWords

VARIABLES
    page_words,     \* get_page_size(), without the header
    data,           \* data[f]: the bytes of frame f
    page_id,        \* page_id[f]: the page that page_table_ maps to f, or NoPage
    dirty,          \* the frames marked dirty
    free_frames,
    txn_pages,      \* pages the running transaction has fixed
    disk,           \* the pages of the segment's file
    page_count,
    pc,             \* where the client is in allocate, write and look
    itr,            \* the page allocate or look is at
    tid,            \* the record to write
    rows,           \* rows inserted and not undone, with their tid (history)
    last_row,       \* rows inserted so far, undone ones too (history)
    clean           \* no stale bytes were taken for a page's (history)

vars == <<page_words, data, page_id, dirty, free_frames, txn_pages, disk, page_count,
          pc, itr, tid, rows, last_row, clean>>
pool == <<data, page_id, dirty, free_frames>>
history == <<rows, last_row, clean>>

Frame == 1..Frames
PageNo == 1..page_count

\* "corrupt": a slot or a header has been overwritten; "exited": look ended the program.
Pcs == {"idle", "scan", "write", "look", "read", "corrupt", "exited"}

Init ==
    /\ page_words \in PageSizes
    /\ data = [f \in Frame |-> Blank(page_words)]
    /\ page_id = [f \in Frame |-> NoPage]
    /\ dirty = {}
    /\ free_frames = [i \in 1..Frames |-> i]
    /\ txn_pages = {}
    /\ disk = <<>>
    /\ page_count = 0
    /\ pc = "idle"
    /\ itr = 0
    /\ tid = <<NoPage, 0>>
    /\ rows = {}
    /\ last_row = 0
    /\ clean = TRUE

-----------------------------------------------------------------------------
(* BufferManager                                                           *)

Mapped(p) == \E f \in Frame : page_id[f] = p
FrameOf(p) == IF Mapped(p) THEN CHOOSE f \in Frame : page_id[f] = p ELSE Head(free_frames)

\* fix_page finds the page or a free frame; otherwise it throws buffer_full_error.
CanFix(p) == Mapped(p) \/ free_frames # <<>>

\* The page's bytes once it is fixed: beyond the end of the file nothing is read.
Fixed(p) ==
    IF Mapped(p) \/ p > Len(disk) THEN data[FrameOf(p)] ELSE disk[p]

\* The rest of fix_page(txn, p); the caller says what the page's frame then holds.
FixPage(p) ==
    /\ page_id' = [page_id EXCEPT ![FrameOf(p)] = p]
    /\ free_frames' = IF Mapped(p) THEN free_frames ELSE Tail(free_frames)
    /\ txn_pages' = txn_pages \cup {p}

\* A page that is not in the file takes over the page its new frame held.
TakesOver(p) == ~Mapped(p) /\ p > Len(disk) /\ Fixed(p).id # NoPage

\* The slot array that a page's buffer_frame leads to.  A null pointer ends the program,
\* and so do zeros: in look by exit(0), in write because the header is overwritten.
SlotsOf(p, page) ==
    CASE page.buffer_frame = FrameOf(p) -> page.words
      [] page.buffer_frame = NoFrame    -> Blank(page_words).words
      [] OTHER                          -> data[page.buffer_frame].words

\* transaction_complete: dirty pages of the transaction are written; a page written
\* beyond the end of the file leaves zeros before it.
TransactionComplete ==
    LET written == {p \in txn_pages : Mapped(p) /\ FrameOf(p) \in dirty}
        size == CHOOSE n \in written \cup {Len(disk)} : \A p \in written \cup {Len(disk)} : p <= n
    IN  /\ pc = "idle" /\ txn_pages # {}
        /\ disk' = [p \in 1..size |-> IF p \in written THEN data[FrameOf(p)]
                                      ELSE IF p <= Len(disk) THEN disk[p] ELSE Blank(page_words)]
        /\ dirty' = dirty \ {FrameOf(p) : p \in written}
        /\ txn_pages' = {}
        /\ rows' = {[r EXCEPT !.own = FALSE] : r \in rows}
        /\ UNCHANGED <<page_words, data, page_id, free_frames, page_count, pc, itr, tid,
                       last_row, clean>>

\* Variant with a fault: the frames stay mapped, only their dirty marks go.
TransactionAbortFaulty ==
    /\ pc = "idle" /\ txn_pages # {}
    /\ dirty' = {f \in dirty : page_id[f] \notin txn_pages}
    /\ txn_pages' = {}
    /\ rows' = {r \in rows : ~r.own}
    /\ UNCHANGED <<page_words, data, page_id, free_frames, disk, page_count, pc, itr, tid,
                   last_row, clean>>

\* transaction_abort: the frames are freed in the order of the pages; their bytes stay.
TransactionAbort ==
    LET gone == {p \in txn_pages : Mapped(p)}
    IN  /\ pc = "idle" /\ txn_pages # {}
        /\ page_id' = [f \in Frame |-> IF page_id[f] \in gone THEN NoPage ELSE page_id[f]]
        /\ \E order \in [1..Cardinality(gone) -> gone] :
             /\ \A i, j \in DOMAIN order : i < j => order[i] < order[j]
             /\ free_frames' = free_frames \o [i \in DOMAIN order |-> FrameOf(order[i])]
        /\ dirty' = {f \in dirty : page_id[f] \notin gone}
        /\ txn_pages' = {}
        /\ rows' = {r \in rows : ~r.own}
        /\ UNCHANGED <<page_words, data, disk, page_count, pc, itr, tid, last_row, clean>>

-----------------------------------------------------------------------------
(* HeapSegment                                                             *)

\* insert_row calls allocate ...
Insert ==
    /\ pc = "idle" /\ last_row < MaxRows
    /\ pc' = "scan"
    /\ itr' = 1
    /\ UNCHANGED <<page_words, pool, txn_pages, disk, page_count, tid, history>>

\* addSlot on the fixed page p: it changes the slots in the frame that buffer_frame names.
Allocate(p, page) ==
    LET f == FrameOf(p)
        at == page.buffer_frame
        new == AddSlot(page, SlotsOf(p, page))
        header == [new.page EXCEPT !.words = IF at = f THEN new.slots ELSE page.words]
    IN  IF SlotFits(page)
        THEN /\ data' = [data EXCEPT ![at].words = new.slots, ![f] = header]
             /\ pc' = "write"
             /\ tid' = <<page.id, page.first_free_slot>>
        ELSE /\ data' = [data EXCEPT ![f] = page]
             /\ pc' = "corrupt"
             /\ UNCHANGED tid

\* One page of the segment is tried ...
TryPage ==
    LET page == Fixed(itr)
    IN  /\ pc = "scan" /\ itr \in PageNo /\ CanFix(itr)
        /\ FixPage(itr)
        /\ IF RecordWords > page.free_space
           THEN /\ data' = [data EXCEPT ![FrameOf(itr)] = page]
                /\ itr' = itr + 1
                /\ clean' = (clean /\ ~TakesOver(itr))
                /\ UNCHANGED <<pc, tid>>
           ELSE /\ Allocate(itr, page)
                /\ clean' = (clean /\ ~TakesOver(itr) /\ page.buffer_frame = FrameOf(itr))
                /\ UNCHANGED itr
        /\ UNCHANGED <<page_words, dirty, disk, page_count, rows, last_row>>

\* Variant with a fault: the new page is not counted.
NewPageFaulty ==
    LET p == page_count + 1
    IN  /\ pc = "scan" /\ itr = p /\ p <= MaxPages /\ CanFix(p)
        /\ FixPage(p)
        /\ Allocate(p, Page(FrameOf(p), p, data[FrameOf(p)].words, page_words))
        /\ UNCHANGED <<page_words, dirty, disk, page_count, itr, history>>

\* ... and after the last one a page is made: the header is written, the words stay.
NewPage ==
    LET p == page_count + 1
    IN  /\ pc = "scan" /\ itr = p /\ p <= MaxPages /\ CanFix(p)
        /\ page_count' = p
        /\ FixPage(p)
        /\ Allocate(p, Page(FrameOf(p), p, data[FrameOf(p)].words, page_words))
        /\ UNCHANGED <<page_words, dirty, disk, itr, history>>

\* fix_page throws buffer_full_error out of allocate (which may have counted a new page),
\* write or look; the client goes on with the transaction, or ends it.
BufferFull ==
    LET p == IF pc = "write" THEN tid[1] ELSE itr
    IN  /\ pc \in {"scan", "write", "look"} /\ ~CanFix(p)
        /\ p \in PageNo \/ (pc = "scan" /\ p <= MaxPages)
        /\ page_count' = IF p \in PageNo THEN page_count ELSE p
        /\ pc' = "idle"
        /\ UNCHANGED <<page_words, pool, txn_pages, disk, itr, tid, history>>

\* insert_row calls write with the tid: the slot is found through buffer_frame, the
\* record goes to the page's own frame, which is marked dirty.
Write ==
    LET p == tid[1]
        page == Fixed(p)
        slot == SlotsOf(p, page)[tid[2]]
        new == [i \in DOMAIN page.words |-> IF i \in Extent(slot) THEN RecordPart(last_row + 1)
                                            ELSE page.words[i]]
    IN  /\ pc = "write" /\ CanFix(p)
        /\ FixPage(p)
        /\ data' = [data EXCEPT ![FrameOf(p)] = [page EXCEPT !.words = new]]
        /\ dirty' = dirty \cup {FrameOf(p)}
        /\ rows' = rows \cup {[row |-> last_row + 1, page |-> p, slot |-> tid[2], own |-> TRUE]}
        /\ last_row' = last_row + 1
        /\ pc' = IF slot[1] = "slot" THEN "idle" ELSE "corrupt"
        /\ clean' = (clean /\ ~TakesOver(p))
        /\ UNCHANGED <<page_words, disk, page_count, itr, tid>>

\* The client looks at the rows of all pages ...
Look ==
    /\ pc = "idle" /\ page_count > 0
    /\ pc' = "look"
    /\ itr' = 1
    /\ UNCHANGED <<page_words, pool, txn_pages, disk, page_count, tid, history>>

\* ... puts each page's pointer right ...
LookPage ==
    LET page == [Fixed(itr) EXCEPT !.buffer_frame = FrameOf(itr)]
    IN  /\ pc = "look" /\ itr \in PageNo /\ CanFix(itr)
        /\ FixPage(itr)
        /\ data' = [data EXCEPT ![FrameOf(itr)] = page]
        /\ clean' = (clean /\ ~TakesOver(itr))
        /\ IF page.first_free_slot > 0 THEN pc' = "read" /\ UNCHANGED itr
                                       ELSE itr' = itr + 1 /\ UNCHANGED pc
        /\ UNCHANGED <<page_words, dirty, disk, page_count, tid, rows, last_row>>

\* ... and reads the records of its slots, from the page its header names; a slot of
\* zeros has less than the length asked for, and read calls exit(0).
ReadRows ==
    LET count == data[FrameOf(itr)].first_free_slot
        p == data[FrameOf(itr)].id
        page == Fixed(p)
    IN  /\ pc = "read"
        /\ IF CanFix(p)
           THEN /\ FixPage(p)
                /\ data' = [data EXCEPT ![FrameOf(p)] = page]
                /\ clean' = (clean /\ ~TakesOver(p))
                /\ IF \E i \in 0..(count - 1) : SlotsOf(p, page)[i] = Zero
                   THEN pc' = "exited" /\ UNCHANGED itr
                   ELSE pc' = "look" /\ itr' = itr + 1
           ELSE /\ pc' = "idle"
                /\ UNCHANGED <<data, page_id, free_frames, txn_pages, itr, clean>>
        /\ UNCHANGED <<page_words, dirty, disk, page_count, tid, rows, last_row>>

LookEnds ==
    /\ pc = "look" /\ itr \notin PageNo
    /\ pc' = "idle"
    /\ UNCHANGED <<page_words, pool, txn_pages, disk, page_count, itr, tid, history>>

-----------------------------------------------------------------------------
Next ==
    \/ TransactionComplete \/ TransactionAbort
    \/ Insert \/ TryPage \/ NewPage \/ BufferFull \/ Write
    \/ Look \/ LookPage \/ ReadRows \/ LookEnds

Spec == Init /\ [][Next]_vars

-----------------------------------------------------------------------------
HeapTypeOK ==
    /\ page_words \in PageSizes
    /\ \A f \in Frame : DOMAIN data[f].words = 0..(page_words - 1)
    /\ page_id \in [Frame -> {NoPage} \cup PageNo]
    /\ dirty \subseteq Frame
    /\ free_frames \in Seq(Frame)
    /\ txn_pages \subseteq PageNo
    /\ Len(disk) <= page_count
    /\ pc \in Pcs
    /\ itr \in 0..(page_count + 1)
    /\ rows \subseteq [row : 1..last_row, page : PageNo, slot : 0..page_words, own : BOOLEAN]

\* What a fix of the page would find, if its new frame were blank.
Current(p) ==
    IF Mapped(p) THEN data[FrameOf(p)]
    ELSE IF p <= Len(disk) THEN disk[p] ELSE Blank(page_words)

\* Whatever is inserted, committed, aborted, thrown out and read again, every row of a
\* committed transaction and of the running one stays where its tid says, and no page has
\* other rows: as long as pages that were read into another frame had their pointers put
\* right, by look, before the next insert, and no page was taken over from a frame.
RowsFound ==
    (clean /\ pc \in {"idle", "scan", "look", "read"}) =>
        \A p \in PageNo :
            LET here == {r \in rows : r.page = p}
                slot(r) == Current(p).words[r.slot]
            IN  /\ Current(p).first_free_slot = Cardinality(here)
                /\ \A r \in here :
                     /\ slot(r)[1] = "slot"
                     /\ \A i \in Extent(slot(r)) : Current(p).words[i] = RecordPart(r.row)

\* Under the same condition pages stay well-formed, and free_space is never wrong, unless
\* pages have room for a record beside those that fill them but not for its slot.
PagesWellFormed ==
    clean =>
        /\ pc = "corrupt" => page_words % (RecordWords + 1) = RecordWords
        /\ pc # "corrupt" => \A p \in PageNo :
             Current(p).id = NoPage \/ (Current(p).id = p /\ WellFormed(Current(p), page_words))
=============================================================================
