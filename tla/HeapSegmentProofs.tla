-------------------------- MODULE HeapSegmentProofs --------------------------
(***************************************************************************)
(* The rows of lab 3 stay where their tids say, for any number of frames,  *)
(* pages and rows, and any size of a page and of a record.                 *)
(*                                                                         *)
(* A page that addSlot filled is regular: the i-th slot names the i-th     *)
(* record from the end.  HeapInv says so of the file and of every frame    *)
(* that has a page, for the rows each of them has to hold.                 *)
(***************************************************************************)
EXTENDS HeapSegment, Integers, FiniteSetTheorems, WellFoundedInduction, TLAPS

\* A word of a page, and what a page with n of them can hold while there are count pages.
Word == {"zero", "slot", "record"} \X Nat \X Nat
Words(n) == [0..(n - 1) -> Word]
Fields(n, count) ==
    [buffer_frame : {NoFrame} \cup Frame, id : {NoPage} \cup (1..count), slot_count : Nat,
     first_free_slot : Nat, data_start : Nat, free_space : Nat, words : Words(n)]
Bytes(n, count) ==
    {page \in Fields(n, count) :
        /\ page.first_free_slot <= page.slot_count
        /\ page.slot_count <= page.data_start /\ page.data_start <= n
        /\ page.free_space = page.data_start - page.slot_count
        /\ page.id = NoPage => page.data_start = 0}

\* Where the i-th record of a page starts.
Base(n, i) == n - RecordWords * (i + 1)

\* A page with no free slot in its array, whose records lie one in front of the other.
Made(n, page) ==
    /\ page.first_free_slot = page.slot_count
    /\ page.data_start = Base(n, page.slot_count) + RecordWords
    /\ \A i \in 0..(page.slot_count - 1) : page.words[i] = Slot(Base(n, i), RecordWords)

\* The rows of S have the first k slots of a page, and their records lie in it.
RowsIn(n, page, S, k) ==
    /\ \A r \in S : /\ r.slot \in 0..(k - 1)
                    /\ \A i \in Base(n, r.slot)..(Base(n, r.slot) + RecordWords - 1) :
                         page.words[i] = RecordPart(r.row)
    /\ \A i \in 0..(k - 1) : \E r \in S : r.slot = i
    /\ \A r, s \in S : r.slot = s.slot => r = s

\* These bytes are page p with the rows of S, or were never written, and there are none.
Good(n, page, p, S) ==
    /\ page.id = NoPage => S = {}
    /\ page.id # NoPage => /\ page.id = p
                           /\ Made(n, page)
                           /\ RowsIn(n, page, S, page.slot_count)

\* The rows of page p, those of committed transactions, and the page in the file.
Here(p) == {r \in rows : r.page = p}
Committed(p) == {r \in rows : r.page = p /\ ~r.own}
Stored(p) == IF p <= Len(disk) THEN disk[p] ELSE Blank(page_words)

\* Each page has at most one frame, and free frames have no page.
FramesShared ==
    /\ page_id \in [Frame -> {NoPage} \cup PageNo]
    /\ \A f, g \in Frame : page_id[f] = page_id[g] /\ page_id[f] # NoPage => f = g
    /\ free_frames \in Seq(Frame)
    /\ \A i \in DOMAIN free_frames : page_id[free_frames[i]] = NoPage
    /\ \A i, j \in DOMAIN free_frames : free_frames[i] = free_frames[j] => i = j

\* What is dirty belongs to the running transaction.
DirtyFixed ==
    /\ dirty \subseteq Frame /\ txn_pages \subseteq PageNo
    /\ \A f \in dirty : page_id[f] \in txn_pages

PagesHeld ==
    /\ page_words \in PageSizes /\ page_count \in Nat
    /\ data \in [Frame -> Bytes(page_words, page_count)]
    /\ disk \in Seq(Bytes(page_words, page_count)) /\ Len(disk) <= page_count

\* The tid that write is given, and the page that read is called for, are real ones.
ClientAt ==
    /\ pc \in Pcs
    /\ itr \in 0..(page_count + 1)
    /\ pc \in {"scan", "look"} => itr # 0
    /\ tid \in Nat \X Nat
    /\ pc = "write" => tid[1] \in PageNo /\ tid[2] < page_words
    /\ pc = "read" => \E f \in Frame : /\ page_id[f] = itr /\ itr # 0
                                       /\ data[f].first_free_slot > 0
                                       /\ data[f].buffer_frame = f

RowsTyped ==
    /\ last_row \in Nat /\ clean \in BOOLEAN
    /\ rows \subseteq [row : 1..last_row, page : PageNo, slot : 0..page_words, own : BOOLEAN]

HeapTypeInv == FramesShared /\ DirtyFixed /\ PagesHeld /\ ClientAt /\ RowsTyped

\* The file has the committed rows, frames have those of the running transaction too, ...
FileHasCommitted == \A p \in PageNo : Good(page_words, Stored(p), p, Committed(p))
FramesHaveRows ==
    \A f \in Frame :
        page_id[f] # NoPage /\ ~(pc = "write" /\ page_id[f] = tid[1]) =>
            Good(page_words, data[f], page_id[f], Here(page_id[f]))

\* ... which lie on dirty frames, ...
OwnRowsDirty == \A r \in rows : r.own => \E f \in dirty : page_id[f] = r.page

\* ... and the page that a row is about to be written to has a slot more than rows.
SlotAwaitsRow ==
    pc = "write" =>
        \E f \in Frame :
            /\ page_id[f] = tid[1]
            /\ data[f].buffer_frame = f /\ data[f].id = tid[1]
            /\ Made(page_words, data[f]) /\ data[f].slot_count = tid[2] + 1
            /\ RowsIn(page_words, data[f], Here(tid[1]), tid[2])

CorruptWhenUneven == pc = "corrupt" => page_words % (RecordWords + 1) = RecordWords

CleanInv ==
    FileHasCommitted /\ FramesHaveRows /\ OwnRowsDirty /\ SlotAwaitsRow /\ CorruptWhenUneven

HeapInv == HeapTypeInv /\ (clean => CleanInv)

-----------------------------------------------------------------------------
(* Slotted pages.                                                          *)

LEMMA Smallest ==
    ASSUME NEW S \in SUBSET Nat, S # {}
    PROVE  \E x \in S : \A y \in S : x <= y
  <1>1. PICK x \in S : \A y \in S : ~(<<y, x>> \in OpToRel(<, Nat))
    BY NatLessThanWellFounded, WFMin
  <1>2. \A y \in S : ~(y < x)
    BY <1>1 DEF OpToRel
  <1> QED BY <1>2

LEMMA Product ==
    ASSUME NEW a \in Nat, NEW b \in Nat
    PROVE  a * b \in Nat
  OBVIOUS

LEMMA BaseStep ==
    ASSUME NEW n \in Nat, NEW i \in Nat
    PROVE  /\ Base(n, i) \in Int /\ Base(n, i) + RecordWords <= n
           /\ Base(n, i + 1) = Base(n, i) - RecordWords
           /\ Base(n, 0) = n - RecordWords
  <1>1. RecordWords \in Nat
    BY RecordAssumption
  <1>2. RecordWords * i \in Nat
    BY <1>1, Product
  <1>3. RecordWords * (i + 1) = RecordWords * i + RecordWords
    BY <1>1
  <1>4. RecordWords * (i + 1 + 1) = RecordWords * i + RecordWords + RecordWords
    BY <1>1
  <1>5. RecordWords * (0 + 1) = RecordWords
    BY <1>1
  <1> QED BY <1>1, <1>2, <1>3, <1>4, <1>5 DEF Base

\* Records further back in the array lie further in front.
LEMMA BaseOrder ==
    ASSUME NEW n \in Nat, NEW i \in Nat, NEW j \in Nat, i < j
    PROVE  Base(n, j) + RecordWords <= Base(n, i)
  <1>1. RecordWords \in Nat
    BY RecordAssumption
  <1> DEFINE d == j - i - 1
  <1>2. d \in Nat /\ j + 1 = i + 1 + d + 1
    OBVIOUS
  <1>3. RecordWords * d \in Nat
    BY <1>1, <1>2, Product
  <1>4. RecordWords * (j + 1) = RecordWords * (i + 1) + RecordWords * d + RecordWords
    <2>1. j = i + 1 + d
      OBVIOUS
    <2> HIDE DEF d
    <2> QED BY <1>1, <1>2, <2>1
  <1>5. RecordWords * (i + 1) \in Nat
    BY <1>1, Product
  <1> HIDE DEF d
  <1> QED BY <1>1, <1>3, <1>4, <1>5 DEF Base

\* first_free_slot after addSlot is a slot, or counts them if none is free.
LEMMA FirstFreeIs ==
    ASSUME NEW slots, NEW count \in Nat
    PROVE  /\ FirstFreeSlot(slots, count) \in 0..count
           /\ (\A i \in 0..(count - 1) : slots[i] # Zero) => FirstFreeSlot(slots, count) = count
  <1> DEFINE free == {i \in 0..(count - 1) : slots[i] = Zero}
  <1>1. CASE free = {}
    BY <1>1 DEF FirstFreeSlot
  <1>2. CASE free # {}
    <2>1. free \in SUBSET Nat
      OBVIOUS
    <2>2. PICK x \in free : \A y \in free : x <= y
      <3> HIDE DEF free
      <3> QED BY <1>2, <2>1, Smallest
    <2>3. \A j \in 0..(x - 1) : slots[j] # Zero
      BY <2>2
    <2>4. \E i \in 0..(count - 1) : slots[i] = Zero /\ \A j \in 0..(i - 1) : slots[j] # Zero
      BY <2>2, <2>3
    <2>5. FirstFreeSlot(slots, count) \in 0..(count - 1)
      BY <2>4 DEF FirstFreeSlot
    <2> QED BY <2>4, <2>5
  <1> QED BY <1>1, <1>2

LEMMA ExtentIs ==
    ASSUME NEW a \in Int
    PROVE  Extent(Slot(a, RecordWords)) = a..(a + RecordWords - 1)
  BY RecordAssumption DEF Extent, Slot

LEMMA WordKinds ==
    /\ Zero \in Word
    /\ \A a \in Nat : Slot(a, RecordWords) \in Word /\ Slot(a, RecordWords) # Zero
    /\ \A r \in Nat : RecordPart(r) \in Word
  BY RecordAssumption DEF Word, Zero, Slot, RecordPart

LEMMA BlankIs ==
    ASSUME NEW n \in Nat, NEW c \in Nat
    PROVE  Blank(n) \in Bytes(n, c) /\ Blank(n).id = NoPage
  <1> DEFINE zeros == [i \in 0..(n - 1) |-> Zero]
             page == Page(NoFrame, NoPage, zeros, n)
  <1>1. zeros \in Words(n)
    BY WordKinds DEF Words
  <1>2. page \in Fields(n, c)
    <2> HIDE DEF zeros
    <2> QED BY <1>1 DEF Page, Fields
  <1>3. /\ page.id = NoPage /\ page.slot_count = 0 /\ page.first_free_slot = 0
    BY DEF Page
  <1>4. Blank(n) = [page EXCEPT !.data_start = 0, !.free_space = 0]
    BY DEF Blank
  <1> HIDE DEF page
  <1>5. Blank(n) \in Fields(n, c)
    <2>1. 0 \in Nat
      OBVIOUS
    <2> QED BY <1>2, <1>4, <2>1, Zenon DEF Fields
  <1>6. /\ Blank(n).data_start = 0 /\ Blank(n).free_space = 0
        /\ Blank(n).id = page.id /\ Blank(n).slot_count = page.slot_count
        /\ Blank(n).first_free_slot = page.first_free_slot
    BY <1>2, <1>4 DEF Fields
  <1> QED BY <1>3, <1>5, <1>6 DEF Bytes

LEMMA BytesGrow ==
    ASSUME NEW n \in Nat, NEW c \in Nat, NEW d \in Nat, c <= d
    PROVE  Bytes(n, c) \subseteq Bytes(n, d)
  BY DEF Bytes, Fields

\* A page without an identity is one without slots.
LEMMA BytesFacts ==
    ASSUME NEW n \in Nat, NEW c \in Nat, NEW page \in Bytes(n, c)
    PROVE  /\ page.first_free_slot \in Nat /\ page.slot_count \in Nat /\ page.data_start \in Nat
           /\ page.first_free_slot <= page.slot_count
           /\ page.slot_count <= page.data_start /\ page.data_start <= n
           /\ page.free_space = page.data_start - page.slot_count
           /\ page.id \in {NoPage} \cup (1..c)
           /\ page.id = NoPage => page.slot_count = 0 /\ page.free_space = 0
           /\ page.buffer_frame \in {NoFrame} \cup Frame
           /\ page.words \in Words(n)
  BY DEF Bytes, Fields

\* addSlot, where it fits, of any bytes: a page's bytes again.
LEMMA AddSlotIs ==
    ASSUME NEW n \in Nat, NEW c \in Nat, NEW page \in Bytes(n, c),
           NEW slots \in Words(n),
           RecordWords <= page.free_space, SlotFits(page)
    PROVE  LET new == AddSlot(page, slots)
           IN  /\ new.slots \in Words(n)
               /\ \A words \in Words(n) :
                    [new.page EXCEPT !.words = words] \in Bytes(n, c)
               /\ page.id \in 1..c /\ page.first_free_slot < n
  <1> DEFINE new == AddSlot(page, slots)
             start == DataStart(page)
             count == SlotCount(page)
             first == FirstFreeSlot(new.slots, count)
  <1>1. /\ page.first_free_slot \in Nat /\ page.slot_count \in Nat /\ page.data_start \in Nat
        /\ page.first_free_slot <= page.slot_count
        /\ page.slot_count <= page.data_start /\ page.data_start <= n
        /\ page.free_space = page.data_start - page.slot_count
        /\ page.id \in {NoPage} \cup (1..c)
        /\ page.id = NoPage => page.free_space = 0
    BY BytesFacts
  <1>2. RecordWords \in Nat \ {0}
    BY RecordAssumption
  <1>3. page.id \in 1..c /\ page.first_free_slot < n
    BY <1>1, <1>2
  <1>4. /\ start \in Nat /\ start <= n /\ count \in Nat
        /\ count <= start /\ FreeSpace(page) = start - count
    BY <1>1, <1>2 DEF DataStart, SlotCount, SlotFits, FreeSpace
  <1>5. new.slots \in Words(n)
    BY <1>4, WordKinds DEF AddSlot, Words
  <1>6. first \in 0..count
    <2> HIDE DEF new, count
    <2> QED BY <1>4, FirstFreeIs
  <1>7. new.page = [page EXCEPT !.data_start = start, !.slot_count = count,
                                !.free_space = FreeSpace(page), !.first_free_slot = first]
    BY DEF AddSlot
  <1>8. ASSUME NEW words \in Words(n)
        PROVE  [new.page EXCEPT !.words = words] \in Bytes(n, c)
    <2> HIDE DEF new, start, count, first
    <2> DEFINE made == [new.page EXCEPT !.words = words]
    <2>1. page \in Fields(n, c)
      BY DEF Bytes
    <2>2. FreeSpace(page) \in Nat
      BY <1>4
    <2>3. made = [page EXCEPT !.data_start = start, !.slot_count = count,
                              !.free_space = FreeSpace(page), !.first_free_slot = first,
                              !.words = words]
      BY <1>7
    <2> HIDE DEF made
    <2>4. made \in Fields(n, c)
      <3>1. first \in Nat
        BY <1>4, <1>6
      <3> QED BY <1>4, <2>1, <2>2, <2>3, <3>1, Zenon DEF Fields
    <2>5. /\ made.id = page.id /\ made.data_start = start /\ made.slot_count = count
          /\ made.free_space = FreeSpace(page) /\ made.first_free_slot = first
      BY <2>1, <2>3 DEF Fields
    <2>6. made \in Bytes(n, c)
      BY <1>3, <1>4, <1>6, <2>4, <2>5 DEF Bytes, NoPage
    <2> QED BY <2>6 DEF made
  <1> QED BY <1>3, <1>5, <1>8

-----------------------------------------------------------------------------
(* Regular pages.                                                          *)

LEMMA MadeWords ==
    ASSUME NEW n \in Nat, NEW c \in Nat, NEW page \in Bytes(n, c), Made(n, page),
           NEW i \in 0..(page.slot_count - 1)
    PROVE  /\ page.words[i] = Slot(Base(n, i), RecordWords)
           /\ Extent(page.words[i]) = Base(n, i)..(Base(n, i) + RecordWords - 1)
           /\ page.data_start <= Base(n, i) /\ Base(n, i) \in Nat
           /\ Base(n, i) + RecordWords <= n
  <1>1. page.slot_count \in Nat /\ page.data_start \in Nat
    BY BytesFacts
  <1>2. i \in Nat /\ i < page.slot_count
    BY <1>1
  <1>3. page.words[i] = Slot(Base(n, i), RecordWords)
    BY DEF Made
  <1>4. Base(n, i) \in Int /\ Base(n, i) + RecordWords <= n
    BY <1>2, BaseStep
  <1>5. Base(n, page.slot_count) + RecordWords <= Base(n, i)
    BY <1>1, <1>2, BaseOrder
  <1>6. page.data_start <= Base(n, i)
    BY <1>5 DEF Made
  <1>7. Extent(page.words[i]) = Base(n, i)..(Base(n, i) + RecordWords - 1)
    BY <1>3, <1>4, ExtentIs
  <1> QED BY <1>1, <1>3, <1>4, <1>6, <1>7

LEMMA MadeIsWellFormed ==
    ASSUME NEW n \in Nat, NEW c \in Nat, NEW page \in Bytes(n, c), Made(n, page)
    PROVE  WellFormed(page, n)
  <1> DEFINE used == 0..(page.slot_count - 1)
  <1>1. /\ page.slot_count \in Nat /\ page.data_start \in Nat
        /\ page.slot_count <= page.data_start /\ page.data_start <= n
        /\ page.free_space = page.data_start - page.slot_count
    BY BytesFacts
  <1>2. page.first_free_slot = page.slot_count
    BY DEF Made
  <1>3. ASSUME NEW i \in used
        PROVE  /\ page.words[i][1] = "slot"
               /\ Extent(page.words[i]) \subseteq page.data_start..(n - 1)
    <2>1. /\ page.words[i] = Slot(Base(n, i), RecordWords)
          /\ Extent(page.words[i]) = Base(n, i)..(Base(n, i) + RecordWords - 1)
          /\ page.data_start <= Base(n, i) /\ Base(n, i) \in Nat
          /\ Base(n, i) + RecordWords <= n
      BY MadeWords
    <2>2. page.words[i][1] = "slot"
      BY <2>1 DEF Slot
    <2> QED BY <1>1, <2>1, <2>2, RecordAssumption
  <1>4. ASSUME NEW i \in used, NEW j \in used, i < j
        PROVE  Extent(page.words[i]) \cap Extent(page.words[j]) = {}
    <2>1. /\ Extent(page.words[i]) = Base(n, i)..(Base(n, i) + RecordWords - 1)
          /\ Base(n, i) \in Nat
      BY MadeWords
    <2>2. /\ Extent(page.words[j]) = Base(n, j)..(Base(n, j) + RecordWords - 1)
          /\ Base(n, j) \in Nat
      BY MadeWords
    <2>3. Base(n, j) + RecordWords <= Base(n, i)
      BY <1>1, <1>4, BaseOrder
    <2> QED BY <2>1, <2>2, <2>3, RecordAssumption
  <1>5. \A i, j \in used : i # j => Extent(page.words[i]) \cap Extent(page.words[j]) = {}
    <2> SUFFICES ASSUME NEW i \in used, NEW j \in used, i # j
                 PROVE  Extent(page.words[i]) \cap Extent(page.words[j]) = {}
      OBVIOUS
    <2>1. CASE i < j
      BY <1>4, <2>1
    <2>2. CASE j < i
      BY <1>4, <2>2
    <2> QED BY <1>1, <2>1, <2>2
  <1> HIDE DEF used
  <1>6. \A i \in used : /\ page.words[i][1] = "slot"
                        /\ Extent(page.words[i]) \subseteq page.data_start..(n - 1)
    BY <1>3
  <1> QED BY <1>1, <1>2, <1>5, <1>6, Zenon DEF WellFormed, used

\* The header that allocate writes, over words of any kind.
LEMMA NewPageIs ==
    ASSUME NEW n \in Nat, NEW c \in Nat, NEW f \in Frame, NEW p \in 1..c, NEW words \in Words(n)
    PROVE  LET page == Page(f, p, words, n)
           IN  /\ page \in Bytes(n, c) /\ Made(n, page) /\ RowsIn(n, page, {}, 0)
               /\ page.buffer_frame = f /\ page.id = p /\ page.words = words
               /\ page.slot_count = 0 /\ page.free_space = n
  <1> DEFINE page == Page(f, p, words, n)
  <1>1. /\ page.buffer_frame = f /\ page.id = p /\ page.words = words /\ page.slot_count = 0
        /\ page.first_free_slot = 0 /\ page.data_start = n /\ page.free_space = n
    BY DEF Page
  <1>2. page \in Fields(n, c)
    BY DEF Page, Fields
  <1> HIDE DEF page
  <1>3. page \in Bytes(n, c)
    BY <1>1, <1>2 DEF Bytes, NoPage
  <1>4. Made(n, page)
    BY <1>1, BaseStep, RecordAssumption DEF Made
  <1>5. RowsIn(n, page, {}, 0)
    BY DEF RowsIn
  <1> QED BY <1>1, <1>3, <1>4, <1>5 DEF page

\* As many rows as slots.
LEMMA RowsCounted ==
    ASSUME NEW n, NEW page, NEW S, NEW k \in Nat, RowsIn(n, page, S, k)
    PROVE  IsFiniteSet(S) /\ Cardinality(S) = k
  <1> DEFINE used == 0..(k - 1)
             at == [i \in used |-> CHOOSE r \in S : r.slot = i]
  <1>1. \A i \in used : at[i] \in S /\ at[i].slot = i
    BY DEF RowsIn
  <1>2. \A r \in S : r.slot \in used /\ at[r.slot] = r
    BY <1>1 DEF RowsIn
  <1>3. at \in Bijection(used, S)
    <2>1. at \in [used -> S]
      BY <1>1
    <2> HIDE DEF at, used
    <2>2. \A i, j \in used : at[i] = at[j] => i = j
      BY <1>1
    <2>3. \A r \in S : \E i \in used : at[i] = r
      BY <1>2
    <2> QED BY <2>1, <2>2, <2>3, Zenon DEF Bijection, Injection, Surjection, IsInjective
  <1>4. ExistsBijection(used, S)
    <2> HIDE DEF at, used
    <2> QED BY <1>3 DEF ExistsBijection
  <1>5. IsFiniteSet(used) /\ Cardinality(used) = k
    <2>1. 0 \in Int /\ k - 1 \in Int
      OBVIOUS
    <2>2. /\ IsFiniteSet(0..(k - 1))
          /\ Cardinality(0..(k - 1)) = IF 0 > k - 1 THEN 0 ELSE k - 1 - 0 + 1
      BY <2>1, FS_Interval
    <2> QED BY <2>2
  <1> HIDE DEF used
  <1> QED BY <1>4, <1>5, FS_Bijection

\* What a good page says of its rows.
LEMMA GoodIsFound ==
    ASSUME NEW n \in Nat, NEW c \in Nat, NEW page \in Bytes(n, c), NEW p, NEW S,
           Good(n, page, p, S)
    PROVE  /\ page.first_free_slot = Cardinality(S)
           /\ \A r \in S : /\ page.words[r.slot][1] = "slot"
                           /\ \A i \in Extent(page.words[r.slot]) :
                                page.words[i] = RecordPart(r.row)
           /\ page.id = NoPage \/ (page.id = p /\ WellFormed(page, n))
  <1>1. CASE page.id = NoPage
    <2>1. page.first_free_slot = 0
      BY <1>1, BytesFacts
    <2>2. S = {}
      BY <1>1 DEF Good
    <2> QED BY <1>1, <2>1, <2>2, FS_EmptySet
  <1>2. CASE page.id # NoPage
    <2>1. page.id = p /\ Made(n, page) /\ RowsIn(n, page, S, page.slot_count)
      BY <1>2 DEF Good
    <2>2. page.slot_count \in Nat /\ page.first_free_slot = page.slot_count
      BY <2>1, BytesFacts DEF Made
    <2>3. Cardinality(S) = page.slot_count
      BY <2>1, <2>2, RowsCounted
    <2>4. ASSUME NEW r \in S
          PROVE  /\ page.words[r.slot][1] = "slot"
                 /\ \A i \in Extent(page.words[r.slot]) : page.words[i] = RecordPart(r.row)
      <3>1. r.slot \in 0..(page.slot_count - 1)
        BY <2>1 DEF RowsIn
      <3>2. /\ page.words[r.slot] = Slot(Base(n, r.slot), RecordWords)
            /\ Extent(page.words[r.slot]) =
                 Base(n, r.slot)..(Base(n, r.slot) + RecordWords - 1)
        BY <2>1, <3>1, MadeWords
      <3>3. page.words[r.slot][1] = "slot"
        BY <3>2 DEF Slot
      <3> QED BY <2>1, <3>2, <3>3 DEF RowsIn
    <2>5. WellFormed(page, n)
      BY <2>1, MadeIsWellFormed
    <2> QED BY <2>1, <2>2, <2>3, <2>4, <2>5
  <1> QED BY <1>1, <1>2

-----------------------------------------------------------------------------
(* What addSlot and write make of a regular page.                          *)

LEMMA Remainder ==
    ASSUME NEW a \in Nat, NEW b \in Nat, b >= 1, NEW k \in Nat, NEW r \in 0..(b - 1),
           a = k * b + r
    PROVE  a % b = r
  OBVIOUS

\* A page has room for its next slot unless n is one word short of a multiple.
LEMMA NoRoomWhenUneven ==
    ASSUME NEW n \in Nat, NEW c \in Nat, NEW page \in Bytes(n, c), Made(n, page),
           RecordWords <= page.free_space, ~SlotFits(page)
    PROVE  n % (RecordWords + 1) = RecordWords
  <1> DEFINE k == page.slot_count
             w == RecordWords
  <1>1. /\ k \in Nat /\ page.data_start \in Nat /\ k <= page.data_start
        /\ page.free_space = page.data_start - k
    BY BytesFacts
  <1>2. page.first_free_slot = k /\ page.data_start = n - w * (k + 1) + w
    BY DEF Made, Base
  <1>3. w \in Nat \ {0}
    BY RecordAssumption
  <1>4. ~(k + 1 <= page.data_start - w)
    BY <1>2 DEF SlotFits, SlotCount, DataStart
  <1>5. w <= page.data_start - k
    BY <1>1
  <1> HIDE DEF k, w
  <1>6. n = k * (w + 1) + w
    <2>1. w * (k + 1) = w * k + w /\ k * (w + 1) = w * k + k
      BY <1>1, <1>3
    <2>2. w * k \in Nat
      BY <1>1, <1>3, Product
    <2> QED BY <1>1, <1>2, <1>3, <1>4, <1>5, <2>1, <2>2
  <1>7. n % (w + 1) = w
    <2> DEFINE m == w + 1
    <2>1. m \in Nat /\ m >= 1 /\ w \in 0..(m - 1) /\ n = k * m + w
      BY <1>3, <1>6
    <2>2. n % m = w
      <3> HIDE DEF m
      <3> QED BY <1>1, <2>1, Remainder
    <2> QED BY <2>2
  <1> QED BY <1>7 DEF w

\* Where it has, addSlot makes it regular again, with one slot more and the same rows.
LEMMA AddSlotToMade ==
    ASSUME NEW n \in Nat, NEW c \in Nat, NEW page \in Bytes(n, c), NEW S,
           Made(n, page), RowsIn(n, page, S, page.slot_count),
           RecordWords <= page.free_space, SlotFits(page)
    PROVE  LET new == AddSlot(page, page.words)
               made == [new.page EXCEPT !.words = new.slots]
           IN  /\ Made(n, made) /\ made.slot_count = page.slot_count + 1
               /\ RowsIn(n, made, S, page.slot_count)
               /\ made.id = page.id /\ made.buffer_frame = page.buffer_frame
  <1> DEFINE new == AddSlot(page, page.words)
             made == [new.page EXCEPT !.words = new.slots]
             k == page.slot_count
             start == DataStart(page)
             first == FirstFreeSlot(new.slots, k + 1)
             slot == Slot(Base(n, k), RecordWords)
  <1>1. /\ k \in Nat /\ page.data_start \in Nat
        /\ k <= page.data_start /\ page.data_start <= n
        /\ page.free_space = page.data_start - k /\ page.words \in Words(n)
    BY BytesFacts
  <1>2. page.first_free_slot = k /\ page.data_start = Base(n, k) + RecordWords
    BY DEF Made
  <1>3. RecordWords \in Nat \ {0} /\ Base(n, k) \in Int
    BY <1>1, BaseStep, RecordAssumption
  <1>4. start = Base(n, k) /\ SlotCount(page) = k + 1
    BY <1>2, <1>3 DEF DataStart, SlotCount
  <1>5. k + 1 <= Base(n, k) /\ k < n
    BY <1>1, <1>2, <1>3, <1>4 DEF SlotFits
  <1>6. new.slots = [page.words EXCEPT ![k] = slot]
    BY <1>2, <1>4 DEF AddSlot
  <1>7. /\ made = [page EXCEPT !.data_start = start, !.slot_count = k + 1,
                               !.free_space = FreeSpace(page), !.first_free_slot = first,
                               !.words = new.slots]
    BY <1>4 DEF AddSlot
  <1>8. /\ made.data_start = start /\ made.slot_count = k + 1 /\ made.first_free_slot = first
        /\ made.words = new.slots
        /\ made.id = page.id /\ made.buffer_frame = page.buffer_frame
    <2>1. page \in Fields(n, c)
      BY DEF Bytes
    <2> HIDE DEF made, new, k, start, first
    <2> QED BY <1>7, <2>1 DEF Fields
  <1>9. new.slots[k] = slot /\ \A i \in 0..(n - 1) : i # k => new.slots[i] = page.words[i]
    BY <1>1, <1>5, <1>6 DEF Words
  <1>10. \A i \in 0..k : new.slots[i] = Slot(Base(n, i), RecordWords)
    <2> SUFFICES ASSUME NEW i \in 0..k
                 PROVE  new.slots[i] = Slot(Base(n, i), RecordWords)
      OBVIOUS
    <2>1. CASE i = k
      BY <1>9, <2>1
    <2>2. CASE i # k
      <3>1. i \in 0..(k - 1) /\ i \in 0..(n - 1)
        BY <1>1, <1>5, <2>2
      <3>2. page.words[i] = Slot(Base(n, i), RecordWords)
        BY <3>1 DEF Made
      <3> QED BY <1>9, <2>2, <3>1, <3>2
    <2> QED BY <2>1, <2>2
  <1>11. first = k + 1
    <2> DEFINE now == new.slots
               m == k + 1
    <2>1. m \in Nat
      BY <1>1
    <2>2. \A i \in 0..k : now[i] # Zero
      BY <1>10 DEF Slot, Zero
    <2>3. ASSUME NEW i \in 0..(m - 1)
          PROVE  now[i] # Zero
      <3>1. i \in 0..k
        BY <1>1
      <3> QED BY <2>2, <3>1, Zenon
    <2>4. FirstFreeSlot(now, m) = m
      <3> HIDE DEF now, m
      <3> QED BY <2>1, <2>3, FirstFreeIs
    <2> QED BY <2>4
  <1>12. Made(n, made)
    <2>1. made.data_start = Base(n, k + 1) + RecordWords
      BY <1>1, <1>3, <1>4, <1>8, BaseStep
    <2>2. \A i \in 0..(made.slot_count - 1) : made.words[i] = Slot(Base(n, i), RecordWords)
      BY <1>1, <1>8, <1>10
    <2> QED BY <1>8, <1>11, <2>1, <2>2 DEF Made
  <1>13. RowsIn(n, made, S, k)
    <2>1. ASSUME NEW r \in S, NEW i \in Base(n, r.slot)..(Base(n, r.slot) + RecordWords - 1)
          PROVE  made.words[i] = RecordPart(r.row)
      <3>1. r.slot \in Nat /\ r.slot < k /\ page.words[i] = RecordPart(r.row)
        BY <1>1 DEF RowsIn
      <3>2. Base(n, r.slot) \in Int /\ Base(n, r.slot) + RecordWords <= n
        BY <3>1, BaseStep
      <3>3. Base(n, k) + RecordWords <= Base(n, r.slot)
        BY <1>1, <3>1, BaseOrder
      <3>4. i \in 0..(n - 1) /\ i # k
        BY <1>1, <1>3, <1>5, <3>2, <3>3
      <3> QED BY <1>8, <1>9, <3>1, <3>4
    <2> QED BY <2>1, Zenon DEF RowsIn
  <1> QED BY <1>8, <1>12, <1>13

\* write puts the record where the slot without a row says: no other one changes.
LEMMA WriteToMade ==
    ASSUME NEW n \in Nat, NEW c \in Nat, NEW page \in Bytes(n, c), NEW S, NEW k \in Nat,
           Made(n, page), page.slot_count = k + 1, RowsIn(n, page, S, k),
           NEW r, r.slot = k, r.row \in Nat
    PROVE  LET words == [i \in DOMAIN page.words |->
                           IF i \in Extent(page.words[k]) THEN RecordPart(r.row)
                                                          ELSE page.words[i]]
               written == [page EXCEPT !.words = words]
           IN  Made(n, written) /\ RowsIn(n, written, S \cup {r}, k + 1)
  <1> DEFINE words == [i \in DOMAIN page.words |->
                         IF i \in Extent(page.words[k]) THEN RecordPart(r.row)
                                                        ELSE page.words[i]]
             written == [page EXCEPT !.words = words]
             at == Base(n, k)
  <1>1. DOMAIN page.words = 0..(n - 1) /\ page.data_start \in Nat /\ k + 1 <= page.data_start
    BY BytesFacts DEF Words
  <1>2. /\ page.words[k] = Slot(at, RecordWords)
        /\ Extent(page.words[k]) = at..(at + RecordWords - 1)
        /\ page.data_start <= at /\ at \in Nat /\ at + RecordWords <= n
    <2>1. k \in 0..(page.slot_count - 1)
      OBVIOUS
    <2> QED BY <2>1, MadeWords
  <1>3. RecordWords \in Nat \ {0}
    BY RecordAssumption
  <1>4. \A i \in 0..(n - 1) : words[i] = IF i \in at..(at + RecordWords - 1)
                                         THEN RecordPart(r.row) ELSE page.words[i]
    BY <1>1, <1>2, Zenon
  <1>5. /\ written.words = words /\ written.slot_count = page.slot_count
        /\ written.data_start = page.data_start
        /\ written.first_free_slot = page.first_free_slot
    <2>1. page \in Fields(n, c)
      BY DEF Bytes
    <2> HIDE DEF words
    <2> QED BY <2>1 DEF Fields
  <1> HIDE DEF words, written
  <1>6. Made(n, written)
    <2>1. ASSUME NEW i \in 0..(page.slot_count - 1)
          PROVE  written.words[i] = Slot(Base(n, i), RecordWords)
      <3>1. i \in 0..(n - 1) /\ i \notin at..(at + RecordWords - 1)
        BY <1>1, <1>2, <1>3
      <3>2. written.words[i] = page.words[i]
        BY <1>4, <1>5, <3>1
      <3> QED BY <3>2 DEF Made
    <2>2. /\ written.first_free_slot = written.slot_count
          /\ written.data_start = Base(n, written.slot_count) + RecordWords
      BY <1>5 DEF Made
    <2> QED BY <1>5, <2>1, <2>2 DEF Made
  <1>7. ASSUME NEW s \in S \cup {r}
        PROVE  /\ s.slot \in 0..k
               /\ \A i \in Base(n, s.slot)..(Base(n, s.slot) + RecordWords - 1) :
                    written.words[i] = RecordPart(s.row)
    <2>1. CASE s = r
      <3>1. \A i \in at..(at + RecordWords - 1) : i \in 0..(n - 1)
        BY <1>2, <1>3
      <3> QED BY <1>4, <1>5, <2>1, <3>1
    <2>2. CASE s \in S
      <3>1. s.slot \in 0..(k - 1)
        BY <2>2 DEF RowsIn
      <3>2. Base(n, s.slot) \in Int /\ Base(n, s.slot) + RecordWords <= n
        BY <3>1, BaseStep
      <3>3. at + RecordWords <= Base(n, s.slot)
        BY <3>1, BaseOrder
      <3>4. ASSUME NEW i \in Base(n, s.slot)..(Base(n, s.slot) + RecordWords - 1)
            PROVE  written.words[i] = RecordPart(s.row)
        <4>1. i \in 0..(n - 1) /\ i \notin at..(at + RecordWords - 1)
          BY <1>2, <1>3, <3>2, <3>3
        <4>2. page.words[i] = RecordPart(s.row)
          BY <2>2 DEF RowsIn
        <4> QED BY <1>4, <1>5, <4>1, <4>2
      <3> QED BY <3>1, <3>4
    <2> QED BY <2>1, <2>2
  <1>8. \A i \in 0..k : \E s \in S \cup {r} : s.slot = i
    <2> SUFFICES ASSUME NEW i \in 0..k
                 PROVE  \E s \in S \cup {r} : s.slot = i
      OBVIOUS
    <2>1. CASE i = k
      BY <2>1
    <2>2. CASE i # k
      <3>1. i \in 0..(k - 1)
        BY <2>2
      <3> QED BY <3>1 DEF RowsIn
    <2> QED BY <2>1, <2>2
  <1>9. \A s, t \in S \cup {r} : s.slot = t.slot => s = t
    <2>1. \A s \in S : s.slot # k
      BY DEF RowsIn
    <2> QED BY <2>1 DEF RowsIn
  <1>10. RowsIn(n, written, S \cup {r}, k + 1)
    <2>1. k + 1 - 1 = k
      OBVIOUS
    <2> QED BY <1>7, <1>8, <1>9, <2>1 DEF RowsIn
  <1> QED BY <1>6, <1>10 DEF words, written

\* What a good page says does not depend on whose rows they are.
LEMMA CommitKeepsGood ==
    ASSUME NEW n, NEW page, NEW p, NEW S, NEW new, Good(n, page, p, S),
           \A r \in S : new[r].slot = r.slot /\ new[r].row = r.row
    PROVE  Good(n, page, p, {new[r] : r \in S})
  <1> DEFINE T == {new[r] : r \in S}
  <1>1. ASSUME NEW k, RowsIn(n, page, S, k)
        PROVE  RowsIn(n, page, T, k)
    <2>1. /\ \A r \in S : /\ r.slot \in 0..(k - 1)
                          /\ \A i \in Base(n, r.slot)..(Base(n, r.slot) + RecordWords - 1) :
                               page.words[i] = RecordPart(r.row)
          /\ \A i \in 0..(k - 1) : \E r \in S : r.slot = i
          /\ \A r, s \in S : r.slot = s.slot => r = s
      BY <1>1, Zenon DEF RowsIn
    <2>2. ASSUME NEW t \in T
          PROVE  /\ t.slot \in 0..(k - 1)
                 /\ \A i \in Base(n, t.slot)..(Base(n, t.slot) + RecordWords - 1) :
                      page.words[i] = RecordPart(t.row)
      <3>1. PICK r \in S : t = new[r]
        BY Zenon
      <3>2. t.slot = r.slot /\ t.row = r.row
        BY <3>1, Zenon
      <3> QED BY <2>1, <3>2
    <2>3. ASSUME NEW i \in 0..(k - 1)
          PROVE  \E t \in T : t.slot = i
      <3>1. PICK r \in S : r.slot = i
        BY <2>1, Zenon
      <3>2. new[r] \in T /\ new[r].slot = i
        BY <3>1
      <3> QED BY <3>2, Zenon
    <2>4. ASSUME NEW s \in T, NEW t \in T, s.slot = t.slot
          PROVE  s = t
      <3>1. PICK q \in S : s = new[q]
        BY Zenon
      <3>2. PICK r \in S : t = new[r]
        BY Zenon
      <3>3. q.slot = r.slot
        BY <2>4, <3>1, <3>2
      <3> QED BY <2>1, <3>1, <3>2, <3>3, Zenon
    <2> HIDE DEF T
    <2> QED BY <2>2, <2>3, <2>4, Zenon DEF RowsIn
  <1>2. S = {} => T = {}
    BY Zenon
  <1> HIDE DEF T
  <1>3. Good(n, page, p, T)
    BY <1>1, <1>2, Zenon DEF Good
  <1> QED BY <1>3 DEF T

\* Nor on the frame that the page points to.
LEMMA PointerKeepsGood ==
    ASSUME NEW n \in Nat, NEW c \in Nat, NEW page \in Bytes(n, c), NEW f \in Frame
    PROVE  LET put == [page EXCEPT !.buffer_frame = f]
           IN  /\ put \in Bytes(n, c) /\ put.buffer_frame = f
               /\ put.first_free_slot = page.first_free_slot
               /\ \A p, S : Good(n, page, p, S) => Good(n, put, p, S)
  <1> DEFINE put == [page EXCEPT !.buffer_frame = f]
  <1>1. page \in Fields(n, c)
    BY DEF Bytes
  <1>2. put \in Fields(n, c)
    <2>1. f \in {NoFrame} \cup Frame
      OBVIOUS
    <2> QED BY <1>1, <2>1, Zenon DEF Fields
  <1>3. /\ put.id = page.id /\ put.slot_count = page.slot_count
        /\ put.data_start = page.data_start /\ put.first_free_slot = page.first_free_slot
        /\ put.free_space = page.free_space /\ put.words = page.words /\ put.buffer_frame = f
    BY <1>1 DEF Fields
  <1> HIDE DEF put
  <1>4. put \in Bytes(n, c)
    BY <1>2, <1>3, Zenon DEF Bytes
  <1>5. ASSUME NEW p, NEW S, Good(n, page, p, S)
        PROVE  Good(n, put, p, S)
    <2>1. Made(n, page) => Made(n, put)
      BY <1>3, Zenon DEF Made
    <2>2. \A k : RowsIn(n, page, S, k) => RowsIn(n, put, S, k)
      BY <1>3, Zenon DEF RowsIn
    <2> QED BY <1>3, <1>5, <2>1, <2>2, Zenon DEF Good
  <1> QED BY <1>3, <1>4, <1>5 DEF put

LEMMA WordsKeepTyped ==
    ASSUME NEW n \in Nat, NEW c \in Nat, NEW page \in Bytes(n, c), NEW words \in Words(n)
    PROVE  [page EXCEPT !.words = words] \in Bytes(n, c)
  <1> DEFINE new == [page EXCEPT !.words = words]
  <1>1. page \in Fields(n, c)
    BY DEF Bytes
  <1>2. new \in Fields(n, c)
    BY <1>1, Zenon DEF Fields
  <1>3. /\ new.id = page.id /\ new.slot_count = page.slot_count
        /\ new.data_start = page.data_start /\ new.first_free_slot = page.first_free_slot
        /\ new.free_space = page.free_space
    BY <1>1 DEF Fields
  <1> HIDE DEF new
  <1>4. new \in Bytes(n, c)
    BY <1>2, <1>3, Zenon DEF Bytes
  <1> QED BY <1>4 DEF new

-----------------------------------------------------------------------------
(* Fixing a page.                                                          *)

LEMMA Sizes ==
    ASSUME HeapTypeInv
    PROVE  /\ page_words \in Nat /\ page_words > RecordWords /\ RecordWords \in Nat \ {0}
           /\ page_count \in Nat
  BY HeapAssumption, RecordAssumption DEF HeapTypeInv, PagesHeld

LEMMA HeldFrame ==
    ASSUME FramesShared, NEW f \in Frame, page_id[f] # NoPage
    PROVE  Mapped(page_id[f]) /\ FrameOf(page_id[f]) = f
  BY DEF FramesShared, Mapped, FrameOf

\* A page that has no frame gets the first free one, which has no page.
LEMMA FrameOfIs ==
    ASSUME FramesShared, NEW p, p # NoPage, CanFix(p)
    PROVE  /\ FrameOf(p) \in Frame
           /\ Mapped(p) => page_id[FrameOf(p)] = p
           /\ ~Mapped(p) => /\ page_id[FrameOf(p)] = NoPage
                            /\ 1 \in DOMAIN free_frames /\ FrameOf(p) = free_frames[1]
                            /\ \A g \in Frame : page_id[g] # p
           /\ \A g \in Frame : page_id[g] = p => g = FrameOf(p)
  <1>1. CASE Mapped(p)
    <2>1. FrameOf(p) \in Frame /\ page_id[FrameOf(p)] = p
      BY <1>1 DEF Mapped, FrameOf
    <2> QED BY <1>1, <2>1 DEF FramesShared
  <1>2. CASE ~Mapped(p)
    <2>1. free_frames \in Seq(Frame) /\ free_frames # <<>>
      BY <1>2 DEF CanFix, FramesShared
    <2>2. 1 \in DOMAIN free_frames /\ Head(free_frames) = free_frames[1] /\ free_frames[1] \in Frame
      BY <2>1
    <2>3. FrameOf(p) = free_frames[1]
      BY <1>2, <2>2 DEF FrameOf
    <2>4. page_id[free_frames[1]] = NoPage
      BY <2>2 DEF FramesShared
    <2>5. \A g \in Frame : page_id[g] # p
      BY <1>2 DEF Mapped
    <2> QED BY <1>2, <2>2, <2>3, <2>4, <2>5
  <1> QED BY <1>1, <1>2

\* What fix_page leaves of the frames: still one page each, and dirty only what is fixed.
LEMMA FixKeepsFrames ==
    ASSUME HeapTypeInv, NEW c \in Nat, page_count' = c, page_count <= c,
           NEW p \in 1..c, CanFix(p), FixPage(p), dirty' \subseteq dirty \cup {FrameOf(p)}
    PROVE  FramesShared' /\ DirtyFixed'
  <1> DEFINE f == FrameOf(p)
             next == IF Mapped(p) THEN free_frames ELSE Tail(free_frames)
  <1>1. FramesShared /\ DirtyFixed /\ page_count \in Nat
    BY DEF HeapTypeInv, PagesHeld
  <1>2. p # NoPage
    BY DEF NoPage
  <1>3. /\ f \in Frame
        /\ Mapped(p) => page_id[f] = p
        /\ ~Mapped(p) => /\ page_id[f] = NoPage
                         /\ 1 \in DOMAIN free_frames /\ f = free_frames[1]
        /\ \A g \in Frame : page_id[g] = p => g = f
    BY <1>1, <1>2, FrameOfIs
  <1>4. /\ page_id' = [page_id EXCEPT ![f] = p]
        /\ free_frames' = next
        /\ txn_pages' = txn_pages \cup {p}
    BY DEF FixPage
  <1> HIDE DEF f
  <1>5. /\ page_id \in [Frame -> {NoPage} \cup (1..page_count)]
        /\ \A i, g \in Frame : page_id[i] = page_id[g] /\ page_id[i] # NoPage => i = g
    BY <1>1 DEF FramesShared, PageNo
  <1>6. page_id' \in [Frame -> {NoPage} \cup (1..c)]
    BY <1>1, <1>3, <1>4, <1>5
  <1>7. \A i, g \in Frame : page_id'[i] = page_id'[g] /\ page_id'[i] # NoPage => i = g
    BY <1>3, <1>4, <1>5
  <1>8. /\ next \in Seq(Frame)
        /\ \A i \in DOMAIN next : next[i] # f /\ page_id[next[i]] = NoPage
        /\ \A i, j \in DOMAIN next : next[i] = next[j] => i = j
    <2>1. /\ free_frames \in Seq(Frame)
          /\ \A i \in DOMAIN free_frames : page_id[free_frames[i]] = NoPage
          /\ \A i, j \in DOMAIN free_frames : free_frames[i] = free_frames[j] => i = j
      BY <1>1 DEF FramesShared
    <2>2. CASE Mapped(p)
      BY <1>2, <1>3, <2>1, <2>2
    <2>3. CASE ~Mapped(p)
      <3>1. next = Tail(free_frames)
        BY <2>3
      <3>2. 1 \in DOMAIN free_frames /\ f = free_frames[1]
        BY <1>3, <2>3
      <3> HIDE DEF next
      <3>3. free_frames # <<>>
        BY <2>1, <3>2
      <3>4. /\ next \in Seq(Frame) /\ Len(next) = Len(free_frames) - 1
            /\ \A i \in 1..Len(next) : next[i] = free_frames[i + 1]
        BY <2>1, <3>1, <3>3
      <3>5. \A i \in DOMAIN next : next[i] = free_frames[i + 1] /\ i + 1 \in DOMAIN free_frames
                                                               /\ i + 1 # 1 /\ i \in Nat
        BY <2>1, <3>4
      <3> QED BY <2>1, <3>2, <3>4, <3>5
    <2> QED BY <2>2, <2>3
  <1> HIDE DEF next
  <1>9. \A i \in DOMAIN next : page_id'[next[i]] = NoPage
    <2>1. \A i \in DOMAIN next : next[i] \in Frame
      BY <1>8
    <2> QED BY <1>4, <1>5, <1>8, <2>1
  <1>10. FramesShared'
    <2>1. PageNo' = 1..c
      BY DEF PageNo
    <2> QED BY <1>4, <1>6, <1>7, <1>8, <1>9, <2>1, Zenon DEF FramesShared
  <1>11. DirtyFixed'
    <2>1. dirty \subseteq Frame /\ txn_pages \subseteq 1..page_count
          /\ \A g \in dirty : page_id[g] \in txn_pages
      BY <1>1 DEF DirtyFixed, PageNo
    <2>2. txn_pages' \subseteq 1..c
      BY <1>1, <1>4, <2>1
    <2>3. dirty' \subseteq dirty \cup {f}
      BY DEF f
    <2>4. \A g \in dirty' : g \in Frame /\ page_id'[g] \in txn_pages'
      BY <1>3, <1>4, <1>5, <2>1, <2>3
    <2> QED BY <2>2, <2>4 DEF DirtyFixed, PageNo
  <1> QED BY <1>10, <1>11

\* The bytes that fix_page finds for a page.
LEMMA FixedIsTyped ==
    ASSUME HeapTypeInv, NEW p \in Nat, p # NoPage, CanFix(p)
    PROVE  Fixed(p) \in Bytes(page_words, page_count)
  <1>1. FrameOf(p) \in Frame
    BY FrameOfIs DEF HeapTypeInv
  <1>2. /\ data \in [Frame -> Bytes(page_words, page_count)]
        /\ disk \in Seq(Bytes(page_words, page_count))
    BY DEF HeapTypeInv, PagesHeld
  <1>3. CASE Mapped(p) \/ p > Len(disk)
    BY <1>1, <1>2, <1>3 DEF Fixed
  <1>4. CASE ~(Mapped(p) \/ p > Len(disk))
    <2>1. p \in 1..Len(disk)
      BY <1>2, <1>4 DEF NoPage
    <2>2. disk[p] \in Bytes(page_words, page_count)
      BY <1>2, <2>1
    <2> QED BY <1>4, <2>2 DEF Fixed
  <1> QED BY <1>3, <1>4

LEMMA SlotsAreWords ==
    ASSUME HeapTypeInv, NEW p, FrameOf(p) \in Frame,
           NEW page \in Bytes(page_words, page_count)
    PROVE  SlotsOf(p, page) \in Words(page_words)
  <1>1. page_words \in Nat /\ page_count \in Nat
    BY Sizes
  <1>2. page.buffer_frame \in {NoFrame} \cup Frame /\ page.words \in Words(page_words)
    BY <1>1, BytesFacts
  <1>3. CASE page.buffer_frame = FrameOf(p)
    BY <1>2, <1>3 DEF SlotsOf, Frame, NoFrame
  <1>4. CASE page.buffer_frame # FrameOf(p) /\ page.buffer_frame = NoFrame
    <2>1. Blank(page_words).words \in Words(page_words)
      BY <1>1, BlankIs, BytesFacts
    <2> QED BY <1>4, <2>1 DEF SlotsOf
  <1>5. CASE page.buffer_frame # FrameOf(p) /\ page.buffer_frame # NoFrame
    <2>1. data[page.buffer_frame] \in Bytes(page_words, page_count)
      BY <1>2, <1>5 DEF HeapTypeInv, PagesHeld
    <2>2. data[page.buffer_frame].words \in Words(page_words)
      BY <1>1, <2>1, BytesFacts
    <2> QED BY <1>5, <2>2 DEF SlotsOf
  <1> QED BY <1>3, <1>4, <1>5

\* Unless it takes over another page's frame, the page holds its rows.
LEMMA FixedIsGood ==
    ASSUME HeapTypeInv, CleanInv, NEW p \in PageNo, CanFix(p), ~TakesOver(p),
           ~(pc = "write" /\ p = tid[1])
    PROVE  Good(page_words, Fixed(p), p, Here(p))
  <1>1. p # NoPage /\ p \in Nat /\ page_words \in Nat /\ page_count \in Nat
    BY Sizes DEF PageNo, NoPage
  <1>2. /\ FrameOf(p) \in Frame
        /\ Mapped(p) => page_id[FrameOf(p)] = p
        /\ ~Mapped(p) => \A g \in Frame : page_id[g] # p
    BY <1>1, FrameOfIs DEF HeapTypeInv
  <1>3. CASE Mapped(p)
    <2>1. Good(page_words, data[FrameOf(p)], p, Here(p))
      BY <1>1, <1>2, <1>3 DEF CleanInv, FramesHaveRows
    <2> QED BY <1>3, <2>1 DEF Fixed
  <1>4. CASE ~Mapped(p)
    <2>1. \A r \in Here(p) : ~r.own
      BY <1>2, <1>4 DEF CleanInv, OwnRowsDirty, Here, HeapTypeInv, DirtyFixed
    <2>2. Here(p) = Committed(p)
      BY <2>1 DEF Here, Committed
    <2>3. Good(page_words, Stored(p), p, Here(p))
      BY <2>2 DEF CleanInv, FileHasCommitted
    <2>4. CASE p <= Len(disk)
      <3>1. ~(p > Len(disk))
        BY <1>1, <2>4 DEF HeapTypeInv, PagesHeld
      <3> QED BY <1>4, <2>3, <2>4, <3>1 DEF Fixed, Stored
    <2>5. CASE ~(p <= Len(disk))
      <3>1. p > Len(disk)
        BY <1>1, <2>5 DEF HeapTypeInv, PagesHeld
      <3>2. Fixed(p).id = NoPage
        BY <1>4, <3>1 DEF TakesOver
      <3>3. Stored(p).id = NoPage
        BY <1>1, <2>5, BlankIs DEF Stored
      <3>4. Here(p) = {}
        BY <2>3, <3>3 DEF Good
      <3> QED BY <3>2, <3>4 DEF Good
    <2> QED BY <2>4, <2>5
  <1> QED BY <1>3, <1>4

-----------------------------------------------------------------------------
(* What every handler does: fix a page and leave bytes in its frame.       *)

LEMMA DataTyped ==
    ASSUME HeapTypeInv, NEW c \in Nat, page_count <= c
    PROVE  /\ data \in [Frame -> Bytes(page_words, c)] /\ disk \in Seq(Bytes(page_words, c))
           /\ Bytes(page_words, page_count) \subseteq Bytes(page_words, c)
  <1>1. Bytes(page_words, page_count) \subseteq Bytes(page_words, c)
    BY Sizes, BytesGrow
  <1> HIDE DEF Bytes
  <1>2. /\ data \in [Frame -> Bytes(page_words, page_count)]
        /\ disk \in Seq(Bytes(page_words, page_count))
    BY DEF HeapTypeInv, PagesHeld
  <1>3. data \in [Frame -> Bytes(page_words, c)]
    BY <1>1, <1>2
  <1>4. disk \in Seq(Bytes(page_words, c))
    <2>1. disk \in [1..Len(disk) -> Bytes(page_words, page_count)] /\ Len(disk) \in Nat
      BY <1>2
    <2>2. disk \in [1..Len(disk) -> Bytes(page_words, c)]
      BY <1>1, <2>1
    <2> QED BY <2>1, <2>2
  <1> QED BY <1>1, <1>3, <1>4

\* The pages that are not in their frame's place: bytes and the file keep their types.
LEMMA PagesStayHeld ==
    ASSUME HeapTypeInv, NEW c \in Nat, page_count' = c, page_count <= c,
           UNCHANGED <<page_words, disk>>, data' \in [Frame -> Bytes(page_words, c)]
    PROVE  PagesHeld'
  <1>1. page_words \in PageSizes /\ Len(disk) <= page_count /\ page_count \in Nat
    BY DEF HeapTypeInv, PagesHeld
  <1>2. disk \in Seq(Bytes(page_words, c))
    BY DataTyped
  <1>3. Len(disk) \in Nat
    BY <1>2
  <1> QED BY <1>1, <1>2, <1>3 DEF PagesHeld

LEMMA RowsStayTyped ==
    ASSUME HeapTypeInv, NEW c \in Nat, page_count' = c, page_count <= c,
           UNCHANGED <<page_words, last_row>>, rows' \subseteq rows, clean' \in BOOLEAN
    PROVE  RowsTyped'
  <1>1. /\ last_row \in Nat /\ page_count \in Nat
        /\ rows \subseteq [row : 1..last_row, page : 1..page_count, slot : 0..page_words,
                           own : BOOLEAN]
    BY Sizes DEF HeapTypeInv, RowsTyped, PageNo
  <1>2. rows' \subseteq [row : 1..last_row, page : 1..c, slot : 0..page_words, own : BOOLEAN]
    BY <1>1
  <1> QED BY <1>1, <1>2 DEF RowsTyped, PageNo

\* A page that is not counted yet has no rows, and is not in the file.
LEMMA StoredIsGood ==
    ASSUME HeapTypeInv, FileHasCommitted, NEW p \in Nat, p # NoPage
    PROVE  Good(page_words, Stored(p), p, Committed(p))
  <1>1. page_words \in Nat /\ page_count \in Nat
    BY Sizes
  <1>2. CASE p \in PageNo
    BY <1>2 DEF FileHasCommitted
  <1>3. CASE p \notin PageNo
    <2>1. Committed(p) = {}
      BY <1>3 DEF HeapTypeInv, RowsTyped, Committed
    <2>2. ~(p <= Len(disk))
      BY <1>1, <1>3 DEF HeapTypeInv, PagesHeld, PageNo, NoPage
    <2>3. Stored(p).id = NoPage
      BY <1>1, <2>2, BlankIs DEF Stored
    <2> QED BY <2>1, <2>3 DEF Good
  <1> QED BY <1>2, <1>3

\* A handler that leaves good bytes, or the page that write is called for, in the frame.
LEMMA FixKeepsRows ==
    ASSUME HeapTypeInv, CleanInv, NEW c \in Nat, page_count' = c, page_count <= c,
           NEW p \in 1..c, CanFix(p), FixPage(p), NEW page,
           data' = [data EXCEPT ![FrameOf(p)] = page],
           UNCHANGED <<page_words, dirty, disk, rows>>, pc # "write",
           \/ pc' = "write" /\ tid'[1] = p
           \/ pc' # "write" /\ Good(page_words, page, p, Here(p))
    PROVE  FileHasCommitted' /\ FramesHaveRows' /\ OwnRowsDirty'
  <1> DEFINE f == FrameOf(p)
  <1>1. p # NoPage /\ page_words \in Nat /\ page_count \in Nat
    BY Sizes DEF NoPage
  <1>2. /\ f \in Frame
        /\ Mapped(p) => page_id[f] = p
        /\ ~Mapped(p) => page_id[f] = NoPage
    BY <1>1, FrameOfIs DEF HeapTypeInv
  <1>3. page_id' = [page_id EXCEPT ![f] = p] /\ page_id \in [Frame -> {NoPage} \cup PageNo]
    BY DEF FixPage, HeapTypeInv, FramesShared
  <1>4. data \in [Frame -> Bytes(page_words, page_count)]
    BY DEF HeapTypeInv, PagesHeld
  <1>5. \A q \in PageNo' : Stored(q)' = Stored(q) /\ Committed(q)' = Committed(q)
                                                  /\ Here(q)' = Here(q)
    BY DEF Stored, Committed, Here
  <1>6. \A q \in 1..c : Good(page_words, Stored(q), q, Committed(q))
    BY StoredIsGood DEF CleanInv, NoPage
  <1>7. FileHasCommitted'
    <2>1. PageNo' = 1..c
      BY DEF PageNo
    <2>2. ASSUME NEW q \in 1..c
          PROVE  Good(page_words, Stored(q), q, Committed(q))'
      <3>1. Stored(q)' = Stored(q) /\ Committed(q)' = Committed(q)
        BY <1>5, <2>1
      <3> QED BY <1>6, <3>1
    <2> QED BY <2>1, <2>2 DEF FileHasCommitted
  <1>8. FramesHaveRows'
    <2> SUFFICES ASSUME NEW g \in Frame, page_id'[g] # NoPage,
                        ~(pc' = "write" /\ page_id'[g] = tid'[1])
                 PROVE  Good(page_words, data'[g], page_id'[g],
                             {r \in rows : r.page = page_id'[g]})
      BY DEF FramesHaveRows, Here
    <2> HIDE DEF f
    <2>1. CASE g = f
      <3>1. page_id'[g] = p /\ data'[g] = page
        BY <1>2, <1>3, <1>4, <2>1 DEF f
      <3> QED BY <3>1 DEF Here
    <2>2. CASE g # f
      <3>1. page_id'[g] = page_id[g] /\ data'[g] = data[g]
        BY <1>2, <1>3, <1>4, <2>2 DEF f
      <3> QED BY <3>1 DEF Here, CleanInv, FramesHaveRows
    <2> QED BY <2>1, <2>2
  <1>9. OwnRowsDirty'
    <2> SUFFICES ASSUME NEW r \in rows, r.own
                 PROVE  \E g \in dirty : page_id'[g] = r.page
      BY DEF OwnRowsDirty
    <2>1. PICK g \in dirty : page_id[g] = r.page
      BY DEF CleanInv, OwnRowsDirty
    <2>2. g \in Frame /\ r.page # NoPage
      BY DEF HeapTypeInv, DirtyFixed, RowsTyped, PageNo, NoPage
    <2>3. page_id'[g] = page_id[g]
      BY <1>2, <1>3, <2>1, <2>2
    <2> QED BY <2>1, <2>3
  <1> QED BY <1>7, <1>8, <1>9

\* What addSlot leaves in the frames it touches.
LEMMA AllocateTyped ==
    ASSUME HeapTypeInv, NEW c \in Nat, page_count <= c, NEW p, NEW page \in Bytes(page_words, c),
           FrameOf(p) \in Frame, SlotsOf(p, page) \in Words(page_words),
           RecordWords <= page.free_space, Allocate(p, page)
    PROVE  /\ data' \in [Frame -> Bytes(page_words, c)]
           /\ pc' \in {"write", "corrupt"}
           /\ tid' \in Nat \X Nat
           /\ pc' = "write" => tid'[1] \in 1..c /\ tid'[2] < page_words
  <1> DEFINE f == FrameOf(p)
             at == page.buffer_frame
             new == AddSlot(page, SlotsOf(p, page))
             header == [new.page EXCEPT !.words = IF at = f THEN new.slots ELSE page.words]
  <1>1. page_words \in Nat /\ tid \in Nat \X Nat
    BY Sizes DEF HeapTypeInv, ClientAt
  <1>2. data \in [Frame -> Bytes(page_words, c)]
    BY DataTyped
  <1>3. CASE ~SlotFits(page)
    <2>1. data' = [data EXCEPT ![f] = page] /\ pc' = "corrupt" /\ tid' = tid
      BY <1>3 DEF Allocate
    <2> HIDE DEF f
    <2> QED BY <1>1, <1>2, <2>1
  <1>4. CASE SlotFits(page)
    <2>1. /\ new.slots \in Words(page_words)
          /\ \A words \in Words(page_words) :
               [new.page EXCEPT !.words = words] \in Bytes(page_words, c)
          /\ page.id \in 1..c /\ page.first_free_slot < page_words
      BY <1>1, <1>4, AddSlotIs
    <2>2. page.words \in Words(page_words) /\ page.first_free_slot \in Nat
      BY <1>1, BytesFacts
    <2>3. header \in Bytes(page_words, c)
      BY <2>1, <2>2
    <2>4. /\ data' = [data EXCEPT ![at].words = new.slots, ![f] = header]
          /\ pc' = "write" /\ tid' = <<page.id, page.first_free_slot>>
      BY <1>4 DEF Allocate
    <2> HIDE DEF f, at, new, header
    <2>5. ASSUME NEW g \in Frame
          PROVE  [data[g] EXCEPT !.words = new.slots] \in Bytes(page_words, c)
      <3>1. data[g] \in Bytes(page_words, c)
        BY <1>2
      <3> QED BY <1>1, <2>1, <3>1, WordsKeepTyped
    <2>6. data' \in [Frame -> Bytes(page_words, c)]
      BY <1>2, <2>3, <2>4, <2>5
    <2>7. tid' \in Nat \X Nat /\ tid'[1] \in 1..c /\ tid'[2] < page_words
      BY <2>1, <2>2, <2>4
    <2> QED BY <2>4, <2>6, <2>7
  <1> QED BY <1>3, <1>4

\* Allocating on a page that is regular and points to itself.
LEMMA AllocateOnMade ==
    ASSUME HeapTypeInv, NEW c \in Nat, page_count <= c, NEW p, NEW page \in Bytes(page_words, c),
           FrameOf(p) \in Frame, page.buffer_frame = FrameOf(p),
           NEW S, Made(page_words, page), RowsIn(page_words, page, S, page.slot_count),
           RecordWords <= page.free_space, Allocate(p, page)
    PROVE  \/ /\ ~SlotFits(page) /\ pc' = "corrupt"
              /\ data' = [data EXCEPT ![FrameOf(p)] = page]
              /\ page_words % (RecordWords + 1) = RecordWords
           \/ /\ SlotFits(page) /\ pc' = "write" /\ tid' = <<page.id, page.slot_count>>
              /\ \E made : /\ data' = [data EXCEPT ![FrameOf(p)] = made]
                           /\ Made(page_words, made) /\ made.slot_count = page.slot_count + 1
                           /\ RowsIn(page_words, made, S, page.slot_count)
                           /\ made.id = page.id /\ made.buffer_frame = FrameOf(p)
  <1> DEFINE f == FrameOf(p)
             new == AddSlot(page, page.words)
             made == [new.page EXCEPT !.words = new.slots]
  <1>1. page_words \in Nat
    BY Sizes
  <1>2. SlotsOf(p, page) = page.words
    BY DEF SlotsOf, Frame, NoFrame
  <1>3. CASE ~SlotFits(page)
    <2>1. page_words % (RecordWords + 1) = RecordWords
      BY <1>1, <1>3, NoRoomWhenUneven
    <2> QED BY <1>3, <2>1 DEF Allocate
  <1>4. CASE SlotFits(page)
    <2>1. /\ Made(page_words, made) /\ made.slot_count = page.slot_count + 1
          /\ RowsIn(page_words, made, S, page.slot_count)
          /\ made.id = page.id /\ made.buffer_frame = page.buffer_frame
      BY <1>1, <1>4, AddSlotToMade
    <2>2. page.first_free_slot = page.slot_count
      BY DEF Made
    <2>3. /\ data' = [data EXCEPT ![f].words = new.slots, ![f] = made]
          /\ pc' = "write" /\ tid' = <<page.id, page.first_free_slot>>
      BY <1>2, <1>4 DEF Allocate
    <2>4. data \in [Frame -> Bytes(page_words, c)]
      BY DataTyped
    <2>5. data' = [data EXCEPT ![f] = made]
      <3> HIDE DEF f, new, made
      <3> QED BY <2>3, <2>4
    <2> QED BY <1>4, <2>1, <2>2, <2>3, <2>5
  <1> QED BY <1>3, <1>4

-----------------------------------------------------------------------------
(* Every step preserves the invariant.                                     *)

LEMMA FixKeepsTypes ==
    ASSUME HeapTypeInv, NEW c \in Nat, page_count' = c, page_count <= c,
           NEW p \in 1..c, CanFix(p), FixPage(p), dirty' \subseteq dirty \cup {FrameOf(p)},
           UNCHANGED <<page_words, disk>>, data' \in [Frame -> Bytes(page_words, c)],
           RowsTyped', ClientAt'
    PROVE  HeapTypeInv'
  <1>1. FramesShared' /\ DirtyFixed'
    BY FixKeepsFrames
  <1>2. PagesHeld'
    BY PagesStayHeld
  <1> QED BY <1>1, <1>2 DEF HeapTypeInv

\* Nothing is fixed, and the client goes somewhere else.
LEMMA ClientMoves ==
    ASSUME HeapInv, NEW c \in Nat, page_count' = c, page_count <= c,
           UNCHANGED <<page_words, pool, txn_pages, disk, tid, history>>,
           clean => pc # "write", pc' \in {"idle", "scan", "look"}, itr' \in 0..(c + 1),
           pc' \in {"scan", "look"} => itr' # 0
    PROVE  HeapInv'
  <1>1. HeapTypeInv /\ page_words \in Nat /\ page_count \in Nat
    BY Sizes DEF HeapInv
  <1>2. /\ page_id' = page_id /\ data' = data /\ dirty' = dirty /\ free_frames' = free_frames
        /\ txn_pages' = txn_pages /\ disk' = disk /\ tid' = tid
        /\ rows' = rows /\ last_row' = last_row /\ clean' = clean /\ page_words' = page_words
    BY DEF pool, history
  <1>3. FramesShared' /\ DirtyFixed'
    <2>1. PageNo \subseteq 1..c /\ PageNo' = 1..c
      BY <1>1 DEF PageNo
    <2>2. FramesShared /\ DirtyFixed
      BY <1>1 DEF HeapTypeInv
    <2>3. page_id \in [Frame -> {NoPage} \cup (1..c)] /\ txn_pages \subseteq 1..c
      BY <2>1, <2>2 DEF FramesShared, DirtyFixed
    <2> QED BY <1>2, <2>1, <2>2, <2>3, Zenon DEF FramesShared, DirtyFixed
  <1>4. PagesHeld'
    <2>1. data' \in [Frame -> Bytes(page_words, c)]
      BY <1>1, <1>2, DataTyped
    <2> QED BY <1>1, <1>2, <2>1, PagesStayHeld
  <1>5. RowsTyped'
    <2>1. clean' \in BOOLEAN
      BY <1>1, <1>2 DEF HeapTypeInv, RowsTyped
    <2> QED BY <1>1, <1>2, <2>1, RowsStayTyped
  <1>6. ClientAt'
    <2>1. tid \in Nat \X Nat
      BY <1>1 DEF HeapTypeInv, ClientAt
    <2> QED BY <1>2, <2>1 DEF ClientAt, Pcs
  <1>7. ASSUME clean'
        PROVE  CleanInv'
    <2>1. CleanInv /\ pc # "write" /\ pc' # "write" /\ pc' # "corrupt"
      BY <1>2, <1>7 DEF HeapInv
    <2>2. FileHasCommitted'
      <3>1. PageNo' = 1..c
        BY DEF PageNo
      <3>2. ASSUME NEW q \in 1..c
            PROVE  Good(page_words, Stored(q), q, Committed(q))'
        <4>1. Good(page_words, Stored(q), q, Committed(q))
          BY <1>1, <2>1, StoredIsGood DEF CleanInv, NoPage
        <4>2. Stored(q)' = Stored(q) /\ Committed(q)' = Committed(q)
          BY <1>2 DEF Stored, Committed
        <4> QED BY <1>2, <4>1, <4>2
      <3> QED BY <3>1, <3>2 DEF FileHasCommitted
    <2>3. FramesHaveRows'
      <3>1. FramesHaveRows
        BY <2>1 DEF CleanInv
      <3>2. \A g \in Frame : page_id[g] # NoPage =>
              Good(page_words, data[g], page_id[g], Here(page_id[g]))
        BY <2>1, <3>1 DEF FramesHaveRows
      <3> QED BY <1>2, <3>2, Zenon DEF FramesHaveRows, Here
    <2>4. OwnRowsDirty'
      BY <1>2, <2>1 DEF CleanInv, OwnRowsDirty
    <2> QED BY <2>1, <2>2, <2>3, <2>4 DEF CleanInv, SlotAwaitsRow, CorruptWhenUneven
  <1> QED BY <1>3, <1>4, <1>5, <1>6, <1>7 DEF HeapInv, HeapTypeInv

LEMMA ClientSteps == ASSUME HeapInv, Insert \/ Look \/ LookEnds PROVE HeapInv'
  <1>1. page_count \in Nat /\ itr \in 0..(page_count + 1)
    BY Sizes DEF HeapInv, HeapTypeInv, ClientAt
  <1>2. PICK c \in Nat : c = page_count
    BY <1>1
  <1>3. /\ pc # "write" /\ pc' \in {"idle", "scan", "look"} /\ itr' \in {1, itr}
        /\ pc' \in {"scan", "look"} => itr' = 1
    BY DEF Insert, Look, LookEnds
  <1>4. UNCHANGED <<page_words, pool, txn_pages, disk, tid, history>> /\ page_count' = c
    BY <1>2 DEF Insert, Look, LookEnds
  <1>5. page_count <= c /\ itr' \in 0..(c + 1)
    BY <1>1, <1>2, <1>3
  <1>6. pc' \in {"scan", "look"} => itr' # 0
    BY <1>3
  <1> QED BY <1>3, <1>4, <1>5, <1>6, ClientMoves

LEMMA BufferFullStep == ASSUME HeapInv, BufferFull PROVE HeapInv'
  <1> DEFINE p == IF pc = "write" THEN tid[1] ELSE itr
             next == IF p \in PageNo THEN page_count ELSE p
  <1>1. HeapTypeInv /\ page_count \in Nat /\ itr \in 0..(page_count + 1)
    BY Sizes DEF HeapInv, HeapTypeInv, ClientAt
  <1>2. /\ pc \in {"scan", "write", "look"} /\ ~CanFix(p)
        /\ p \in PageNo \/ pc = "scan"
        /\ page_count' = next /\ pc' = "idle"
        /\ UNCHANGED <<page_words, pool, txn_pages, disk, itr, tid, history>>
    BY DEF BufferFull
  <1>3. next \in Nat /\ page_count <= next /\ itr \in 0..(next + 1)
    <2>1. CASE p \in PageNo
      BY <1>1, <2>1
    <2>2. CASE p \notin PageNo
      <3>1. pc = "scan" /\ p = itr /\ next = itr /\ itr # 0
        BY <1>1, <1>2, <2>2 DEF HeapTypeInv, ClientAt
      <3>2. itr > page_count
        BY <1>1, <2>2, <3>1 DEF PageNo
      <3> QED BY <1>1, <3>1, <3>2
    <2> QED BY <2>1, <2>2
  <1>4. clean => pc # "write"
    <2> SUFFICES ASSUME clean, pc = "write"
                 PROVE  FALSE
      OBVIOUS
    <2>1. \E f \in Frame : page_id[f] = tid[1]
      BY DEF HeapInv, CleanInv, SlotAwaitsRow
    <2> QED BY <1>2, <2>1 DEF CanFix, Mapped
  <1>5. PICK c \in Nat : c = next
    BY <1>3
  <1>6. UNCHANGED <<page_words, pool, txn_pages, disk, tid, history>> /\ itr' = itr
    BY <1>2
  <1>7. page_count' = c /\ page_count <= c /\ itr' \in 0..(c + 1) /\ pc' = "idle"
    BY <1>2, <1>3, <1>5, <1>6
  <1> QED BY <1>4, <1>6, <1>7, ClientMoves

\* A page with room gets a slot, for which write is called.
LEMMA AllocateKeepsRows ==
    ASSUME HeapTypeInv, CleanInv, NEW c \in Nat, page_count' = c, page_count <= c,
           NEW p \in 1..c, CanFix(p), FixPage(p), pc # "write",
           NEW page \in Bytes(page_words, c),
           page.buffer_frame = FrameOf(p), page.id = p, Made(page_words, page),
           RowsIn(page_words, page, Here(p), page.slot_count),
           RecordWords <= page.free_space, Allocate(p, page),
           UNCHANGED <<page_words, dirty, disk, rows>>
    PROVE  CleanInv'
  <1> DEFINE f == FrameOf(p)
  <1>1. p # NoPage /\ page_words' = page_words /\ rows' = rows
    BY DEF NoPage
  <1>2. f \in Frame
    BY <1>1, FrameOfIs DEF HeapTypeInv
  <1>3. page_id' = [page_id EXCEPT ![f] = p] /\ page_id'[f] = p
    BY <1>2 DEF FixPage, HeapTypeInv, FramesShared
  <1>4. data \in [Frame -> Bytes(page_words, page_count)]
    BY DEF HeapTypeInv, PagesHeld
  <1>5. \/ /\ ~SlotFits(page) /\ pc' = "corrupt"
           /\ data' = [data EXCEPT ![f] = page]
           /\ page_words % (RecordWords + 1) = RecordWords
        \/ /\ SlotFits(page) /\ pc' = "write" /\ tid' = <<page.id, page.slot_count>>
           /\ \E made : /\ data' = [data EXCEPT ![f] = made]
                        /\ Made(page_words, made) /\ made.slot_count = page.slot_count + 1
                        /\ RowsIn(page_words, made, Here(p), page.slot_count)
                        /\ made.id = page.id /\ made.buffer_frame = f
    BY <1>2, AllocateOnMade
  <1>6. CASE pc' = "corrupt"
    <2>1. data' = [data EXCEPT ![f] = page] /\ page_words % (RecordWords + 1) = RecordWords
      BY <1>5, <1>6
    <2>2. Good(page_words, page, p, Here(p))
      BY <1>1 DEF Good
    <2>3. FileHasCommitted' /\ FramesHaveRows' /\ OwnRowsDirty'
      BY <1>6, <2>1, <2>2, FixKeepsRows
    <2> QED BY <1>1, <1>6, <2>1, <2>3 DEF CleanInv, SlotAwaitsRow, CorruptWhenUneven
  <1>7. CASE pc' = "write"
    <2>1. tid' = <<p, page.slot_count>> /\ tid'[1] = p /\ tid'[2] = page.slot_count
      BY <1>5, <1>7
    <2>2. PICK made : /\ data' = [data EXCEPT ![f] = made]
                      /\ Made(page_words, made) /\ made.slot_count = page.slot_count + 1
                      /\ RowsIn(page_words, made, Here(p), page.slot_count)
                      /\ made.id = p /\ made.buffer_frame = f
      BY <1>5, <1>7
    <2>3. FileHasCommitted' /\ FramesHaveRows' /\ OwnRowsDirty'
      BY <1>7, <2>1, <2>2, FixKeepsRows
    <2>4. data'[f] = made
      <3> HIDE DEF f
      <3> QED BY <1>2, <1>4, <2>2
    <2>5. Here(tid[1])' = Here(p)
      BY <1>1, <2>1 DEF Here
    <2>6. SlotAwaitsRow'
      BY <1>1, <1>2, <1>3, <2>1, <2>2, <2>4, <2>5 DEF SlotAwaitsRow
    <2> QED BY <1>7, <2>3, <2>6 DEF CleanInv, CorruptWhenUneven
  <1> QED BY <1>5, <1>6, <1>7

LEMMA TryPageStep == ASSUME HeapInv, TryPage PROVE HeapInv'
  <1>1. HeapTypeInv /\ page_words \in Nat /\ page_count \in Nat /\ itr \in Nat
    BY Sizes DEF HeapInv, HeapTypeInv, ClientAt
  <1>2. PICK c \in Nat : c = page_count
    BY <1>1
  <1>3. PICK p \in 1..c : p = itr
    BY <1>2 DEF TryPage, PageNo
  <1>4. PICK page : page = Fixed(p)
    OBVIOUS
  <1>5. /\ pc = "scan" /\ CanFix(p) /\ FixPage(p)
        /\ UNCHANGED <<page_words, dirty, disk, page_count, rows, last_row>>
        /\ \/ /\ RecordWords > page.free_space
              /\ data' = [data EXCEPT ![FrameOf(p)] = page]
              /\ itr' = itr + 1 /\ pc' = pc /\ tid' = tid
              /\ clean' = (clean /\ ~TakesOver(p))
           \/ /\ ~(RecordWords > page.free_space)
              /\ Allocate(p, page)
              /\ clean' = (clean /\ ~TakesOver(p) /\ page.buffer_frame = FrameOf(p))
              /\ itr' = itr
    BY <1>3, <1>4 DEF TryPage
  <1>6. p # NoPage /\ p \in Nat /\ p \in PageNo
    BY <1>2 DEF NoPage, PageNo
  <1>7. page \in Bytes(page_words, c) /\ page.free_space \in Int
    <2>1. page \in Bytes(page_words, c)
      BY <1>1, <1>2, <1>4, <1>5, <1>6, FixedIsTyped
    <2> QED BY <1>1, <2>1, BytesFacts
  <1>8. FrameOf(p) \in Frame
    BY <1>1, <1>5, <1>6, FrameOfIs DEF HeapTypeInv
  <1>9. page_count' = c /\ page_count <= c /\ clean \in BOOLEAN
    BY <1>1, <1>2, <1>5 DEF HeapTypeInv, RowsTyped
  <1>10. RowsTyped'
    <2>1. clean' \in BOOLEAN /\ rows' = rows
      BY <1>5, <1>9
    <2> QED BY <1>1, <1>5, <1>9, <2>1, RowsStayTyped
  <1>11. data' \in [Frame -> Bytes(page_words, c)] /\ ClientAt'
    <2>1. data \in [Frame -> Bytes(page_words, c)]
      BY <1>1, <1>9, DataTyped
    <2>2. CASE RecordWords > page.free_space
      <3>1. /\ data' = [data EXCEPT ![FrameOf(p)] = page]
            /\ itr' = itr + 1 /\ pc' = "scan" /\ tid' = tid
        BY <1>5, <2>2
      <3>2. data' \in [Frame -> Bytes(page_words, c)]
        <4> DEFINE f == FrameOf(p)
        <4> HIDE DEF f
        <4>1. data' = [data EXCEPT ![f] = page]
          BY <3>1 DEF f
        <4> QED BY <1>7, <2>1, <4>1
      <3>3. itr' \in 0..(c + 1) /\ itr' # 0 /\ tid' \in Nat \X Nat
        BY <1>1, <1>3, <3>1 DEF HeapTypeInv, ClientAt
      <3> QED BY <1>9, <3>1, <3>2, <3>3 DEF ClientAt, Pcs
    <2>3. CASE ~(RecordWords > page.free_space)
      <3>1. RecordWords <= page.free_space /\ Allocate(p, page) /\ itr' = itr
        BY <1>5, <1>7, <2>3, Sizes, <1>1
      <3>2. SlotsOf(p, page) \in Words(page_words)
        BY <1>1, <1>2, <1>7, <1>8, SlotsAreWords
      <3>3. /\ data' \in [Frame -> Bytes(page_words, c)]
            /\ pc' \in {"write", "corrupt"} /\ tid' \in Nat \X Nat
            /\ pc' = "write" => tid'[1] \in 1..c /\ tid'[2] < page_words
        BY <1>1, <1>7, <1>8, <1>9, <3>1, <3>2, AllocateTyped
      <3>4. itr' \in 0..(c + 1)
        BY <1>3, <3>1
      <3> QED BY <1>5, <1>9, <3>3, <3>4 DEF ClientAt, Pcs, PageNo
    <2> QED BY <2>2, <2>3
  <1>12. HeapTypeInv'
    <2>1. dirty' \subseteq dirty \cup {FrameOf(p)} /\ UNCHANGED <<page_words, disk>>
      BY <1>5
    <2> QED BY <1>1, <1>5, <1>9, <1>10, <1>11, <2>1, FixKeepsTypes
  <1>13. ASSUME clean'
         PROVE  CleanInv'
    <2>1. clean /\ ~TakesOver(p)
      BY <1>5, <1>13
    <2>2. CleanInv
      BY <2>1 DEF HeapInv
    <2>3. Good(page_words, page, p, Here(p))
      BY <1>1, <1>4, <1>5, <1>6, <2>1, <2>2, FixedIsGood
    <2>4. CASE RecordWords > page.free_space
      <3>1. /\ data' = [data EXCEPT ![FrameOf(p)] = page] /\ pc' = "scan"
            /\ UNCHANGED <<page_words, dirty, disk, rows>> /\ pc # "write"
        BY <1>5, <2>4
      <3>2. FileHasCommitted' /\ FramesHaveRows' /\ OwnRowsDirty'
        BY <1>1, <1>5, <1>9, <2>2, <2>3, <3>1, FixKeepsRows
      <3> QED BY <3>1, <3>2 DEF CleanInv, SlotAwaitsRow, CorruptWhenUneven
    <2>5. CASE ~(RecordWords > page.free_space)
      <3>1. Allocate(p, page) /\ page.buffer_frame = FrameOf(p) /\ RecordWords <= page.free_space
        <4>1. Allocate(p, page) /\ page.buffer_frame = FrameOf(p)
          BY <1>5, <1>13, <2>5
        <4>2. RecordWords <= page.free_space
          BY <1>1, <1>7, <2>5, Sizes
        <4> QED BY <4>1, <4>2
      <3>2. page.id # NoPage
        BY <1>1, <1>7, <3>1, Sizes, BytesFacts
      <3>3. /\ page.id = p /\ Made(page_words, page)
            /\ RowsIn(page_words, page, Here(p), page.slot_count)
        BY <2>3, <3>2 DEF Good
      <3>4. UNCHANGED <<page_words, dirty, disk, rows>> /\ pc # "write"
        BY <1>5
      <3> QED BY <1>1, <1>5, <1>7, <1>9, <2>2, <3>1, <3>3, <3>4, AllocateKeepsRows
    <2> QED BY <2>4, <2>5
  <1> QED BY <1>12, <1>13 DEF HeapInv

LEMMA NewPageStep == ASSUME HeapInv, NewPage PROVE HeapInv'
  <1>1. HeapTypeInv /\ page_words \in Nat /\ page_count \in Nat
    BY Sizes DEF HeapInv, HeapTypeInv, ClientAt
  <1>2. PICK p \in Nat : p = page_count + 1
    BY <1>1
  <1>3. PICK page : page = Page(FrameOf(p), p, data[FrameOf(p)].words, page_words)
    OBVIOUS
  <1>4. /\ pc = "scan" /\ itr = p /\ CanFix(p) /\ FixPage(p) /\ Allocate(p, page)
        /\ page_count' = p /\ UNCHANGED <<page_words, dirty, disk, itr, rows, last_row, clean>>
    BY <1>2, <1>3 DEF NewPage, history
  <1>5. p # NoPage /\ page_count <= p /\ p \in 1..p /\ p \notin PageNo
    BY <1>1, <1>2 DEF NoPage, PageNo
  <1>6. FrameOf(p) \in Frame
    BY <1>1, <1>4, <1>5, FrameOfIs DEF HeapTypeInv
  <1>7. data[FrameOf(p)].words \in Words(page_words)
    <2>1. data[FrameOf(p)] \in Bytes(page_words, page_count)
      BY <1>1, <1>6 DEF HeapTypeInv, PagesHeld
    <2> QED BY <1>1, <2>1, BytesFacts
  <1>8. /\ page \in Bytes(page_words, p) /\ Made(page_words, page)
        /\ RowsIn(page_words, page, {}, 0)
        /\ page.buffer_frame = FrameOf(p) /\ page.id = p
        /\ page.slot_count = 0 /\ page.free_space = page_words
    <2> DEFINE f == FrameOf(p)
               words == data[f].words
    <2>1. f \in Frame /\ words \in Words(page_words) /\ page = Page(f, p, words, page_words)
      BY <1>3, <1>6, <1>7
    <2>2. /\ page \in Bytes(page_words, p) /\ Made(page_words, page)
          /\ RowsIn(page_words, page, {}, 0)
          /\ page.buffer_frame = f /\ page.id = p
          /\ page.slot_count = 0 /\ page.free_space = page_words
      <3> HIDE DEF f, words
      <3> QED BY <1>1, <1>5, <2>1, NewPageIs
    <2> QED BY <2>2
  <1>9. RecordWords <= page.free_space
    BY <1>1, <1>8, Sizes
  <1>10. /\ data' \in [Frame -> Bytes(page_words, p)]
         /\ pc' \in {"write", "corrupt"} /\ tid' \in Nat \X Nat
         /\ pc' = "write" => tid'[1] \in 1..p /\ tid'[2] < page_words
    <2>1. SlotsOf(p, page) \in Words(page_words)
      <3>1. page.words \in Words(page_words)
        BY <1>1, <1>8, BytesFacts
      <3>2. SlotsOf(p, page) = page.words
        BY <1>6, <1>8 DEF SlotsOf, Frame, NoFrame
      <3> QED BY <3>1, <3>2
    <2> QED BY <1>1, <1>4, <1>5, <1>6, <1>8, <1>9, <2>1, AllocateTyped
  <1>11. RowsTyped' /\ ClientAt'
    <2>1. clean' \in BOOLEAN /\ rows' = rows
      BY <1>1, <1>4 DEF HeapTypeInv, RowsTyped
    <2>2. RowsTyped'
      BY <1>1, <1>4, <1>5, <2>1, RowsStayTyped
    <2>3. itr' \in 0..(p + 1)
      BY <1>4
    <2> QED BY <1>4, <1>10, <2>2, <2>3 DEF ClientAt, Pcs, PageNo
  <1>12. HeapTypeInv'
    <2>1. dirty' \subseteq dirty \cup {FrameOf(p)} /\ UNCHANGED <<page_words, disk>>
      BY <1>4
    <2> QED BY <1>1, <1>4, <1>5, <1>10, <1>11, <2>1, FixKeepsTypes
  <1>13. ASSUME clean'
         PROVE  CleanInv'
    <2>1. CleanInv
      BY <1>4, <1>13 DEF HeapInv
    <2>2. Here(p) = {}
      BY <1>1, <1>5 DEF HeapTypeInv, RowsTyped, Here
    <2>3. UNCHANGED <<page_words, dirty, disk, rows>> /\ pc # "write"
      BY <1>4
    <2>4. RowsIn(page_words, page, Here(p), page.slot_count)
      BY <1>8, <2>2
    <2> QED BY <1>1, <1>4, <1>5, <1>8, <1>9, <2>1, <2>3, <2>4, AllocateKeepsRows
  <1> QED BY <1>12, <1>13 DEF HeapInv

LEMMA LookPageStep == ASSUME HeapInv, LookPage PROVE HeapInv'
  <1>1. HeapTypeInv /\ page_words \in Nat /\ page_count \in Nat /\ itr \in Nat
    BY Sizes DEF HeapInv, HeapTypeInv, ClientAt
  <1>2. PICK c \in Nat : c = page_count
    BY <1>1
  <1>3. PICK p \in 1..c : p = itr
    BY <1>2 DEF LookPage, PageNo
  <1>4. PICK f : f = FrameOf(p)
    OBVIOUS
  <1>5. PICK page : page = [Fixed(p) EXCEPT !.buffer_frame = f]
    OBVIOUS
  <1>6. /\ pc = "look" /\ CanFix(p) /\ FixPage(p) /\ data' = [data EXCEPT ![f] = page]
        /\ UNCHANGED <<page_words, dirty, disk, page_count, tid, rows, last_row>>
        /\ clean' = (clean /\ ~TakesOver(p))
        /\ \/ page.first_free_slot > 0 /\ pc' = "read" /\ itr' = itr
           \/ itr' = itr + 1 /\ pc' = "look"
    BY <1>3, <1>4, <1>5 DEF LookPage
  <1>7. p # NoPage /\ p \in Nat /\ p \in PageNo
    BY <1>2 DEF NoPage, PageNo
  <1>8. Fixed(p) \in Bytes(page_words, c)
    BY <1>1, <1>2, <1>6, <1>7, FixedIsTyped
  <1>9. f \in Frame
    BY <1>1, <1>4, <1>6, <1>7, FrameOfIs DEF HeapTypeInv
  <1>10. /\ page \in Bytes(page_words, c) /\ page.buffer_frame = f
         /\ \A q, S : Good(page_words, Fixed(p), q, S) => Good(page_words, page, q, S)
    BY <1>1, <1>5, <1>8, <1>9, PointerKeepsGood
  <1>11. page_count' = c /\ page_count <= c /\ clean \in BOOLEAN
    BY <1>1, <1>2, <1>6 DEF HeapTypeInv, RowsTyped
  <1>12. data' \in [Frame -> Bytes(page_words, c)] /\ data'[f] = page
    <2>1. data \in [Frame -> Bytes(page_words, c)]
      BY <1>1, <1>11, DataTyped
    <2> QED BY <1>6, <1>9, <1>10, <2>1
  <1>13. page_id'[f] = p
    BY <1>4, <1>6, <1>9, <1>1 DEF FixPage, HeapTypeInv, FramesShared
  <1>14. RowsTyped'
    <2>1. clean' \in BOOLEAN /\ rows' = rows
      BY <1>6, <1>11
    <2> QED BY <1>1, <1>6, <1>11, <2>1, RowsStayTyped
  <1>15. ClientAt'
    <2>1. tid' \in Nat \X Nat /\ itr' \in 0..(c + 1) /\ itr' # 0
      BY <1>1, <1>3, <1>6 DEF HeapTypeInv, ClientAt
    <2>2. CASE pc' = "read"
      <3>1. page_id'[f] = itr' /\ data'[f].first_free_slot > 0 /\ data'[f].buffer_frame = f
        BY <1>3, <1>6, <1>10, <1>12, <1>13, <2>2
      <3> QED BY <1>9, <1>11, <2>1, <2>2, <3>1 DEF ClientAt, Pcs
    <2>3. CASE pc' = "look"
      BY <1>11, <2>1, <2>3 DEF ClientAt, Pcs
    <2> QED BY <1>6, <2>2, <2>3
  <1>16. HeapTypeInv'
    <2>1. dirty' \subseteq dirty \cup {FrameOf(p)} /\ UNCHANGED <<page_words, disk>>
      BY <1>6
    <2> QED BY <1>1, <1>6, <1>11, <1>12, <1>14, <1>15, <2>1, FixKeepsTypes
  <1>17. ASSUME clean'
         PROVE  CleanInv'
    <2>1. clean /\ ~TakesOver(p)
      BY <1>6, <1>17
    <2>2. CleanInv
      BY <2>1 DEF HeapInv
    <2>3. Good(page_words, page, p, Here(p))
      <3>1. Good(page_words, Fixed(p), p, Here(p))
        BY <1>1, <1>6, <1>7, <2>1, <2>2, FixedIsGood
      <3> QED BY <1>10, <3>1
    <2>4. /\ UNCHANGED <<page_words, dirty, disk, rows>> /\ pc # "write" /\ pc' # "write"
          /\ data' = [data EXCEPT ![FrameOf(p)] = page]
      BY <1>4, <1>6
    <2>5. FileHasCommitted' /\ FramesHaveRows' /\ OwnRowsDirty'
      BY <1>1, <1>6, <1>11, <2>2, <2>3, <2>4, FixKeepsRows
    <2> QED BY <1>6, <2>5 DEF CleanInv, SlotAwaitsRow, CorruptWhenUneven
  <1> QED BY <1>16, <1>17 DEF HeapInv

LEMMA ReadRowsStep == ASSUME HeapInv, ReadRows PROVE HeapInv'
  <1>1. HeapTypeInv /\ page_words \in Nat /\ page_count \in Nat /\ itr \in 0..(page_count + 1)
    BY Sizes DEF HeapInv, HeapTypeInv, ClientAt
  <1>2. PICK c \in Nat : c = page_count
    BY <1>1
  <1>3. PICK g \in Frame : page_id[g] = itr /\ itr # 0 /\ data[g].first_free_slot > 0
    BY <1>1 DEF ReadRows, HeapTypeInv, ClientAt
  <1>4. FrameOf(itr) = g
    <2>1. page_id[g] # NoPage
      BY <1>3 DEF NoPage
    <2>2. FrameOf(page_id[g]) = g
      BY <1>1, <2>1, HeldFrame DEF HeapTypeInv
    <2> QED BY <1>3, <2>2
  <1>5. PICK p : p = data[g].id
    OBVIOUS
  <1>6. data[g] \in Bytes(page_words, c)
    BY <1>1, <1>2 DEF HeapTypeInv, PagesHeld
  <1>7. p \in 1..c
    BY <1>1, <1>3, <1>5, <1>6, BytesFacts
  <1>8. PICK page : page = Fixed(p)
    OBVIOUS
  <1>9. /\ pc = "read"
        /\ UNCHANGED <<page_words, dirty, disk, page_count, tid, rows, last_row>>
        /\ \/ /\ CanFix(p) /\ FixPage(p) /\ data' = [data EXCEPT ![FrameOf(p)] = page]
              /\ clean' = (clean /\ ~TakesOver(p))
              /\ \/ pc' = "exited" /\ itr' = itr
                 \/ pc' = "look" /\ itr' = itr + 1
           \/ pc' = "idle" /\ UNCHANGED <<data, page_id, free_frames, txn_pages, itr, clean>>
    BY <1>4, <1>5, <1>8 DEF ReadRows
  <1>10. page_count' = c /\ page_count <= c /\ clean \in BOOLEAN
    BY <1>1, <1>2, <1>9 DEF HeapTypeInv, RowsTyped
  <1>11. CASE pc' = "idle"
    <2>1. UNCHANGED <<data, page_id, free_frames, txn_pages, itr, clean>>
      BY <1>9, <1>11
    <2>2. UNCHANGED <<page_words, pool, txn_pages, disk, tid, history>>
      BY <1>9, <2>1 DEF pool, history
    <2>3. itr' \in 0..(c + 1) /\ (clean => pc # "write")
      BY <1>1, <1>2, <1>9, <2>1
    <2> QED BY <1>10, <1>11, <2>2, <2>3, ClientMoves
  <1>12. CASE pc' # "idle"
    <2>1. /\ CanFix(p) /\ FixPage(p) /\ data' = [data EXCEPT ![FrameOf(p)] = page]
          /\ clean' = (clean /\ ~TakesOver(p))
          /\ \/ pc' = "exited" /\ itr' = itr
             \/ pc' = "look" /\ itr' = itr + 1
      BY <1>9, <1>12
    <2>2. p # NoPage /\ p \in Nat /\ p \in PageNo
      BY <1>2, <1>7 DEF NoPage, PageNo
    <2>3. page \in Bytes(page_words, c)
      BY <1>1, <1>2, <1>8, <2>1, <2>2, FixedIsTyped
    <2>4. data' \in [Frame -> Bytes(page_words, c)]
      <3> DEFINE f == FrameOf(p)
      <3>1. data \in [Frame -> Bytes(page_words, c)]
        BY <1>1, <1>10, DataTyped
      <3>2. data' = [data EXCEPT ![f] = page]
        BY <2>1
      <3> HIDE DEF f
      <3> QED BY <2>3, <3>1, <3>2
    <2>5. RowsTyped'
      <3>1. clean' \in BOOLEAN /\ rows' = rows
        BY <1>9, <1>10, <2>1
      <3> QED BY <1>1, <1>9, <1>10, <3>1, RowsStayTyped
    <2>6. ClientAt'
      <3>1. itr \in 1..c
        BY <1>1, <1>2, <1>3 DEF HeapTypeInv, FramesShared, PageNo, NoPage
      <3>2. itr' \in 0..(c + 1) /\ (pc' = "look" => itr' # 0)
        BY <2>1, <3>1
      <3>3. tid' \in Nat \X Nat
        BY <1>1, <1>9 DEF HeapTypeInv, ClientAt
      <3> QED BY <1>10, <2>1, <3>2, <3>3 DEF ClientAt, Pcs
    <2>7. HeapTypeInv'
      <3>1. dirty' \subseteq dirty \cup {FrameOf(p)} /\ UNCHANGED <<page_words, disk>>
        BY <1>9
      <3> QED BY <1>1, <1>7, <1>10, <2>1, <2>4, <2>5, <2>6, <3>1, FixKeepsTypes
    <2>8. ASSUME clean'
          PROVE  CleanInv'
      <3>1. clean /\ ~TakesOver(p)
        BY <2>1, <2>8
      <3>2. CleanInv
        BY <3>1 DEF HeapInv
      <3>3. Good(page_words, page, p, Here(p))
        BY <1>1, <1>8, <1>9, <2>1, <2>2, <3>1, <3>2, FixedIsGood
      <3>4. UNCHANGED <<page_words, dirty, disk, rows>> /\ pc # "write" /\ pc' # "write"
        BY <1>9, <2>1
      <3>5. FileHasCommitted' /\ FramesHaveRows' /\ OwnRowsDirty'
        BY <1>1, <1>7, <1>10, <2>1, <3>2, <3>3, <3>4, FixKeepsRows
      <3> QED BY <2>1, <3>5 DEF CleanInv, SlotAwaitsRow, CorruptWhenUneven
    <2> QED BY <2>7, <2>8 DEF HeapInv
  <1> QED BY <1>11, <1>12

LEMMA WriteStep == ASSUME HeapInv, Write PROVE HeapInv'
  <1>1. HeapTypeInv /\ page_words \in Nat /\ page_count \in Nat /\ last_row \in Nat
    BY Sizes DEF HeapInv, HeapTypeInv, RowsTyped
  <1>2. pc = "write" /\ CanFix(tid[1]) /\ tid[1] \in PageNo /\ tid[2] \in Nat
                     /\ tid[2] < page_words
    BY <1>1 DEF Write, HeapTypeInv, ClientAt
  <1>3. PICK c \in Nat : c = page_count
    BY <1>1
  <1>4. PICK p \in 1..c : p = tid[1]
    BY <1>2, <1>3 DEF PageNo
  <1>5. PICK k \in Nat : k = tid[2]
    BY <1>2
  <1>6. PICK f : f = FrameOf(p)
    OBVIOUS
  <1>7. PICK page : page = Fixed(p)
    OBVIOUS
  <1>8. PICK slot : slot = SlotsOf(p, page)[k]
    OBVIOUS
  <1>9. PICK r : r = [row |-> last_row + 1, page |-> p, slot |-> k, own |-> TRUE]
    OBVIOUS
  <1> DEFINE words == [i \in DOMAIN page.words |->
                         IF i \in Extent(slot) THEN RecordPart(last_row + 1) ELSE page.words[i]]
             written == [page EXCEPT !.words = words]
  <1>10. /\ FixPage(p) /\ data' = [data EXCEPT ![f] = written]
         /\ dirty' = dirty \cup {f} /\ rows' = rows \cup {r} /\ last_row' = last_row + 1
         /\ pc' = IF slot[1] = "slot" THEN "idle" ELSE "corrupt"
         /\ clean' = (clean /\ ~TakesOver(p))
         /\ UNCHANGED <<page_words, disk, page_count, itr, tid>>
    BY <1>4, <1>5, <1>6, <1>7, <1>8, <1>9 DEF Write
  <1>11. p # NoPage /\ p \in Nat /\ CanFix(p) /\ k < page_words
    BY <1>2, <1>4, <1>5 DEF NoPage
  <1>12. /\ f \in Frame
         /\ \A g \in Frame : page_id[g] = p => g = f
    BY <1>1, <1>6, <1>11, FrameOfIs DEF HeapTypeInv
  <1>13. page \in Bytes(page_words, c)
    BY <1>1, <1>3, <1>7, <1>11, FixedIsTyped
  <1>14. written \in Bytes(page_words, c)
    <2>1. page.words \in Words(page_words)
      BY <1>1, <1>13, BytesFacts
    <2>2. RecordPart(last_row + 1) \in Word
      BY <1>1, WordKinds
    <2>3. words \in Words(page_words)
      BY <2>1, <2>2 DEF Words
    <2> HIDE DEF words
    <2> QED BY <1>1, <1>13, <2>3, WordsKeepTyped
  <1>15. page_count' = c /\ page_count <= c /\ clean \in BOOLEAN
    BY <1>1, <1>3, <1>10 DEF HeapTypeInv, RowsTyped
  <1>16. data \in [Frame -> Bytes(page_words, c)]
    BY <1>1, <1>15, DataTyped
  <1>17. data' \in [Frame -> Bytes(page_words, c)] /\ data'[f] = written
    <2> HIDE DEF written
    <2> QED BY <1>10, <1>12, <1>14, <1>16
  <1>18. r.row = last_row + 1 /\ r.page = p /\ r.slot = k /\ r.own = TRUE
    BY <1>9
  <1>19. RowsTyped'
    <2>1. rows \subseteq [row : 1..last_row, page : 1..c, slot : 0..page_words, own : BOOLEAN]
      BY <1>1, <1>3 DEF HeapTypeInv, RowsTyped, PageNo
    <2>2. r \in [row : 1..(last_row + 1), page : 1..c, slot : 0..page_words, own : BOOLEAN]
      BY <1>1, <1>5, <1>9, <1>11
    <2>3. rows \subseteq [row : 1..(last_row + 1), page : 1..c, slot : 0..page_words,
                          own : BOOLEAN]
      BY <1>1, <2>1
    <2>4. rows' \subseteq [row : 1..(last_row + 1), page : 1..c, slot : 0..page_words,
                           own : BOOLEAN]
      BY <1>10, <2>2, <2>3
    <2>5. last_row + 1 \in Nat /\ clean' \in BOOLEAN
      BY <1>1, <1>10, <1>15
    <2> QED BY <1>10, <1>15, <2>4, <2>5 DEF RowsTyped, PageNo
  <1>20. ClientAt'
    <2>1. itr' \in 0..(c + 1) /\ tid' \in Nat \X Nat /\ pc' \in {"idle", "corrupt"}
      BY <1>1, <1>3, <1>10 DEF HeapTypeInv, ClientAt
    <2> QED BY <1>15, <2>1 DEF ClientAt, Pcs
  <1>21. HeapTypeInv'
    <2>1. dirty' \subseteq dirty \cup {FrameOf(p)} /\ UNCHANGED <<page_words, disk>>
      BY <1>6, <1>10
    <2> QED BY <1>1, <1>10, <1>11, <1>15, <1>17, <1>19, <1>20, <2>1, FixKeepsTypes
  <1>22. ASSUME clean'
         PROVE  CleanInv'
    <2>1. clean
      BY <1>10, <1>22
    <2>2. CleanInv
      BY <2>1 DEF HeapInv
    <2>3. PICK g \in Frame : /\ page_id[g] = p
                             /\ data[g].buffer_frame = g /\ data[g].id = p
                             /\ Made(page_words, data[g]) /\ data[g].slot_count = k + 1
                             /\ RowsIn(page_words, data[g], Here(p), k)
      BY <1>2, <1>4, <1>5, <2>2 DEF CleanInv, SlotAwaitsRow
    <2>4. g = f
      BY <1>12, <2>3
    <2>5. Mapped(p) /\ page = data[f]
      <3>1. Mapped(p)
        BY <2>3 DEF Mapped
      <3> QED BY <1>6, <1>7, <3>1 DEF Fixed
    <2>6. /\ page.buffer_frame = f /\ page.id = p /\ Made(page_words, page)
          /\ page.slot_count = k + 1 /\ RowsIn(page_words, page, Here(p), k)
      BY <2>3, <2>4, <2>5
    <2>7. slot = page.words[k] /\ slot[1] = "slot"
      <3>1. SlotsOf(p, page) = page.words
        BY <1>6, <1>12, <2>6 DEF SlotsOf, Frame, NoFrame
      <3>2. k \in 0..(page.slot_count - 1)
        BY <2>6
      <3>3. page.words[k] = Slot(Base(page_words, k), RecordWords)
        BY <1>1, <1>13, <2>6, <3>2, MadeWords
      <3> QED BY <1>8, <3>1, <3>3 DEF Slot
    <2>8. pc' = "idle"
      BY <1>10, <2>7
    <2>9. Made(page_words, written) /\ RowsIn(page_words, written, Here(p) \cup {r}, k + 1)
      <3>1. written = [page EXCEPT !.words =
                         [i \in DOMAIN page.words |->
                            IF i \in Extent(page.words[k]) THEN RecordPart(r.row)
                                                           ELSE page.words[i]]]
        BY <1>18, <2>7
      <3>2. r.slot = k /\ r.row \in Nat
        BY <1>1, <1>18
      <3> DEFINE new == [i \in DOMAIN page.words |->
                           IF i \in Extent(page.words[k]) THEN RecordPart(r.row)
                                                          ELSE page.words[i]]
      <3>3. /\ Made(page_words, [page EXCEPT !.words = new])
            /\ RowsIn(page_words, [page EXCEPT !.words = new], Here(p) \cup {r}, k + 1)
        BY <1>1, <1>13, <2>6, <3>2, WriteToMade
      <3> HIDE DEF written
      <3> QED BY <3>1, <3>3
    <2>10. written.id = p /\ written.slot_count = k + 1
      <3>1. page \in Fields(page_words, c)
        BY <1>13 DEF Bytes
      <3> HIDE DEF words
      <3> QED BY <2>6, <3>1 DEF Fields
    <2> HIDE DEF written
    <2>11. page_id' = page_id
      BY <1>1, <1>6, <1>10, <1>12, <2>3, <2>4 DEF FixPage, HeapTypeInv, FramesShared
    <2>12. FileHasCommitted'
      <3>1. ASSUME NEW q \in 1..c
            PROVE  Good(page_words, Stored(q), q, Committed(q))'
        <4>1. Committed(q)' = Committed(q) /\ Stored(q)' = Stored(q)
          BY <1>10, <1>18 DEF Committed, Stored
        <4>2. Good(page_words, Stored(q), q, Committed(q))
          BY <1>3, <2>2 DEF CleanInv, FileHasCommitted, PageNo
        <4> QED BY <1>10, <4>1, <4>2
      <3> QED BY <1>15, <3>1 DEF FileHasCommitted, PageNo
    <2>13. FramesHaveRows'
      <3> SUFFICES ASSUME NEW h \in Frame, page_id[h] # NoPage
                   PROVE  Good(page_words, data'[h], page_id[h],
                               {s \in rows' : s.page = page_id[h]})
        BY <1>10, <2>11 DEF FramesHaveRows, Here
      <3>1. CASE h = f
        <4>1. {s \in rows' : s.page = page_id[h]} = Here(p) \cup {r}
          BY <1>10, <1>18, <2>3, <2>4, <3>1 DEF Here
        <4> QED BY <1>11, <1>17, <2>3, <2>4, <2>9, <2>10, <3>1, <4>1 DEF Good
      <3>2. CASE h # f
        <4>1. page_id[h] # p
          BY <1>12, <3>2
        <4>2. {s \in rows' : s.page = page_id[h]} = Here(page_id[h])
          BY <1>10, <1>18, <4>1 DEF Here
        <4>3. data'[h] = data[h]
          BY <1>10, <1>16, <3>2
        <4>4. Good(page_words, data[h], page_id[h], Here(page_id[h]))
          BY <1>4, <2>2, <4>1 DEF CleanInv, FramesHaveRows
        <4> QED BY <4>2, <4>3, <4>4
      <3> QED BY <3>1, <3>2
    <2>14. OwnRowsDirty'
      <3> SUFFICES ASSUME NEW s \in rows', s.own
                   PROVE  \E h \in dirty' : page_id[h] = s.page
        BY <2>11 DEF OwnRowsDirty
      <3>1. CASE s = r
        BY <1>10, <1>18, <2>3, <2>4, <3>1
      <3>2. CASE s \in rows
        BY <1>10, <2>2, <3>2 DEF CleanInv, OwnRowsDirty
      <3> QED BY <1>10, <3>1, <3>2
    <2> QED BY <2>8, <2>12, <2>13, <2>14 DEF CleanInv, SlotAwaitsRow, CorruptWhenUneven
  <1> QED BY <1>21, <1>22 DEF HeapInv

\* The last page that transaction_complete writes, or the end of the file.
LEMMA Largest ==
    ASSUME NEW n \in Nat, NEW S \in SUBSET (0..n), S # {}
    PROVE  \E x \in S : \A y \in S : y <= x
  <1> DEFINE D == {n - x : x \in S}
  <1>1. D \in SUBSET Nat
    OBVIOUS
  <1>2. PICK d \in D : \A y \in D : d <= y
    <2>1. D # {}
      OBVIOUS
    <2> HIDE DEF D
    <2> QED BY <1>1, <2>1, Smallest
  <1>3. PICK x \in S : d = n - x
    OBVIOUS
  <1>4. ASSUME NEW y \in S
        PROVE  y <= x
    <2>1. n - y \in D
      OBVIOUS
    <2> HIDE DEF D
    <2>2. n - x <= n - y
      BY <1>2, <1>3, <2>1
    <2>3. x \in 0..n /\ y \in 0..n
      OBVIOUS
    <2> QED BY <2>2, <2>3
  <1> QED BY <1>4

\* What the end of a transaction leaves of the frames.
LEMMA DirtyIsGone ==
    ASSUME HeapTypeInv, NEW f \in dirty
    PROVE  /\ f \in Frame /\ page_id[f] \in txn_pages /\ page_id[f] \in PageNo
           /\ page_id[f] # NoPage /\ Mapped(page_id[f]) /\ FrameOf(page_id[f]) = f
  <1>1. f \in Frame /\ page_id[f] \in txn_pages /\ page_id[f] \in PageNo
    BY DEF HeapTypeInv, DirtyFixed
  <1>2. page_id[f] # NoPage
    BY <1>1 DEF PageNo, NoPage
  <1> QED BY <1>1, <1>2, HeldFrame DEF HeapTypeInv

LEMMA CompleteStep == ASSUME HeapInv, TransactionComplete PROVE HeapInv'
  <1> DEFINE written == {p \in txn_pages : Mapped(p) /\ FrameOf(p) \in dirty}
             ends == written \cup {Len(disk)}
             last == CHOOSE n \in ends : \A p \in ends : p <= n
  <1>1. HeapTypeInv /\ page_words \in Nat /\ page_count \in Nat
    BY Sizes DEF HeapInv
  <1>2. PICK c \in Nat : c = page_count
    BY <1>1
  <1>3. Len(disk) \in 0..c
    BY <1>1, <1>2 DEF HeapTypeInv, PagesHeld
  <1>4. last \in 0..c /\ \A p \in ends : p <= last
    <2>1. ends \in SUBSET (0..c) /\ ends # {}
      <3>1. written \subseteq 0..c
        <4>1. txn_pages \subseteq 0..c
          BY <1>1, <1>2 DEF HeapTypeInv, DirtyFixed, PageNo
        <4>2. written \subseteq txn_pages
          BY Zenon
        <4> HIDE DEF written
        <4> QED BY <4>1, <4>2
      <3> HIDE DEF written
      <3>2. ends \subseteq 0..c /\ Len(disk) \in ends
        BY <1>3, <3>1
      <3> HIDE DEF ends
      <3> QED BY <3>2
    <2>2. \E n \in ends : \A p \in ends : p <= n
      <3> HIDE DEF ends
      <3> QED BY <2>1, Largest
    <2> HIDE DEF ends
    <2> QED BY <2>1, <2>2
  <1>5. PICK size \in 0..c : size = last
    BY <1>4
  <1>6. PICK stay : stay = {FrameOf(p) : p \in written}
    OBVIOUS
  <1>7. /\ pc = "idle"
        /\ disk' = [p \in 1..size |-> IF p \in written THEN data[FrameOf(p)]
                                      ELSE IF p <= Len(disk) THEN disk[p] ELSE Blank(page_words)]
        /\ dirty' = dirty \ stay /\ txn_pages' = {}
        /\ rows' = {[r EXCEPT !.own = FALSE] : r \in rows}
        /\ UNCHANGED <<page_words, data, page_id, free_frames, page_count, pc, itr, tid,
                       last_row, clean>>
    BY <1>5, <1>6, Zenon DEF TransactionComplete
  <1>8. /\ Len(disk) <= size
        /\ \A p \in written : p \in 1..size /\ Mapped(p) /\ FrameOf(p) \in Frame
                              /\ page_id[FrameOf(p)] = p
    <2>1. ASSUME NEW p \in written
          PROVE  p \in 1..size /\ Mapped(p) /\ FrameOf(p) \in Frame /\ page_id[FrameOf(p)] = p
      <3>1. p \in PageNo /\ Mapped(p) /\ p <= last
        BY <1>1, <1>4 DEF HeapTypeInv, DirtyFixed
      <3>2. FrameOf(p) \in Frame /\ page_id[FrameOf(p)] = p
        BY <3>1 DEF FrameOf, Mapped
      <3>3. p \in Nat /\ p >= 1
        BY <3>1 DEF PageNo
      <3> QED BY <1>5, <3>1, <3>2, <3>3
    <2>2. Len(disk) <= last
      BY <1>4
    <2> HIDE DEF written, last
    <2> QED BY <1>5, <2>1, <2>2
  <1>9. \A g \in dirty : /\ page_id[g] \in written /\ g \in stay
                         /\ g \in Frame /\ page_id[g] # NoPage
    <2> SUFFICES ASSUME NEW g \in dirty
                 PROVE  /\ page_id[g] \in written /\ g \in stay
                        /\ g \in Frame /\ page_id[g] # NoPage
      OBVIOUS
    <2>1. /\ g \in Frame /\ page_id[g] \in txn_pages
          /\ page_id[g] # NoPage /\ Mapped(page_id[g]) /\ FrameOf(page_id[g]) = g
      BY <1>1, DirtyIsGone
    <2>2. page_id[g] \in written
      BY <2>1
    <2> HIDE DEF written
    <2> QED BY <1>6, <2>1, <2>2
  <1> HIDE DEF written, ends, last
  <1>10. PICK new : new = [r \in rows |-> [r EXCEPT !.own = FALSE]]
    OBVIOUS
  <1>11. rows \subseteq [row : 1..last_row, page : 1..c, slot : 0..page_words, own : BOOLEAN]
    BY <1>1, <1>2 DEF HeapTypeInv, RowsTyped, PageNo
  <1>12. \A r \in rows :
           /\ new[r].row = r.row /\ new[r].slot = r.slot /\ new[r].page = r.page
           /\ new[r].own = FALSE
           /\ new[r] \in [row : 1..last_row, page : 1..c, slot : 0..page_words, own : BOOLEAN]
    BY <1>10, <1>11
  <1>13. rows' = {new[r] : r \in rows}
    BY <1>7, <1>10
  <1>14. FramesShared' /\ ClientAt'
    <2>1. FramesShared /\ ClientAt
      BY <1>1 DEF HeapTypeInv
    <2>2. PageNo' = PageNo
      BY <1>7 DEF PageNo
    <2>3. FramesShared'
      BY <1>7, <2>1, <2>2 DEF FramesShared
    <2>4. itr \in 0..(page_count + 1) /\ tid \in Nat \X Nat
      BY <2>1 DEF ClientAt
    <2> QED BY <1>7, <2>3, <2>4 DEF ClientAt, Pcs
  <1>15. DirtyFixed'
    BY <1>7, <1>9 DEF DirtyFixed
  <1>16. PagesHeld'
    <2>1. /\ data \in [Frame -> Bytes(page_words, c)] /\ disk \in Seq(Bytes(page_words, c))
          /\ Blank(page_words) \in Bytes(page_words, c)
      BY <1>1, <1>2, BlankIs DEF HeapTypeInv, PagesHeld
    <2>2. \A p \in 1..size :
            (IF p \in written THEN data[FrameOf(p)]
             ELSE IF p <= Len(disk) THEN disk[p] ELSE Blank(page_words)) \in Bytes(page_words, c)
      BY <1>8, <2>1
    <2>3. disk' \in [1..size -> Bytes(page_words, c)]
      BY <1>7, <2>2
    <2>4. disk' \in Seq(Bytes(page_words, c)) /\ Len(disk') = size
      BY <2>3
    <2> QED BY <1>1, <1>2, <1>7, <2>1, <2>4 DEF HeapTypeInv, PagesHeld
  <1>17. RowsTyped'
    <2>1. rows' \subseteq [row : 1..last_row, page : 1..c, slot : 0..page_words, own : BOOLEAN]
      BY <1>12, <1>13
    <2> QED BY <1>1, <1>2, <1>7, <2>1 DEF HeapTypeInv, RowsTyped, PageNo
  <1>18. ASSUME clean'
         PROVE  CleanInv'
    <2>1. CleanInv
      BY <1>7, <1>18 DEF HeapInv
    <2>2. ASSUME NEW p
          PROVE  {new[r] : r \in Here(p)} = {r \in rows' : r.page = p}
      BY <1>12, <1>13 DEF Here
    <2>3. \A r \in rows' : ~r.own
      BY <1>12, <1>13
    <2>4. ASSUME NEW page, NEW p, Good(page_words, page, p, Here(p))
          PROVE  Good(page_words, page, p, {r \in rows' : r.page = p})
      <3>1. \A r \in Here(p) : new[r].slot = r.slot /\ new[r].row = r.row
        BY <1>12 DEF Here
      <3>2. Good(page_words, page, p, {new[r] : r \in Here(p)})
        BY <2>4, <3>1, CommitKeepsGood
      <3> QED BY <2>2, <3>2
    <2>5. ASSUME NEW p \in 1..c
          PROVE  Good(page_words, Stored(p)', p, Here(p))
      <3>1. CASE p \in written
        <4>1. p \in 1..size /\ FrameOf(p) \in Frame /\ page_id[FrameOf(p)] = p
          BY <1>8, <3>1
        <4>2. Stored(p)' = data[FrameOf(p)]
          <5>1. p <= Len(disk') /\ disk'[p] = data[FrameOf(p)]
            BY <1>7, <3>1, <4>1
          <5> QED BY <5>1 DEF Stored
        <4>3. Good(page_words, data[FrameOf(p)], p, Here(p))
          BY <1>7, <2>1, <4>1 DEF CleanInv, FramesHaveRows, NoPage
        <4> QED BY <4>2, <4>3
      <3>2. CASE p \notin written
        <4>1. Stored(p)' = Stored(p)
          <5>1. Len(disk') = size
            BY <1>7
          <5>2. CASE p <= size
            <6>1. disk'[p] = IF p <= Len(disk) THEN disk[p] ELSE Blank(page_words)
              BY <1>7, <3>2, <5>2
            <6> QED BY <5>1, <5>2, <6>1 DEF Stored
          <5>3. CASE ~(p <= size)
            <6>1. ~(p <= Len(disk))
              BY <1>3, <1>8, <5>3
            <6> QED BY <1>7, <5>1, <5>3, <6>1 DEF Stored
          <5> QED BY <5>2, <5>3
        <4>2. \A r \in Here(p) : ~r.own
          BY <1>9, <2>1, <3>2 DEF CleanInv, OwnRowsDirty, Here
        <4>3. Here(p) = Committed(p)
          BY <4>2 DEF Here, Committed
        <4>4. Good(page_words, Stored(p), p, Committed(p))
          BY <1>2, <2>1 DEF CleanInv, FileHasCommitted, PageNo
        <4> QED BY <4>1, <4>3, <4>4
      <3> QED BY <3>1, <3>2
    <2>6. FileHasCommitted'
      <3>1. ASSUME NEW p \in 1..c
            PROVE  Good(page_words, Stored(p), p, Committed(p))'
        <4>1. Committed(p)' = {r \in rows' : r.page = p}
          BY <2>3 DEF Committed
        <4>2. Good(page_words, Stored(p)', p, {r \in rows' : r.page = p})
          BY <2>4, <2>5
        <4> QED BY <1>7, <4>1, <4>2
      <3> QED BY <1>2, <1>7, <3>1 DEF FileHasCommitted, PageNo
    <2>7. FramesHaveRows'
      <3> SUFFICES ASSUME NEW g \in Frame, page_id[g] # NoPage
                   PROVE  Good(page_words, data[g], page_id[g],
                               {r \in rows' : r.page = page_id[g]})
        BY <1>7 DEF FramesHaveRows, Here
      <3>1. Good(page_words, data[g], page_id[g], Here(page_id[g]))
        BY <1>7, <2>1 DEF CleanInv, FramesHaveRows
      <3> QED BY <2>4, <3>1
    <2>8. OwnRowsDirty'
      BY <2>3 DEF OwnRowsDirty
    <2> QED BY <1>7, <2>6, <2>7, <2>8 DEF CleanInv, SlotAwaitsRow, CorruptWhenUneven
  <1> QED BY <1>14, <1>15, <1>16, <1>17, <1>18 DEF HeapInv, HeapTypeInv

LEMMA AbortStep == ASSUME HeapInv, TransactionAbort PROVE HeapInv'
  <1> DEFINE gone == {p \in txn_pages : Mapped(p)}
  <1>1. HeapTypeInv /\ page_words \in Nat /\ page_count \in Nat
    BY Sizes DEF HeapInv
  <1>2. PICK c \in Nat : c = page_count
    BY <1>1
  <1>3. PICK size : size = Cardinality(gone)
    OBVIOUS
  <1>4. /\ pc = "idle"
        /\ page_id' = [f \in Frame |-> IF page_id[f] \in gone THEN NoPage ELSE page_id[f]]
        /\ dirty' = {f \in dirty : page_id[f] \notin gone} /\ txn_pages' = {}
        /\ rows' = {r \in rows : ~r.own}
        /\ UNCHANGED <<page_words, data, disk, page_count, pc, itr, tid, last_row, clean>>
    BY DEF TransactionAbort
  <1>5. PICK order \in [1..size -> gone] :
          /\ \A i, j \in DOMAIN order : i < j => order[i] < order[j]
          /\ free_frames' = free_frames \o [i \in DOMAIN order |-> FrameOf(order[i])]
    BY <1>3, Zenon DEF TransactionAbort
  <1>6. size \in Nat
    <2>1. gone \in SUBSET (1..c)
      BY <1>1, <1>2 DEF HeapTypeInv, DirtyFixed, PageNo
    <2>2. IsFiniteSet(1..c)
      BY FS_Interval
    <2> HIDE DEF gone
    <2>3. IsFiniteSet(gone)
      BY <2>1, <2>2, FS_Subset
    <2> QED BY <1>3, <2>3, FS_CardinalityType
  <1>7. \A p \in gone : /\ p \in Nat /\ p # NoPage /\ p \in txn_pages
                        /\ FrameOf(p) \in Frame /\ page_id[FrameOf(p)] = p
    <2> SUFFICES ASSUME NEW p \in gone
                 PROVE  /\ p \in Nat /\ p # NoPage /\ p \in txn_pages
                        /\ FrameOf(p) \in Frame /\ page_id[FrameOf(p)] = p
      OBVIOUS
    <2>1. p \in txn_pages /\ p \in PageNo /\ Mapped(p)
      BY <1>1 DEF HeapTypeInv, DirtyFixed
    <2>2. p \in Nat /\ p # NoPage
      BY <2>1 DEF PageNo, NoPage
    <2> QED BY <2>1, <2>2 DEF Mapped, FrameOf
  <1>8. \A f \in Frame : page_id[f] \in txn_pages => page_id[f] \in gone
    BY DEF Mapped
  <1> HIDE DEF gone
  <1>9. FramesShared
    BY <1>1 DEF HeapTypeInv
  <1>10. page_id \in [Frame -> {NoPage} \cup (1..c)]
    BY <1>2, <1>9 DEF FramesShared, PageNo
  <1>11. PICK freed : freed = [i \in DOMAIN order |-> FrameOf(order[i])]
    OBVIOUS
  <1>12. /\ freed \in Seq(Frame) /\ Len(freed) = size
         /\ \A i \in 1..size : page_id[freed[i]] = order[i] /\ order[i] \in gone
         /\ \A i, j \in 1..size : freed[i] = freed[j] => i = j
    <2>1. \A i \in 1..size : freed[i] = FrameOf(order[i]) /\ order[i] \in gone
      BY <1>11
    <2>2. \A i \in 1..size : freed[i] \in Frame /\ page_id[freed[i]] = order[i]
      BY <1>7, <2>1
    <2>3. freed \in [1..size -> Frame]
      BY <1>11, <2>2
    <2>4. freed \in Seq(Frame) /\ Len(freed) = size
      BY <1>6, <2>3
    <2>5. ASSUME NEW i \in 1..size, NEW j \in 1..size, freed[i] = freed[j]
          PROVE  i = j
      <3>1. order[i] = order[j] /\ order[i] \in Nat
        BY <1>7, <2>1, <2>2, <2>5
      <3>2. ~(i < j) /\ ~(j < i)
        BY <1>5, <3>1
      <3> QED BY <1>6, <3>2
    <2> QED BY <2>1, <2>2, <2>4, <2>5
  <1>13. FramesShared'
    <2> DEFINE next == free_frames \o freed
               n == Len(free_frames)
    <2>1. /\ free_frames \in Seq(Frame) /\ n \in Nat /\ DOMAIN free_frames = 1..n
          /\ \A i \in 1..n : page_id[free_frames[i]] = NoPage /\ free_frames[i] \in Frame
          /\ \A i, j \in 1..n : free_frames[i] = free_frames[j] => i = j
      BY <1>9 DEF FramesShared
    <2>2. /\ next \in Seq(Frame) /\ DOMAIN next = 1..(n + size)
          /\ \A i \in 1..(n + size) :
               next[i] = IF i <= n THEN free_frames[i] ELSE freed[i - n]
      BY <1>6, <1>12, <2>1
    <2>3. free_frames' = next
      BY <1>5, <1>11
    <2> HIDE DEF next, n
    <2>4. \A i \in 1..(n + size) : IF i <= n THEN i \in 1..n ELSE i - n \in 1..size
      BY <1>6, <2>1
    <2>5. ASSUME NEW i \in 1..(n + size)
          PROVE  next[i] \in Frame /\ page_id'[next[i]] = NoPage
      <3>1. CASE i <= n
        BY <1>4, <2>1, <2>2, <2>4, <3>1
      <3>2. CASE ~(i <= n)
        <4>1. i - n \in 1..size /\ next[i] = freed[i - n]
          BY <2>2, <2>4, <3>2
        <4>2. page_id[next[i]] \in gone
          BY <1>12, <4>1
        <4>3. next[i] \in Frame
          BY <1>12, <4>1
        <4> QED BY <1>4, <4>2, <4>3
      <3> QED BY <3>1, <3>2
    <2>6. ASSUME NEW i \in 1..(n + size), NEW j \in 1..(n + size), next[i] = next[j]
          PROVE  i = j
      <3>1. CASE i <= n /\ j <= n
        BY <2>1, <2>2, <2>4, <2>6, <3>1
      <3>2. CASE ~(i <= n) /\ ~(j <= n)
        <4>1. i - n \in 1..size /\ next[i] = freed[i - n]
          BY <2>2, <2>4, <3>2
        <4>2. j - n \in 1..size /\ next[j] = freed[j - n]
          BY <2>2, <2>4, <3>2
        <4>3. i - n = j - n
          BY <1>12, <2>6, <4>1, <4>2
        <4> QED BY <1>6, <2>1, <4>3
      <3>3. ASSUME NEW a \in 1..(n + size), NEW b \in 1..(n + size), a <= n, ~(b <= n)
            PROVE  next[a] # next[b]
        <4>1. page_id[next[a]] = NoPage
          BY <2>1, <2>2, <2>4, <3>3
        <4>2. b - n \in 1..size /\ next[b] = freed[b - n]
          BY <2>2, <2>4, <3>3
        <4>3. page_id[next[b]] \in gone
          BY <1>12, <4>2
        <4> QED BY <1>7, <4>1, <4>3
      <3> QED BY <2>6, <3>1, <3>2, <3>3
    <2>7. page_id' \in [Frame -> {NoPage} \cup (1..c)]
      BY <1>4, <1>10
    <2>8. \A f, g \in Frame : page_id'[f] = page_id'[g] /\ page_id'[f] # NoPage => f = g
      BY <1>4, <1>9 DEF FramesShared
    <2>9. PageNo' = 1..c
      BY <1>2, <1>4 DEF PageNo
    <2> QED BY <2>2, <2>3, <2>5, <2>6, <2>7, <2>8, <2>9 DEF FramesShared
  <1>14. DirtyFixed'
    <2>1. \A f \in dirty : f \in Frame /\ page_id[f] \in gone
      BY <1>1, <1>8, DirtyIsGone
    <2> QED BY <1>4, <2>1 DEF DirtyFixed
  <1>15. PagesHeld' /\ ClientAt' /\ RowsTyped'
    <2>1. PagesHeld'
      BY <1>1, <1>4 DEF HeapTypeInv, PagesHeld
    <2>2. itr \in 0..(page_count + 1) /\ tid \in Nat \X Nat
      BY <1>1 DEF HeapTypeInv, ClientAt
    <2>3. ClientAt'
      BY <1>4, <2>2 DEF ClientAt, Pcs
    <2>4. RowsTyped'
      BY <1>1, <1>4 DEF HeapTypeInv, RowsTyped, PageNo
    <2> QED BY <2>1, <2>3, <2>4
  <1>16. ASSUME clean'
         PROVE  CleanInv'
    <2>1. CleanInv
      BY <1>4, <1>16 DEF HeapInv
    <2>2. FileHasCommitted'
      <3>1. ASSUME NEW p \in 1..c
            PROVE  Good(page_words, Stored(p), p, Committed(p))'
        <4>1. Committed(p)' = Committed(p) /\ Stored(p)' = Stored(p)
          BY <1>4 DEF Committed, Stored
        <4>2. Good(page_words, Stored(p), p, Committed(p))
          BY <1>2, <2>1 DEF CleanInv, FileHasCommitted, PageNo
        <4> QED BY <1>4, <4>1, <4>2
      <3> QED BY <1>2, <1>4, <3>1 DEF FileHasCommitted, PageNo
    <2>3. FramesHaveRows'
      <3> SUFFICES ASSUME NEW g \in Frame, page_id'[g] # NoPage
                   PROVE  Good(page_words, data[g], page_id'[g],
                               {r \in rows' : r.page = page_id'[g]})
        BY <1>4 DEF FramesHaveRows, Here
      <3>1. page_id'[g] = page_id[g] /\ page_id[g] \notin txn_pages
        BY <1>4, <1>8
      <3>2. \A r \in Here(page_id[g]) : ~r.own
        <4> SUFFICES ASSUME NEW r \in rows, r.page = page_id[g], r.own
                     PROVE  FALSE
          BY DEF Here
        <4>1. PICK h \in dirty : page_id[h] = r.page
          BY <2>1 DEF CleanInv, OwnRowsDirty
        <4> QED BY <1>1, <3>1, <4>1, DirtyIsGone
      <3>3. {r \in rows' : r.page = page_id[g]} = Here(page_id[g])
        BY <1>4, <3>2 DEF Here
      <3>4. Good(page_words, data[g], page_id[g], Here(page_id[g]))
        BY <1>4, <2>1, <3>1 DEF CleanInv, FramesHaveRows
      <3> QED BY <3>1, <3>3, <3>4
    <2>4. OwnRowsDirty'
      BY <1>4 DEF OwnRowsDirty
    <2> QED BY <1>4, <2>2, <2>3, <2>4 DEF CleanInv, SlotAwaitsRow, CorruptWhenUneven
  <1> QED BY <1>13, <1>14, <1>15, <1>16 DEF HeapInv, HeapTypeInv

-----------------------------------------------------------------------------
(* The invariant, and what follows from it.                                *)

LEMMA HeapInit == ASSUME Init PROVE HeapInv
  <1>1. page_words \in PageSizes /\ page_words \in Nat /\ Frames \in Nat
    BY HeapAssumption DEF Init
  <1>2. FramesShared
    BY <1>1 DEF Init, FramesShared, Frame, PageNo
  <1>3. DirtyFixed /\ ClientAt /\ RowsTyped
    BY DEF Init, DirtyFixed, ClientAt, Pcs, RowsTyped, PageNo, NoPage
  <1>4. PagesHeld
    <2>1. Blank(page_words) \in Bytes(page_words, page_count)
      BY <1>1, BlankIs DEF Init
    <2>2. data \in [Frame -> Bytes(page_words, page_count)]
      BY <2>1 DEF Init
    <2> QED BY <1>1, <2>2 DEF Init, PagesHeld
  <1>5. CleanInv
    BY DEF Init, CleanInv, FileHasCommitted, FramesHaveRows, OwnRowsDirty, SlotAwaitsRow,
           CorruptWhenUneven, PageNo
  <1> QED BY <1>2, <1>3, <1>4, <1>5 DEF HeapInv, HeapTypeInv

LEMMA HeapStutter == ASSUME HeapInv, UNCHANGED vars PROVE HeapInv'
  <1>1. /\ page_words' = page_words /\ data' = data /\ page_id' = page_id /\ dirty' = dirty
        /\ free_frames' = free_frames /\ txn_pages' = txn_pages /\ disk' = disk
        /\ page_count' = page_count /\ pc' = pc /\ itr' = itr /\ tid' = tid
        /\ rows' = rows /\ last_row' = last_row /\ clean' = clean
    BY DEF vars
  <1>2. HeapTypeInv'
    BY <1>1 DEF HeapInv, HeapTypeInv, FramesShared, DirtyFixed, PagesHeld, ClientAt, RowsTyped,
                PageNo
  <1>3. ASSUME clean'
        PROVE  CleanInv'
    <2>1. CleanInv
      BY <1>1, <1>3 DEF HeapInv
    <2> QED BY <1>1, <2>1 DEF CleanInv, FileHasCommitted, FramesHaveRows, OwnRowsDirty,
                              SlotAwaitsRow, CorruptWhenUneven, PageNo, Stored, Committed, Here
  <1> QED BY <1>2, <1>3 DEF HeapInv

LEMMA HeapStep == ASSUME HeapInv, [Next]_vars PROVE HeapInv'
  BY HeapStutter, CompleteStep, AbortStep, ClientSteps, TryPageStep, NewPageStep,
     BufferFullStep, WriteStep, LookPageStep, ReadRowsStep DEF Next

\* The file has the committed rows, frames those of the running transaction too, as long as
\* no page was read into another frame and inserted into before look put its pointer right.
THEOREM HeapInvariant == Spec => []HeapInv
  <1>1. Init => HeapInv
    BY HeapInit
  <1>2. HeapInv /\ [Next]_vars => HeapInv'
    BY HeapStep
  <1> QED BY <1>1, <1>2, PTL DEF Spec

\* Frames, pages and tids stay in bounds, whatever stale bytes addSlot is misled by.
THEOREM HeapTypes == Spec => []HeapTypeOK
  <1>1. HeapInv => HeapTypeOK
    <2> SUFFICES ASSUME HeapInv
                 PROVE  HeapTypeOK
      OBVIOUS
    <2>1. HeapTypeInv /\ page_words \in Nat /\ page_count \in Nat
      BY Sizes DEF HeapInv
    <2>2. \A f \in Frame : DOMAIN data[f].words = 0..(page_words - 1)
      <3> SUFFICES ASSUME NEW f \in Frame
                   PROVE  DOMAIN data[f].words = 0..(page_words - 1)
        OBVIOUS
      <3>1. data[f] \in Bytes(page_words, page_count)
        BY <2>1 DEF HeapTypeInv, PagesHeld
      <3>2. data[f].words \in Words(page_words)
        BY <2>1, <3>1, BytesFacts
      <3> QED BY <3>2 DEF Words
    <2> QED BY <2>1, <2>2 DEF HeapTypeInv, FramesShared, DirtyFixed, PagesHeld, ClientAt,
                              RowsTyped, HeapTypeOK
  <1> QED BY <1>1, HeapInvariant, PTL

\* What a fix would find is the page with its rows, but where a slot awaits one.
LEMMA CurrentIsGood ==
    ASSUME HeapInv, clean, NEW p \in PageNo, ~(pc = "write" /\ p = tid[1])
    PROVE  /\ Current(p) \in Bytes(page_words, page_count)
           /\ Good(page_words, Current(p), p, Here(p))
  <1>1. /\ HeapTypeInv /\ CleanInv /\ p # NoPage /\ p \in Nat
        /\ page_words \in Nat /\ page_count \in Nat
    BY Sizes DEF HeapInv, PageNo, NoPage
  <1>2. CASE Mapped(p)
    <2>1. CanFix(p) /\ ~TakesOver(p) /\ Current(p) = Fixed(p)
      BY <1>2 DEF CanFix, TakesOver, Current, Fixed
    <2> QED BY <1>1, <2>1, FixedIsTyped, FixedIsGood
  <1>3. CASE ~Mapped(p)
    <2>1. Current(p) = Stored(p)
      BY <1>3 DEF Current, Stored
    <2>2. \A r \in Here(p) : ~r.own
      BY <1>1, <1>3 DEF CleanInv, OwnRowsDirty, Here, HeapTypeInv, DirtyFixed, Mapped
    <2>3. Here(p) = Committed(p)
      BY <2>2 DEF Here, Committed
    <2>4. Good(page_words, Stored(p), p, Committed(p))
      BY <1>1 DEF CleanInv, FileHasCommitted
    <2>5. Stored(p) \in Bytes(page_words, page_count)
      <3>1. CASE p <= Len(disk)
        <4>1. disk \in Seq(Bytes(page_words, page_count)) /\ p \in 1..Len(disk)
          BY <1>1, <3>1 DEF HeapTypeInv, PagesHeld, NoPage
        <4> QED BY <3>1, <4>1 DEF Stored
      <3>2. CASE ~(p <= Len(disk))
        BY <1>1, <3>2, BlankIs DEF Stored
      <3> QED BY <3>1, <3>2
    <2> QED BY <2>1, <2>3, <2>4, <2>5
  <1> QED BY <1>2, <1>3

\* Rows are where their tids say, and pages have no other rows: an aborted row is gone,
\* and a committed one survives its frame.
THEOREM RowsAreFound == Spec => []RowsFound
  <1>1. HeapInv => RowsFound
    <2> SUFFICES ASSUME HeapInv, clean, pc \in {"idle", "scan", "look", "read"}, NEW p \in PageNo
                 PROVE  LET here == {r \in rows : r.page = p}
                            slot(r) == Current(p).words[r.slot]
                        IN  /\ Current(p).first_free_slot = Cardinality(here)
                            /\ \A r \in here :
                                 /\ slot(r)[1] = "slot"
                                 /\ \A i \in Extent(slot(r)) :
                                      Current(p).words[i] = RecordPart(r.row)
      BY Zenon DEF RowsFound
    <2>1. pc # "write" /\ page_words \in Nat /\ page_count \in Nat
      BY Sizes DEF HeapInv
    <2>2. /\ Current(p) \in Bytes(page_words, page_count)
          /\ Good(page_words, Current(p), p, Here(p))
      BY <2>1, CurrentIsGood
    <2>3. /\ Current(p).first_free_slot = Cardinality(Here(p))
          /\ \A r \in Here(p) : /\ Current(p).words[r.slot][1] = "slot"
                                /\ \A i \in Extent(Current(p).words[r.slot]) :
                                     Current(p).words[i] = RecordPart(r.row)
      BY <2>1, <2>2, GoodIsFound
    <2> QED BY <2>3, Zenon DEF Here
  <1> QED BY <1>1, HeapInvariant, PTL

\* The slot array meets the records only where a page has room for one but not its slot.
THEOREM PagesStayWellFormed == Spec => []PagesWellFormed
  <1>1. HeapInv => PagesWellFormed
    <2> SUFFICES ASSUME HeapInv, clean
                 PROVE  /\ pc = "corrupt" => page_words % (RecordWords + 1) = RecordWords
                        /\ pc # "corrupt" => \A p \in PageNo :
                             \/ Current(p).id = NoPage
                             \/ Current(p).id = p /\ WellFormed(Current(p), page_words)
      BY Zenon DEF PagesWellFormed
    <2>1. /\ HeapTypeInv /\ CleanInv /\ page_words \in Nat /\ page_count \in Nat
      BY Sizes DEF HeapInv
    <2>2. pc = "corrupt" => page_words % (RecordWords + 1) = RecordWords
      BY <2>1 DEF CleanInv, CorruptWhenUneven
    <2>3. ASSUME NEW p \in PageNo
          PROVE  \/ Current(p).id = NoPage
                 \/ Current(p).id = p /\ WellFormed(Current(p), page_words)
      <3>1. CASE ~(pc = "write" /\ p = tid[1])
        <4>1. /\ Current(p) \in Bytes(page_words, page_count)
              /\ Good(page_words, Current(p), p, Here(p))
          BY <3>1, CurrentIsGood
        <4> QED BY <2>1, <4>1, GoodIsFound
      <3>2. CASE pc = "write" /\ p = tid[1]
        <4>1. PICK f \in Frame : page_id[f] = p /\ data[f].id = p /\ Made(page_words, data[f])
          BY <2>1, <3>2 DEF CleanInv, SlotAwaitsRow
        <4>2. p # NoPage
          BY DEF PageNo, NoPage
        <4>3. Mapped(p) /\ FrameOf(p) = f
          BY <2>1, <4>1, <4>2, HeldFrame DEF HeapTypeInv
        <4>4. Current(p) = data[f] /\ data[f] \in Bytes(page_words, page_count)
          BY <2>1, <4>3 DEF Current, HeapTypeInv, PagesHeld
        <4>5. WellFormed(data[f], page_words)
          BY <2>1, <4>1, <4>4, MadeIsWellFormed
        <4> QED BY <4>1, <4>4, <4>5
      <3> QED BY <3>1, <3>2
    <2> QED BY <2>2, <2>3
  <1> QED BY <1>1, HeapInvariant, PTL
=============================================================================
