----------------------------- MODULE SlottedPage -----------------------------
(***************************************************************************)
(* The slotted page of storage/slotted_page.cc: a header, the slot array   *)
(* that grows behind it, and the records that grow from the end of the     *)
(* page towards it.                                                        *)
(*                                                                         *)
(* The bytes behind the header are counted in words of 8 bytes, the size   *)
(* of a slot, from 0; data_start and offsets count from there too.  A word *)
(* holds zeros, a slot (offset and length) or a part of a record.  The     *)
(* header stores where in memory the page is: buffer_frame, here the       *)
(* number of a frame.  addSlot and getSlot find the slot array through it, *)
(* so they are given that frame's words and not the page's own.            *)
(***************************************************************************)
EXTENDS Naturals

CONSTANTS RecordWords   \* words of a record (table_id and field in the tests: 2)

ASSUME RecordAssumption == RecordWords \in Nat \ {0}

Zero == <<"zero", 0, 0>>
Slot(offset, length) == <<"slot", offset, length>>
RecordPart(row) == <<"record", row, 0>>

NoFrame == 0

\* A header in bytes never written; its id names no page of the segment.
NoPage == 0

\* The page of a frame's bytes.
Page(frame, id, words, n) ==
    [buffer_frame |-> frame, id |-> id, slot_count |-> 0, first_free_slot |-> 0,
     data_start |-> n, free_space |-> n, words |-> words]

Blank(n) == [Page(NoFrame, NoPage, [i \in 0..(n - 1) |-> Zero], n)
               EXCEPT !.data_start = 0, !.free_space = 0]

\* header.first_free_slot after addSlot: the first slot with value 0, else slot_count.
FirstFreeSlot(slots, count) ==
    IF \E i \in 0..(count - 1) : slots[i] = Zero
    THEN CHOOSE i \in 0..(count - 1) : slots[i] = Zero /\ \A j \in 0..(i - 1) : slots[j] # Zero
    ELSE count

\* data_start and slot_count after addSlot(RecordWords).
DataStart(page) == page.data_start - RecordWords
SlotCount(page) ==
    IF page.first_free_slot = page.slot_count THEN page.slot_count + 1 ELSE page.slot_count

\* Variant with a fault: free_space does not count the slot just added.
FreeSpaceFaulty(page) == DataStart(page) - page.slot_count

\* free_space after addSlot, in the code an unsigned difference.
FreeSpace(page) == DataStart(page) - SlotCount(page)

\* The difference does not wrap: the slot array stays in front of the records.
SlotFits(page) == SlotCount(page) <= DataStart(page)

\* addSlot(RecordWords), where free_space allows it and the slot fits: the page, and
\* the slot array that its buffer_frame leads to.
AddSlot(page, slots) ==
    LET array == [slots EXCEPT ![page.first_free_slot] = Slot(DataStart(page), RecordWords)]
    IN  [page  |-> [page EXCEPT !.data_start = DataStart(page), !.slot_count = SlotCount(page),
                                !.free_space = FreeSpace(page),
                                !.first_free_slot = FirstFreeSlot(array, SlotCount(page))],
         slots |-> array]

\* The words a slot's record has.
Extent(slot) == {slot[2] + i : i \in 0..(slot[3] - 1)}

\* A page that was made: slots and records do not overlap, records do not overlap each
\* other, and free_space is what lies between.
WellFormed(page, n) ==
    LET used == 0..(page.slot_count - 1)
        slot(i) == page.words[i]
    IN  /\ page.slot_count <= page.data_start /\ page.data_start <= n
        /\ page.free_space = page.data_start - page.slot_count
        /\ page.first_free_slot = page.slot_count
        /\ \A i \in used : slot(i)[1] = "slot" /\ Extent(slot(i)) \subseteq page.data_start..(n - 1)
        /\ \A i, j \in used : i # j => Extent(slot(i)) \cap Extent(slot(j)) = {}
=============================================================================
