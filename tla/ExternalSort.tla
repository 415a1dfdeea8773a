---------------------------- MODULE ExternalSort ----------------------------
(***************************************************************************)
(* external_sort of lab 1: sorted chunks in temporary files, then a merge  *)
(* of all of them with a priority queue.                                   *)
(*                                                                         *)
(* A value in a file or in the queue is named by the place in the input it *)
(* was read from (0 for bytes that come from no value), so that equal      *)
(* values are told apart: std::sort and the queue order them as they like. *)
(* Offsets count values, not bytes, and places count from 1.  The memory   *)
(* of a chunk is given back at the end of its iteration.  Errors of the    *)
(* file system end the program and are no steps; Element::position is      *)
(* never read and is left out.                                             *)
(***************************************************************************)
EXTENDS Naturals, Sequences, FiniteSets, Functions

CONSTANTS Value,      \* the integers a file holds
          MaxValues,  \* longest input
          OldSizes,   \* sizes, in values, the output file has before the sort
          MemSizes    \* the values of mem_size, in bytes

\* A mem_size that holds no value makes the code divide by zero.
ASSUME SortAssumption ==
    /\ Value \subseteq Nat
    /\ MaxValues \in Nat /\ OldSizes \subseteq Nat
    /\ MemSizes \subseteq Nat /\ \A m \in MemSizes : m >= 8

VARIABLES
    input,
    mem_size,
    sorted_chunks,    \* the temporary files
    pq,
    chunk_positions,  \* for each chunk, how many of its values have been read
    output,
    output_position,  \* how many values have been written
    pc

vars == <<input, mem_size, sorted_chunks, pq, chunk_positions, output, output_position, pc>>
arguments == <<input, mem_size>>

num_values == Len(input)
Places == 1..num_values

values_per_chunk == mem_size \div 8

\* Variant with a fault: a last chunk that is not full is dropped.
num_chunks_Faulty == num_values \div values_per_chunk
num_chunks == (num_values + values_per_chunk - 1) \div values_per_chunk

ChunkStart(i) == (i - 1) * values_per_chunk

ChunkSize(i) ==
    IF values_per_chunk < num_values - ChunkStart(i) THEN values_per_chunk
    ELSE num_values - ChunkStart(i)

\* Element::operator> compares values only.
Smallest(q) == {e \in q : \A d \in q : input[e.value] <= input[d.value]}

Ascending(file) ==
    \A j, k \in DOMAIN file : j < k => input[file[j]] <= input[file[k]]

SortInit ==
    /\ input \in UNION {[1..n -> Value] : n \in 0..MaxValues}
    /\ mem_size \in MemSizes
    /\ sorted_chunks = <<>>
    /\ pq = {}
    /\ chunk_positions = <<>>
    /\ output \in {[k \in 1..m |-> 0] : m \in OldSizes}
    /\ output_position = 0
    /\ pc = "split"

-----------------------------------------------------------------------------
\* Variant with a fault: a chunk is written as it was read.
SortChunkFaulty ==
    LET i == Len(sorted_chunks) + 1
    IN  /\ pc = "split"
        /\ i <= num_chunks
        /\ sorted_chunks' = Append(sorted_chunks, [k \in 1..ChunkSize(i) |-> ChunkStart(i) + k])
        /\ UNCHANGED <<arguments, pq, chunk_positions, output, output_position, pc>>

\* One iteration of step 1: the next values of the input, sorted, in a file of their own.
SortChunk ==
    LET i == Len(sorted_chunks) + 1
    IN  /\ pc = "split"
        /\ i <= num_chunks
        /\ \E file \in Bijection(1..ChunkSize(i), (ChunkStart(i) + 1)..(ChunkStart(i) + ChunkSize(i))) :
            /\ Ascending(file)
            /\ sorted_chunks' = Append(sorted_chunks, file)
        /\ UNCHANGED <<arguments, pq, chunk_positions, output, output_position, pc>>

\* Variants with a fault: the values read are not counted ...
StartMergeUncounted ==
    /\ pc = "split"
    /\ Len(sorted_chunks) = num_chunks
    /\ pq' = {[value |-> sorted_chunks[i][1], chunk_id |-> i] : i \in 1..num_chunks}
    /\ chunk_positions' = [i \in 1..num_chunks |-> 0]
    /\ output' = [k \in Places |-> IF k <= Len(output) THEN output[k] ELSE 0]
    /\ pc' = "merge"
    /\ UNCHANGED <<arguments, sorted_chunks, output_position>>

\* ... and output keeps the size it had.
StartMergeFaulty ==
    /\ pc = "split"
    /\ Len(sorted_chunks) = num_chunks
    /\ pq' = {[value |-> sorted_chunks[i][1], chunk_id |-> i] : i \in 1..num_chunks}
    /\ chunk_positions' = [i \in 1..num_chunks |-> 1]
    /\ pc' = "merge"
    /\ UNCHANGED <<arguments, sorted_chunks, output, output_position>>

\* The queue gets the first value of each chunk, and output its size: what is cut off or
\* appended holds no value of the input.
StartMerge ==
    /\ pc = "split"
    /\ Len(sorted_chunks) = num_chunks
    /\ pq' = {[value |-> sorted_chunks[i][1], chunk_id |-> i] : i \in 1..num_chunks}
    /\ chunk_positions' = [i \in 1..num_chunks |-> 1]
    /\ output' = [k \in Places |-> IF k <= Len(output) THEN output[k] ELSE 0]
    /\ pc' = "merge"
    /\ UNCHANGED <<arguments, sorted_chunks, output_position>>

\* Variants with a fault: any element is taken ...
MergeStepAnyElement ==
    /\ pc = "merge"
    /\ \E top \in pq :
        LET c == top.chunk_id
        IN  /\ output' = [output EXCEPT ![output_position + 1] = top.value]
            /\ IF chunk_positions[c] < ChunkSize(c)
               THEN /\ pq' = (pq \ {top}) \cup
                            {[value |-> sorted_chunks[c][chunk_positions[c] + 1], chunk_id |-> c]}
                    /\ chunk_positions' = [chunk_positions EXCEPT ![c] = @ + 1]
               ELSE pq' = pq \ {top} /\ UNCHANGED chunk_positions
    /\ output_position' = output_position + 1
    /\ UNCHANGED <<arguments, sorted_chunks, pc>>

\* ... and the place in the chunk is not moved on (writing stops at the end of output).
MergeStepRereads ==
    /\ pc = "merge"
    /\ \E top \in Smallest(pq) :
        LET c == top.chunk_id
        IN  /\ output' = [output EXCEPT ![output_position + 1] = top.value]
            /\ IF chunk_positions[c] < ChunkSize(c)
               THEN pq' = (pq \ {top}) \cup
                            {[value |-> sorted_chunks[c][chunk_positions[c] + 1], chunk_id |-> c]}
               ELSE pq' = pq \ {top}
    /\ output_position' = IF output_position < num_values THEN output_position + 1
                          ELSE output_position
    /\ UNCHANGED <<arguments, sorted_chunks, chunk_positions, pc>>

\* One iteration of the merge: a smallest element is written, and replaced by the next
\* one of its chunk if there is one.
MergeStep ==
    /\ pc = "merge"
    /\ \E top \in Smallest(pq) :
        LET c == top.chunk_id
        IN  /\ output' = [output EXCEPT ![output_position + 1] = top.value]
            /\ IF chunk_positions[c] < ChunkSize(c)
               THEN /\ pq' = (pq \ {top}) \cup
                            {[value |-> sorted_chunks[c][chunk_positions[c] + 1], chunk_id |-> c]}
                    /\ chunk_positions' = [chunk_positions EXCEPT ![c] = @ + 1]
               ELSE pq' = pq \ {top} /\ UNCHANGED chunk_positions
    /\ output_position' = output_position + 1
    /\ UNCHANGED <<arguments, sorted_chunks, pc>>

Return ==
    /\ pc = "merge"
    /\ pq = {}
    /\ pc' = "done"
    /\ UNCHANGED <<arguments, sorted_chunks, pq, chunk_positions, output, output_position>>

SortNext == SortChunk \/ StartMerge \/ MergeStep \/ Return

SortSpec == SortInit /\ [][SortNext]_vars

\* One thread runs to its end.
SortFairSpec == SortSpec /\ WF_vars(SortNext)

-----------------------------------------------------------------------------
SortTypeOK ==
    /\ input \in Seq(Value) /\ num_values <= MaxValues
    /\ mem_size \in MemSizes
    /\ sorted_chunks \in Seq(Seq(Places)) /\ Len(sorted_chunks) <= num_chunks
    /\ pq \subseteq [value : Places, chunk_id : 1..num_chunks]
    /\ chunk_positions \in IF pc = "split" THEN {<<>>} ELSE [1..num_chunks -> 1..values_per_chunk]
    /\ output \in Seq({0} \cup Places)
    /\ output_position \in 0..num_values
    /\ pc \in {"split", "merge", "done"}

ReadOf(i) == IF pc = "split" THEN 0 ELSE chunk_positions[i]

\* Every value split so far, and then every value, is in exactly one place: unread in its
\* chunk, in the queue, or written.  None is lost and none is sorted twice, whatever the
\* last chunk's size.
ValuesConserved ==
    \A j \in Places :
        LET unread == {u \in (1..Len(sorted_chunks)) \X Places :
                           /\ u[2] \in ReadOf(u[1]) + 1..Len(sorted_chunks[u[1]])
                           /\ sorted_chunks[u[1]][u[2]] = j}
            queued == {e \in pq : e.value = j}
            written == {k \in 1..output_position : output[k] = j}
        IN  Cardinality(unread) + Cardinality(queued) + Cardinality(written) =
                IF pc # "split" \/ j <= Len(sorted_chunks) * values_per_chunk THEN 1 ELSE 0

\* What is written is ascending, and not above anything still queued or unread, although
\* the queue knows one value of each chunk only.
MergeOrdered ==
    \A k \in 1..output_position :
        /\ \A j \in 1..k - 1 : input[output[j]] <= input[output[k]]
        /\ \A e \in pq : input[output[k]] <= input[e.value]
        /\ \A i \in 1..Len(sorted_chunks) :
              \A u \in ReadOf(i) + 1..Len(sorted_chunks[i]) :
                  input[output[k]] <= input[sorted_chunks[i][u]]

\* "offset + size must not be larger than size()" (file.h:31, file.h:49) of the calls the
\* next step makes: on the input, on the chunks and on the output.
BlocksWithinFiles ==
    /\ pc = "split" =>
          \A i \in 1..num_chunks : ChunkStart(i) < num_values /\ ChunkSize(i) > 0
    /\ pc = "merge" =>
          \A e \in pq :
              /\ output_position < Len(output)
              /\ ChunkSize(e.chunk_id) = Len(sorted_chunks[e.chunk_id])

\* The output once external_sort has returned, as values; bytes of no value read as zero.
Sorted ==
    IF pc = "done" THEN {[k \in DOMAIN output |-> IF output[k] = 0 THEN 0 ELSE input[output[k]]]}
    ELSE {}

\* external_sort sorts: its steps are a step of SortTask and steps that change nothing there.
Task == INSTANCE SortTask WITH result <- Sorted
ImplementsSortTask == Task!Spec

\* The merge ends.
SortReturns == <>(pc = "done")
=============================================================================
