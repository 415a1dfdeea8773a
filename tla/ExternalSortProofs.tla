------------------------- MODULE ExternalSortProofs -------------------------
(***************************************************************************)
(* external_sort sorts, for inputs, values and memory sizes of any size.   *)
(* SortInv follows each value: where it is in its chunk tells whether it   *)
(* has been written, and a chunk that is not exhausted has its first value *)
(* that was not written in the queue, so that the smallest of the queue is *)
(* the smallest of all that is left.                                       *)
(***************************************************************************)
EXTENDS ExternalSort, Integers, FiniteSetTheorems, TLAPS

ChunkPlaces(i) == (ChunkStart(i) + 1)..(ChunkStart(i) + ChunkSize(i))

Element(i, k) == [value |-> sorted_chunks[i][k], chunk_id |-> i]

\* The values written so far.
Out == {output[k] : k \in 1..output_position}

ArgumentsOK == input \in Seq(Value) /\ num_values <= MaxValues /\ mem_size \in MemSizes

ChunksSorted ==
    /\ sorted_chunks \in Seq(Seq(Places))
    /\ Len(sorted_chunks) <= num_chunks
    /\ \A i \in 1..Len(sorted_chunks) :
          /\ sorted_chunks[i] \in Bijection(1..ChunkSize(i), ChunkPlaces(i))
          /\ Ascending(sorted_chunks[i])

Splitting ==
    /\ pq = {}
    /\ chunk_positions = <<>>
    /\ output \in Seq({0})
    /\ output_position = 0

\* During the merge: types, ...
MergeTypes ==
    /\ Len(sorted_chunks) = num_chunks
    /\ chunk_positions \in [1..num_chunks -> Nat]
    /\ \A i \in 1..num_chunks : chunk_positions[i] \in 1..ChunkSize(i)
    /\ output \in [Places -> {0} \cup Places]
    /\ output_position \in 0..num_values

\* ... the queue holds, of each chunk, the value read last unless it has been written ...
QueueExact ==
    /\ \A e \in pq : \E i \in 1..num_chunks : e = Element(i, chunk_positions[i])
    /\ \A i \in 1..num_chunks :
          chunk_positions[i] < ChunkSize(i) => Element(i, chunk_positions[i]) \in pq

\* ... and what is written is what was read before it, each value once.
WrittenExact ==
    /\ \A i \in 1..num_chunks : \A k \in 1..ChunkSize(i) :
          sorted_chunks[i][k] \in Out <=>
              \/ k < chunk_positions[i]
              \/ k = chunk_positions[i] /\ Element(i, k) \notin pq
    /\ \A a \in 1..output_position : output[a] \in Places
    /\ \A a, b \in 1..output_position : output[a] = output[b] => a = b

SortInv ==
    /\ ArgumentsOK
    /\ pc \in {"split", "merge", "done"}
    /\ ChunksSorted
    /\ pc = "split" => Splitting
    /\ pc # "split" => MergeTypes /\ QueueExact /\ WrittenExact /\ MergeOrdered
    /\ pc = "done" => pq = {}

-----------------------------------------------------------------------------
(* The chunks divide the input.                                            *)

LEMMA DivFacts ==
    ASSUME NEW a \in Nat, NEW b \in Nat, b >= 1
    PROVE  /\ a \div b \in Nat
           /\ (a \div b) * b <= a
           /\ a < (a \div b) * b + b
  OBVIOUS

LEMMA MulMono ==
    ASSUME NEW a \in Nat, NEW b \in Nat, NEW v \in Nat, a <= b
    PROVE  a * v <= b * v /\ a * v \in Nat /\ b * v \in Nat
  OBVIOUS

\* Rounding up the number of chunks makes them reach the last value, and no further chunk.
LEMMA ChunksCover ==
    ASSUME NEW n \in Nat, NEW v \in Nat, v >= 1, NEW c \in Nat, c = (n + v - 1) \div v
    PROVE  /\ \A i \in 1..c : (i - 1) * v < n
           /\ \A j \in 1..n : \E i \in 1..c : (i - 1) * v < j /\ j <= (i - 1) * v + v
  <1>1. c * v <= n + v - 1 /\ n + v - 1 < c * v + v
    <2>1. n + v - 1 \in Nat OBVIOUS
    <2> QED BY <2>1, DivFacts
  <1>2. ASSUME NEW i \in 1..c
        PROVE  (i - 1) * v < n
    <2>1. (i - 1) * v <= (c - 1) * v BY MulMono
    <2>2. (c - 1) * v = c * v - v OBVIOUS
    <2> QED BY <1>1, <2>1, <2>2
  <1>3. ASSUME NEW j \in 1..n
        PROVE  \E i \in 1..c : (i - 1) * v < j /\ j <= (i - 1) * v + v
    <2> DEFINE q == (j - 1) \div v
    <2>1. q \in Nat /\ q * v <= j - 1 /\ j - 1 < q * v + v BY DivFacts
    <2> HIDE DEF q
    <2>2. q + 1 <= c
      <3>1. CASE c <= q
        <4>1. c * v <= q * v /\ c * v \in Nat /\ q * v \in Nat BY <3>1, <2>1, MulMono
        <4> QED BY <1>1, <2>1, <4>1
      <3> QED BY <3>1, <2>1
    <2>3. (q + 1) - 1 = q BY <2>1
    <2> QED BY <2>1, <2>2, <2>3
  <1> QED BY <1>2, <1>3

\* Chunks are not empty, lie in the input, cover it, and do not overlap.
LEMMA ChunkFacts ==
    ASSUME ArgumentsOK
    PROVE  /\ num_values \in Nat /\ values_per_chunk \in Nat /\ num_chunks \in Nat
           /\ \A i \in 1..num_chunks :
                 /\ ChunkStart(i) \in Nat /\ ChunkStart(i) < num_values
                 /\ ChunkSize(i) \in 1..values_per_chunk
                 /\ ChunkPlaces(i) \subseteq Places
           /\ \A j \in Places : \E i \in 1..num_chunks : j \in ChunkPlaces(i)
           /\ \A i, l \in 1..num_chunks : i # l => ChunkPlaces(i) \cap ChunkPlaces(l) = {}
  <1> DEFINE n == num_values
             v == values_per_chunk
             c == num_chunks
  <1>1. n \in Nat
    BY DEF ArgumentsOK, num_values
  <1>2. v \in Nat /\ v >= 1
    <2>1. mem_size \in Nat /\ mem_size >= 8
      BY SortAssumption DEF ArgumentsOK
    <2> QED BY <2>1 DEF values_per_chunk
  <1>3. c \in Nat /\ c = (n + v - 1) \div v
    <2>1. n + v - 1 \in Nat BY <1>1, <1>2
    <2> QED BY <1>2, <2>1, DivFacts DEF num_chunks
  <1> HIDE DEF n, v, c
  <1>4. /\ \A i \in 1..c : (i - 1) * v < n
        /\ \A j \in 1..n : \E i \in 1..c : (i - 1) * v < j /\ j <= (i - 1) * v + v
    BY <1>1, <1>2, <1>3, ChunksCover
  <1>5. \A i \in 1..c : (i - 1) * v \in Nat
    BY <1>2, <1>3, MulMono
  <1>6. ASSUME NEW i \in 1..c
        PROVE  /\ ChunkStart(i) = (i - 1) * v
               /\ ChunkSize(i) \in 1..v
               /\ ChunkSize(i) = v \/ ChunkStart(i) + ChunkSize(i) = n
               /\ ChunkStart(i) + ChunkSize(i) <= n
    <2>1. ChunkStart(i) = (i - 1) * v BY DEF ChunkStart, v
    <2>2. ChunkSize(i) = IF v < n - (i - 1) * v THEN v ELSE n - (i - 1) * v
      BY <2>1 DEF ChunkSize, v, n
    <2>3. (i - 1) * v \in Nat /\ (i - 1) * v < n BY <1>4, <1>5
    <2> QED BY <1>1, <1>2, <2>1, <2>2, <2>3
  <1>7. ASSUME NEW i \in 1..c, NEW l \in 1..c, i < l
        PROVE  ChunkStart(i) + ChunkSize(i) <= ChunkStart(l)
    <2>1. i * v <= (l - 1) * v BY <1>2, <1>3, <1>7, MulMono
    <2>2. i * v = (i - 1) * v + v BY <1>2, <1>3
    <2>3. (i - 1) * v \in Nat /\ (l - 1) * v \in Nat BY <1>5
    <2> QED BY <1>2, <1>6, <2>1, <2>2, <2>3
  <1>8. ASSUME NEW i \in 1..c, NEW l \in 1..c, i # l
        PROVE  ChunkPlaces(i) \cap ChunkPlaces(l) = {}
    <2>1. /\ ChunkStart(i) \in Nat /\ ChunkStart(l) \in Nat
          /\ ChunkSize(i) \in Nat /\ ChunkSize(l) \in Nat
      BY <1>2, <1>5, <1>6
    <2>2. i < l \/ l < i BY <1>3, <1>8
    <2> QED BY <1>7, <2>1, <2>2 DEF ChunkPlaces
  <1>9. \A i \in 1..c : ChunkPlaces(i) \subseteq 1..n
    BY <1>1, <1>2, <1>5, <1>6 DEF ChunkPlaces
  <1>10. \A j \in 1..n : \E i \in 1..c : j \in ChunkPlaces(i)
    <2> SUFFICES ASSUME NEW j \in 1..n PROVE \E i \in 1..c : j \in ChunkPlaces(i)
      OBVIOUS
    <2>1. PICK i \in 1..c : (i - 1) * v < j /\ j <= (i - 1) * v + v
      BY <1>4
    <2>2. ChunkStart(i) \in Nat /\ ChunkSize(i) \in Nat /\ ChunkStart(i) = (i - 1) * v
      BY <1>2, <1>5, <1>6
    <2>3. j \in ChunkStart(i) + 1..ChunkStart(i) + ChunkSize(i)
      BY <1>1, <1>6, <2>1, <2>2
    <2> QED BY <2>3 DEF ChunkPlaces
  <1> QED BY <1>1, <1>2, <1>3, <1>4, <1>5, <1>6, <1>8, <1>9, <1>10 DEF n, v, c, Places

\* What depends on the arguments only does not change.
LEMMA ArgumentsFixed ==
    ASSUME UNCHANGED arguments, NEW i
    PROVE  /\ num_values' = num_values /\ values_per_chunk' = values_per_chunk
           /\ num_chunks' = num_chunks /\ Places' = Places
           /\ ChunkStart(i)' = ChunkStart(i)
           /\ ChunkSize(i)' = ChunkSize(i)
           /\ ChunkPlaces(i)' = ChunkPlaces(i)
           /\ ArgumentsOK' = ArgumentsOK
  BY DEF arguments, num_values, values_per_chunk, num_chunks, Places, ChunkStart, ChunkSize,
         ChunkPlaces, ArgumentsOK

-----------------------------------------------------------------------------
(* What SortInv says of a chunk, of the queue and of the output.           *)

\* A chunk holds the values of its part of the input, each once.
LEMMA ChunkFile ==
    ASSUME SortInv, NEW i \in 1..Len(sorted_chunks)
    PROVE  /\ i \in 1..num_chunks
           /\ sorted_chunks[i] \in [1..ChunkSize(i) -> ChunkPlaces(i)]
           /\ \A k \in 1..ChunkSize(i) : sorted_chunks[i][k] \in Places
           /\ \A j, k \in 1..ChunkSize(i) : sorted_chunks[i][j] = sorted_chunks[i][k] => j = k
           /\ \A j \in ChunkPlaces(i) : \E k \in 1..ChunkSize(i) : sorted_chunks[i][k] = j
           /\ \A j, k \in 1..ChunkSize(i) :
                 j < k => input[sorted_chunks[i][j]] <= input[sorted_chunks[i][k]]
  <1>1. num_chunks \in Nat /\ Len(sorted_chunks) \in Nat /\ Len(sorted_chunks) <= num_chunks
    BY ChunkFacts DEF SortInv, ChunksSorted
  <1>2. i \in 1..num_chunks
    BY <1>1
  <1>3. sorted_chunks[i] \in Bijection(1..ChunkSize(i), ChunkPlaces(i)) /\ Ascending(sorted_chunks[i])
    BY DEF SortInv, ChunksSorted
  <1>4. sorted_chunks[i] \in [1..ChunkSize(i) -> ChunkPlaces(i)]
    BY <1>3 DEF Bijection, Injection
  <1>5. ChunkPlaces(i) \subseteq Places
    BY <1>2, ChunkFacts DEF SortInv
  <1>6. /\ \A j, k \in 1..ChunkSize(i) : sorted_chunks[i][j] = sorted_chunks[i][k] => j = k
        /\ \A j \in ChunkPlaces(i) : \E k \in 1..ChunkSize(i) : sorted_chunks[i][k] = j
    BY <1>3, <1>4 DEF Bijection, Injection, Surjection, IsInjective
  <1>7. \A j, k \in 1..ChunkSize(i) :
           j < k => input[sorted_chunks[i][j]] <= input[sorted_chunks[i][k]]
    BY <1>3, <1>4 DEF Ascending
  <1> QED BY <1>2, <1>4, <1>5, <1>6, <1>7

\* A queued value is one of the input that has not been written.
LEMMA QueuedValue ==
    ASSUME SortInv, pc # "split", NEW e \in pq
    PROVE  \E i \in 1..num_chunks :
              /\ e = Element(i, chunk_positions[i])
              /\ chunk_positions[i] \in 1..ChunkSize(i)
              /\ e.value = sorted_chunks[i][chunk_positions[i]] /\ e.chunk_id = i
              /\ e.value \in Places /\ e.value \notin Out
  <1>1. PICK i \in 1..num_chunks : e = Element(i, chunk_positions[i])
    BY DEF SortInv, QueueExact
  <1>2. chunk_positions[i] \in 1..ChunkSize(i) /\ i \in 1..Len(sorted_chunks)
    BY DEF SortInv, MergeTypes
  <1>3. e.value = sorted_chunks[i][chunk_positions[i]] /\ e.chunk_id = i
    BY <1>1 DEF Element
  <1>4. e.value \in Places
    BY <1>2, <1>3, ChunkFile
  <1>5. ChunkSize(i) \in Nat
    BY ChunkFacts DEF SortInv
  <1>6. e.value \notin Out
    BY <1>1, <1>2, <1>3, <1>5 DEF SortInv, WrittenExact
  <1> QED BY <1>1, <1>2, <1>3, <1>4, <1>6

\* While something is queued there is room for it: the output file is not overrun.
LEMMA RoomInOutput ==
    ASSUME SortInv, pc # "split", NEW e \in pq
    PROVE  output_position < num_values
  <1> DEFINE x == e.value
             written == [k \in 1..output_position |-> output[k]]
  <1>1. num_values \in Nat /\ output_position \in 0..num_values
    BY ChunkFacts DEF SortInv, MergeTypes
  <1>2. x \in Places /\ x \notin Out
    BY QueuedValue
  <1>3. written \in Injection(1..output_position, Places \ {x})
    <2>1. \A k \in 1..output_position : output[k] \in Places \ {x}
      BY <1>2 DEF SortInv, WrittenExact, Out
    <2>2. \A a, b \in 1..output_position : output[a] = output[b] => a = b
      BY DEF SortInv, WrittenExact
    <2> QED BY <2>1, <2>2 DEF Injection, IsInjective
  <1>4. IsFiniteSet(Places) /\ Cardinality(Places) = num_values
    BY <1>1, FS_Interval DEF Places
  <1>5. IsFiniteSet(Places \ {x}) /\ Cardinality(Places \ {x}) = num_values - 1
    BY <1>2, <1>4, FS_RemoveElement
  <1>6. Cardinality(1..output_position) <= num_values - 1
    BY <1>3, <1>5, FS_Injection
  <1>7. Cardinality(1..output_position) = output_position
    BY <1>1, FS_Interval
  <1> QED BY <1>1, <1>6, <1>7

-----------------------------------------------------------------------------
(* SortInv is inductive.                                                   *)

LEMMA SortInitInv == SortInit => SortInv
  <1> SUFFICES ASSUME SortInit PROVE SortInv
    OBVIOUS
  <1>1. ArgumentsOK
    <2>1. PICK n \in 0..MaxValues : input \in [1..n -> Value]
      BY DEF SortInit
    <2>2. n \in Nat /\ n <= MaxValues
      BY SortAssumption
    <2>3. input \in Seq(Value) /\ Len(input) = n
      BY <2>1, <2>2
    <2> QED BY <2>2, <2>3 DEF SortInit, ArgumentsOK, num_values
  <1>2. ChunksSorted
    <2>1. sorted_chunks = <<>> BY DEF SortInit
    <2>2. num_chunks \in Nat BY <1>1, ChunkFacts
    <2> QED BY <2>1, <2>2 DEF ChunksSorted
  <1>3. Splitting
    <2>1. PICK m \in OldSizes : output = [k \in 1..m |-> 0]
      BY DEF SortInit
    <2>2. m \in Nat BY SortAssumption
    <2>3. output \in Seq({0}) BY <2>1, <2>2
    <2> QED BY <2>3 DEF SortInit, Splitting
  <1> QED BY <1>1, <1>2, <1>3 DEF SortInit, SortInv

\* A new file holds the next part of the input.
LEMMA SortChunkInv == ASSUME SortInv, SortChunk PROVE SortInv'
  <1> DEFINE i == Len(sorted_chunks) + 1
  <1>1. PICK file \in Bijection(1..ChunkSize(i), ChunkPlaces(i)) :
           Ascending(file) /\ sorted_chunks' = Append(sorted_chunks, file)
    BY DEF SortChunk, ChunkPlaces
  <1>2. /\ pc = "split" /\ i <= num_chunks
        /\ UNCHANGED <<arguments, pq, chunk_positions, output, output_position, pc>>
    BY DEF SortChunk
  <1>3. num_chunks \in Nat /\ Len(sorted_chunks) \in Nat /\ i \in 1..num_chunks
    BY <1>2, ChunkFacts DEF SortInv, ChunksSorted
  <1>4. file \in [1..ChunkSize(i) -> ChunkPlaces(i)]
    BY <1>1 DEF Bijection, Injection
  <1>5. file \in Seq(Places)
    <2>1. ChunkPlaces(i) \subseteq Places /\ ChunkSize(i) \in Nat
      BY <1>3, ChunkFacts DEF SortInv
    <2> QED BY <1>4, <2>1
  <1>6. ChunksSorted'
    <2>1. /\ sorted_chunks' \in Seq(Seq(Places))
          /\ Len(sorted_chunks') = i
          /\ sorted_chunks'[i] = file
          /\ \A l \in 1..Len(sorted_chunks) : sorted_chunks'[l] = sorted_chunks[l]
      BY <1>1, <1>5 DEF SortInv, ChunksSorted
    <2>2. /\ sorted_chunks' \in Seq(Seq(Places'))
          /\ Len(sorted_chunks') <= num_chunks'
      BY <1>2, <2>1, ArgumentsFixed
    <2>3. ASSUME NEW l \in 1..Len(sorted_chunks')
          PROVE  /\ sorted_chunks'[l] \in Bijection(1..ChunkSize(l)', ChunkPlaces(l)')
                 /\ Ascending(sorted_chunks[l])'
      <3>1. UNCHANGED input BY <1>2 DEF arguments
      <3>2. ChunkSize(l)' = ChunkSize(l) /\ ChunkPlaces(l)' = ChunkPlaces(l)
        BY <1>2, ArgumentsFixed
      <3>3. CASE l = i
        BY <1>1, <2>1, <3>1, <3>2, <3>3 DEF Ascending
      <3>4. CASE l # i
        <4>1. l \in 1..Len(sorted_chunks) BY <1>3, <2>1, <3>4
        <4> QED BY <2>1, <3>1, <3>2, <4>1 DEF SortInv, ChunksSorted, Ascending
      <3> QED BY <3>3, <3>4
    <2> QED BY <2>2, <2>3 DEF ChunksSorted
  <1>7. ArgumentsOK'
    BY <1>2, ArgumentsFixed DEF SortInv
  <1>8. Splitting'
    BY <1>2 DEF SortInv, Splitting
  <1> QED BY <1>2, <1>6, <1>7, <1>8 DEF SortInv

\* The merge starts with the first value of each chunk queued and nothing written.
LEMMA StartMergeInv == ASSUME SortInv, StartMerge PROVE SortInv'
  <1>1. /\ pc = "split" /\ Len(sorted_chunks) = num_chunks
        /\ pq' = {Element(i, 1) : i \in 1..num_chunks}
        /\ chunk_positions' = [i \in 1..num_chunks |-> 1]
        /\ output' = [k \in Places |-> IF k <= Len(output) THEN output[k] ELSE 0]
        /\ pc' = "merge"
        /\ UNCHANGED <<arguments, sorted_chunks, output_position>>
    BY DEF StartMerge, Element
  <1>2. output_position' = 0 /\ output \in Seq({0})
    BY <1>1 DEF SortInv, Splitting
  <1>3. /\ num_values' = num_values /\ num_chunks' = num_chunks /\ Places' = Places
        /\ \A i \in 1..num_chunks : (ChunkSize(i))' = ChunkSize(i)
        /\ ArgumentsOK'
    BY <1>1, ArgumentsFixed DEF SortInv
  <1>4. /\ num_values \in Nat /\ num_chunks \in Nat
        /\ \A i \in 1..num_chunks : ChunkSize(i) \in Nat /\ ChunkSize(i) >= 1
    BY ChunkFacts DEF SortInv
  <1>5. ChunksSorted'
    <2>1. ASSUME NEW i \in 1..Len(sorted_chunks)
          PROVE  /\ sorted_chunks'[i] \in Bijection(1..ChunkSize(i)', ChunkPlaces(i)')
                 /\ Ascending(sorted_chunks[i])'
      <3>1. ChunkSize(i)' = ChunkSize(i) /\ ChunkPlaces(i)' = ChunkPlaces(i) /\ UNCHANGED input
        BY <1>1, ArgumentsFixed DEF arguments
      <3> QED BY <1>1, <3>1 DEF SortInv, ChunksSorted, Ascending
    <2> QED BY <1>1, <1>3, <2>1 DEF SortInv, ChunksSorted
  <1>6. MergeTypes'
    <2>1. output' \in [Places -> {0} \cup Places]
      BY <1>1, <1>2, <1>4 DEF Places
    <2> QED BY <1>1, <1>2, <1>3, <1>4, <2>1 DEF MergeTypes
  <1>7. QueueExact'
    BY <1>1, <1>3 DEF QueueExact, Element
  <1>8. WrittenExact'
    BY <1>1, <1>2, <1>3, <1>4 DEF WrittenExact, Element, Out
  <1>9. MergeOrdered'
    BY <1>2 DEF MergeOrdered
  <1> QED BY <1>1, <1>3, <1>5, <1>6, <1>7, <1>8, <1>9 DEF SortInv

\* A merge step takes the smallest of the queue, and of all that is left.
LEMMA MergeStepInv == ASSUME SortInv, MergeStep PROVE SortInv'
  <1>1. PICK top \in Smallest(pq) :
           LET c == top.chunk_id
           IN  /\ output' = [output EXCEPT ![output_position + 1] = top.value]
               /\ IF chunk_positions[c] < ChunkSize(c)
                  THEN /\ pq' = (pq \ {top}) \cup
                               {[value |-> sorted_chunks[c][chunk_positions[c] + 1], chunk_id |-> c]}
                       /\ chunk_positions' = [chunk_positions EXCEPT ![c] = @ + 1]
                  ELSE pq' = pq \ {top} /\ UNCHANGED chunk_positions
    BY DEF MergeStep
  <1>2. /\ pc = "merge" /\ pc' = "merge"
        /\ output_position' = output_position + 1
        /\ UNCHANGED <<arguments, sorted_chunks>>
        /\ UNCHANGED input
    BY DEF MergeStep, arguments
  <1>3. top \in pq /\ \A d \in pq : input[top.value] <= input[d.value]
    BY DEF Smallest
  <1> DEFINE c == top.chunk_id
             p == chunk_positions[c]
             x == top.value
  <1>4. /\ c \in 1..num_chunks /\ top = Element(c, p) /\ p \in 1..ChunkSize(c)
        /\ x = sorted_chunks[c][p] /\ x \in Places /\ x \notin Out
    BY <1>2, <1>3, QueuedValue
  <1>5. \/ /\ p < ChunkSize(c)
           /\ pq' = (pq \ {top}) \cup {Element(c, p + 1)}
           /\ chunk_positions' = [chunk_positions EXCEPT ![c] = p + 1]
        \/ /\ ~(p < ChunkSize(c))
           /\ pq' = pq \ {top}
           /\ chunk_positions' = chunk_positions
    BY <1>1 DEF Element
  <1>6. output' = [output EXCEPT ![output_position + 1] = x]
    BY <1>1
  <1>7. output_position < num_values
    BY <1>2, <1>3, RoomInOutput
  <1> HIDE DEF c, p, x
  <1>8. /\ num_values' = num_values /\ num_chunks' = num_chunks /\ Places' = Places
        /\ \A i \in 1..num_chunks : (ChunkSize(i))' = ChunkSize(i)
        /\ ArgumentsOK'
    BY <1>2, ArgumentsFixed DEF SortInv
  <1>9. /\ num_values \in Nat /\ num_chunks \in Nat
        /\ \A i \in 1..num_chunks : ChunkSize(i) \in Nat /\ ChunkSize(i) >= 1
    BY ChunkFacts DEF SortInv
  <1>10. MergeTypes /\ QueueExact /\ WrittenExact /\ MergeOrdered /\ ChunksSorted
    BY <1>2 DEF SortInv
  <1>11. ChunksSorted'
    <2>1. ASSUME NEW i \in 1..Len(sorted_chunks)
          PROVE  /\ sorted_chunks'[i] \in Bijection(1..ChunkSize(i)', ChunkPlaces(i)')
                 /\ Ascending(sorted_chunks[i])'
      <3>1. ChunkSize(i)' = ChunkSize(i) /\ ChunkPlaces(i)' = ChunkPlaces(i)
        BY <1>2, ArgumentsFixed
      <3> QED BY <1>2, <1>10, <3>1 DEF ChunksSorted, Ascending
    <2> QED BY <1>2, <1>8, <1>10, <2>1 DEF ChunksSorted
  <1>12. output_position + 1 \in Places /\ output_position \in Nat
    BY <1>7, <1>9, <1>10 DEF MergeTypes, Places
  <1>13. MergeTypes'
    <2>1. output' \in [Places -> {0} \cup Places]
      BY <1>4, <1>6, <1>10 DEF MergeTypes
    <2>2. output_position' \in 0..num_values
      BY <1>2, <1>7, <1>9, <1>12
    <2>3. /\ chunk_positions' \in [1..num_chunks -> Nat]
          /\ \A i \in 1..num_chunks : chunk_positions'[i] \in 1..ChunkSize(i)
      <3>1. /\ chunk_positions \in [1..num_chunks -> Nat]
            /\ \A i \in 1..num_chunks : chunk_positions[i] \in 1..ChunkSize(i)
        BY <1>10 DEF MergeTypes
      <3>2. p < ChunkSize(c) => p + 1 \in 1..ChunkSize(c) /\ p + 1 \in Nat
        BY <1>4, <1>9
      <3> QED BY <1>4, <1>5, <3>1, <3>2
    <2> QED BY <1>2, <1>8, <1>10, <2>1, <2>2, <2>3 DEF MergeTypes
  \* Elements of different chunks, or places, differ.
  <1>14. \A i, l, j, k : Element(i, j) = Element(l, k) => i = l
    BY DEF Element
  <1>15. QueueExact'
    <2>1. ASSUME NEW e \in pq'
          PROVE  \E i \in 1..num_chunks : e = Element(i, chunk_positions'[i])
      <3>1. CASE e \in pq \ {top}
        <4>1. PICK i \in 1..num_chunks : e = Element(i, chunk_positions[i])
          BY <1>10, <3>1 DEF QueueExact
        <4>2. i # c
          BY <1>4, <3>1, <4>1 DEF p
        <4>3. chunk_positions'[i] = chunk_positions[i]
          BY <1>4, <1>5, <1>10, <4>2 DEF MergeTypes
        <4> QED BY <4>1, <4>3
      <3>2. CASE e = Element(c, p + 1) /\ chunk_positions' = [chunk_positions EXCEPT ![c] = p + 1]
        BY <1>4, <1>10, <3>2 DEF MergeTypes
      <3> QED BY <1>5, <2>1, <3>1, <3>2
    <2>2. ASSUME NEW i \in 1..num_chunks, chunk_positions'[i] < ChunkSize(i)
          PROVE  Element(i, chunk_positions'[i]) \in pq'
      <3>1. CASE i = c
        BY <1>4, <1>5, <1>10, <2>2, <3>1 DEF MergeTypes, p
      <3>2. CASE i # c
        <4>1. chunk_positions'[i] = chunk_positions[i]
          BY <1>4, <1>5, <1>10, <3>2 DEF MergeTypes
        <4>2. Element(i, chunk_positions[i]) \in pq \ {top}
          BY <1>4, <1>10, <1>14, <2>2, <3>2, <4>1 DEF QueueExact
        <4> QED BY <1>5, <4>1, <4>2
      <3> QED BY <3>1, <3>2
    <2>3. \A i, k : (Element(i, k))' = Element(i, k)
      BY <1>2 DEF Element
    <2> QED BY <1>8, <2>1, <2>2, <2>3 DEF QueueExact
  <1>16. Out' = Out \cup {x}
    <2>1. /\ \A k \in 1..output_position : output'[k] = output[k]
          /\ output'[output_position + 1] = x
      BY <1>6, <1>9, <1>10, <1>12 DEF MergeTypes, Places
    <2>2. 1..output_position' = 1..output_position \cup {output_position + 1}
      BY <1>2, <1>12
    <2> QED BY <2>1, <2>2 DEF Out
  <1>17. WrittenExact'
    <2>1. ASSUME NEW i \in 1..num_chunks, NEW k \in 1..ChunkSize(i)
          PROVE  sorted_chunks[i][k] \in Out' <=>
                    \/ k < chunk_positions'[i]
                    \/ k = chunk_positions'[i] /\ Element(i, k) \notin pq'
      <3>1. sorted_chunks[i][k] \in Out <=>
               k < chunk_positions[i] \/ (k = chunk_positions[i] /\ Element(i, k) \notin pq)
        BY <1>10 DEF WrittenExact
      <3>2. i \in 1..Len(sorted_chunks) /\ c \in 1..Len(sorted_chunks)
        BY <1>4, <1>10 DEF MergeTypes
      <3>3. CASE i = c
        <4>1. sorted_chunks[i][k] = x <=> k = p
          <5>1. \A j, l \in 1..ChunkSize(c) : sorted_chunks[c][j] = sorted_chunks[c][l] => j = l
            BY <3>2, ChunkFile
          <5> QED BY <1>4, <3>3, <5>1
        <4>2. k \in Nat /\ p \in Nat /\ ChunkSize(c) \in Nat /\ k <= ChunkSize(c) /\ p <= ChunkSize(c)
          BY <1>4, <1>9, <3>3
        <4>3. p = chunk_positions[c] /\ (k = p => Element(i, k) = top)
          BY <1>4, <3>3 DEF p
        <4>4. CASE p < ChunkSize(c) /\ pq' = (pq \ {top}) \cup {Element(c, p + 1)}
                   /\ chunk_positions' = [chunk_positions EXCEPT ![c] = p + 1]
          <5>1. chunk_positions'[i] = p + 1
            BY <1>4, <1>10, <3>3, <4>4 DEF MergeTypes
          <5>2. k = p + 1 => Element(i, k) \in pq'
            BY <3>3, <4>4
          <5> QED BY <1>3, <1>16, <3>1, <3>3, <4>1, <4>2, <4>3, <5>1, <5>2
        <4>5. CASE ~(p < ChunkSize(c)) /\ pq' = pq \ {top} /\ chunk_positions' = chunk_positions
          BY <1>16, <3>1, <3>3, <4>1, <4>2, <4>3, <4>5
        <4> QED BY <1>5, <4>4, <4>5
      <3>4. CASE i # c
        <4>1. sorted_chunks[i][k] \in ChunkPlaces(i) /\ x \in ChunkPlaces(c)
          <5>1. /\ sorted_chunks[i] \in [1..ChunkSize(i) -> ChunkPlaces(i)]
                /\ sorted_chunks[c] \in [1..ChunkSize(c) -> ChunkPlaces(c)]
            BY <3>2, ChunkFile
          <5> QED BY <1>4, <5>1
        <4>2. sorted_chunks[i][k] # x
          BY <1>4, <3>4, <4>1, ChunkFacts DEF SortInv
        <4>3. chunk_positions'[i] = chunk_positions[i]
          BY <1>4, <1>5, <1>10, <3>4 DEF MergeTypes
        <4>4. Element(i, k) \in pq' <=> Element(i, k) \in pq
          BY <1>4, <1>5, <1>14, <3>4
        <4> QED BY <1>16, <3>1, <4>2, <4>3, <4>4
      <3> QED BY <3>3, <3>4
    <2>2. /\ \A k \in 1..output_position : output'[k] = output[k] /\ k # output_position + 1
          /\ output'[output_position + 1] = x
      BY <1>6, <1>9, <1>10, <1>12 DEF MergeTypes, Places
    <2>3. \A k \in 1..output_position' : k \in 1..output_position \/ k = output_position + 1
      BY <1>2, <1>12
    <2>4. \A k \in 1..output_position : output[k] # x /\ output[k] \in Places
      BY <1>4, <1>10 DEF Out, WrittenExact
    <2>5. \A a \in 1..output_position' : output'[a] \in Places
      BY <1>4, <2>2, <2>3, <2>4
    <2>6. \A a, b \in 1..output_position' : output'[a] = output'[b] => a = b
      BY <1>10, <2>2, <2>3, <2>4 DEF WrittenExact
    <2>7. \A i, k : (Element(i, k))' = Element(i, k)
      BY <1>2 DEF Element
    <2>8. UNCHANGED sorted_chunks
      BY <1>2
    <2> HIDE DEF Out
    <2> QED BY <1>8, <2>1, <2>5, <2>6, <2>7, <2>8 DEF WrittenExact
  \* What is unread in a chunk is not below the chunk's queued value.
  <1>18. \A i \in 1..num_chunks : \A u \in 1..ChunkSize(i) :
            chunk_positions[i] < u => input[x] <= input[sorted_chunks[i][u]]
    <2> SUFFICES ASSUME NEW i \in 1..num_chunks, NEW u \in 1..ChunkSize(i), chunk_positions[i] < u
                 PROVE  input[x] <= input[sorted_chunks[i][u]]
      OBVIOUS
    <2> DEFINE k == chunk_positions[i]
    <2>1. k \in 1..ChunkSize(i) /\ i \in 1..Len(sorted_chunks) /\ k < ChunkSize(i)
      BY <1>9, <1>10 DEF MergeTypes
    <2>2. Element(i, k) \in pq
      BY <1>10, <2>1 DEF QueueExact
    <2>3. input[x] <= input[sorted_chunks[i][k]]
      BY <1>3, <2>2 DEF Element, x
    <2>4. input[sorted_chunks[i][k]] <= input[sorted_chunks[i][u]]
      BY <2>1, ChunkFile
    <2>5. sorted_chunks[i][k] \in Places /\ sorted_chunks[i][u] \in Places
      BY <2>1, ChunkFile
    <2>6. \A j \in Places : input[j] \in Nat
      <3>1. input \in Seq(Value) /\ Value \subseteq Nat
        BY SortAssumption DEF SortInv, ArgumentsOK
      <3>2. \A j \in 1..Len(input) : input[j] \in Value
        BY <3>1
      <3> QED BY <3>1, <3>2 DEF Places, num_values
    <2> QED BY <1>4, <2>3, <2>4, <2>5, <2>6
  <1>19. MergeOrdered'
    <2>1. \A i \in 1..num_chunks : Len(sorted_chunks[i]) = ChunkSize(i)
      <3>1. \A i \in 1..num_chunks : sorted_chunks[i] \in [1..ChunkSize(i) -> ChunkPlaces(i)]
        BY <1>10, ChunkFile DEF MergeTypes
      <3> QED BY <1>9, <3>1
    <2>2. \A i \in 1..num_chunks :
             chunk_positions[i] \in Nat /\ chunk_positions'[i] \in Nat
             /\ chunk_positions[i] <= chunk_positions'[i]
      BY <1>4, <1>5, <1>10 DEF MergeTypes, p
    <2>3. Len(sorted_chunks) = num_chunks
      BY <1>10 DEF MergeTypes
    <2>4. \A i \in 1..num_chunks : ReadOf(i) = chunk_positions[i] /\ (ReadOf(i))' = chunk_positions'[i]
      BY <1>2 DEF ReadOf
    \* An element queued by this step was unread before it.
    <2>5. \A e \in pq' : \/ e \in pq
                         \/ /\ e = Element(c, p + 1)
                            /\ p + 1 \in 1..ChunkSize(c) /\ chunk_positions[c] < p + 1
      BY <1>4, <1>5, <1>9 DEF p
    <2>6. \A k \in 1..output_position :
             /\ \A e \in pq' : input[output[k]] <= input[e.value]
             /\ \A i \in 1..num_chunks : \A u \in 1..ChunkSize(i) :
                   chunk_positions[i] < u => input[output[k]] <= input[sorted_chunks[i][u]]
      <3> SUFFICES ASSUME NEW k \in 1..output_position
                   PROVE  /\ \A e \in pq' : input[output[k]] <= input[e.value]
                          /\ \A i \in 1..num_chunks : \A u \in 1..ChunkSize(i) :
                                chunk_positions[i] < u => input[output[k]] <= input[sorted_chunks[i][u]]
        OBVIOUS
      <3>1. \A i \in 1..num_chunks : \A u \in 1..ChunkSize(i) :
               chunk_positions[i] < u => input[output[k]] <= input[sorted_chunks[i][u]]
        BY <1>9, <1>10, <2>1, <2>2, <2>3, <2>4 DEF MergeOrdered
      <3>2. \A e \in pq : input[output[k]] <= input[e.value]
        BY <1>10 DEF MergeOrdered
      <3>3. \A e \in pq' : input[output[k]] <= input[e.value]
        BY <1>4, <2>5, <3>1, <3>2 DEF Element
      <3> QED BY <3>1, <3>3
    <2>7. \A e \in pq' : input[x] <= input[e.value]
      BY <1>3, <1>4, <1>18, <2>5 DEF Element, x
    <2>8. /\ \A k \in 1..output_position : output'[k] = output[k]
          /\ output'[output_position + 1] = x
          /\ \A k \in 1..output_position' : k \in 1..output_position \/ k = output_position + 1
      BY <1>2, <1>6, <1>9, <1>10, <1>12 DEF MergeTypes, Places
    <2>9. ASSUME NEW k \in 1..output_position'
          PROVE  /\ \A j \in 1..k - 1 : input[output'[j]] <= input[output'[k]]
                 /\ \A e \in pq' : input[output'[k]] <= input[e.value]
                 /\ \A i \in 1..num_chunks : \A u \in chunk_positions'[i] + 1..ChunkSize(i) :
                       input[output'[k]] <= input[sorted_chunks[i][u]]
      <3>1. \A i \in 1..num_chunks : \A u \in chunk_positions'[i] + 1..ChunkSize(i) :
               u \in 1..ChunkSize(i) /\ chunk_positions[i] < u
        BY <1>9, <2>2
      <3>2. \A j \in 1..k - 1 : j \in 1..output_position
        BY <1>2, <1>12, <2>9
      <3>3. CASE k \in 1..output_position
        BY <1>10, <2>6, <2>8, <3>1, <3>2, <3>3 DEF MergeOrdered
      <3>4. CASE k = output_position + 1
        <4>1. \A j \in 1..output_position : input[output[j]] <= input[x]
          BY <1>3, <1>10 DEF MergeOrdered, x
        <4> QED BY <1>18, <2>7, <2>8, <3>1, <3>2, <3>4, <4>1
      <3> QED BY <2>8, <3>3, <3>4
    <2>10. UNCHANGED <<input, sorted_chunks>>
      BY <1>2
    <2>11. \A i \in 1..num_chunks : (ReadOf(i))' = chunk_positions'[i]
      BY <2>4
    <2> HIDE DEF ReadOf
    <2> QED BY <2>1, <2>3, <2>9, <2>10, <2>11 DEF MergeOrdered
  <1> QED BY <1>2, <1>8, <1>11, <1>13, <1>15, <1>17, <1>19 DEF SortInv

LEMMA ReturnInv == ASSUME SortInv, Return PROVE SortInv'
  <1>1. /\ pc = "merge" /\ pq = {} /\ pc' = "done"
        /\ UNCHANGED <<arguments, sorted_chunks, pq, chunk_positions, output, output_position>>
    BY DEF Return
  <1>2. UNCHANGED <<input, mem_size>>
    BY <1>1 DEF arguments
  <1>3. ArgumentsOK' /\ ChunksSorted'
    BY <1>1, <1>2 DEF SortInv, ArgumentsOK, ChunksSorted, num_values, Places, num_chunks,
                      values_per_chunk, ChunkSize, ChunkStart, ChunkPlaces, Ascending
  <1>4. MergeTypes'
    BY <1>1, <1>2 DEF SortInv, MergeTypes, num_values, Places, num_chunks, values_per_chunk,
                      ChunkSize, ChunkStart
  <1>5. QueueExact' /\ WrittenExact'
    BY <1>1, <1>2 DEF SortInv, QueueExact, WrittenExact, Out, Element, num_values, Places,
                      num_chunks, values_per_chunk, ChunkSize, ChunkStart
  <1>6. MergeOrdered'
    BY <1>1, <1>2 DEF SortInv, MergeOrdered, ReadOf
  <1> QED BY <1>1, <1>3, <1>4, <1>5, <1>6 DEF SortInv

LEMMA SortNextInv == ASSUME SortInv, [SortNext]_vars PROVE SortInv'
  <1>1. CASE UNCHANGED vars
    <2>1. UNCHANGED <<input, mem_size, sorted_chunks, pq, chunk_positions, output, output_position, pc>>
      BY <1>1 DEF vars
    <2>2. UNCHANGED <<num_values, Places, values_per_chunk, num_chunks, Out>>
      BY <2>1 DEF num_values, Places, values_per_chunk, num_chunks, Out
    <2>3. ArgumentsOK' = ArgumentsOK /\ Splitting' = Splitting
      BY <2>1, <2>2 DEF ArgumentsOK, Splitting
    <2>4. ChunksSorted' = ChunksSorted
      BY <2>1, <2>2 DEF ChunksSorted, ChunkSize, ChunkStart, ChunkPlaces, Ascending
    <2>5. MergeTypes' = MergeTypes
      BY <2>1, <2>2 DEF MergeTypes, ChunkSize, ChunkStart
    <2>6. QueueExact' = QueueExact /\ WrittenExact' = WrittenExact
      BY <2>1, <2>2 DEF QueueExact, WrittenExact, Element, ChunkSize, ChunkStart
    <2>7. MergeOrdered' = MergeOrdered
      BY <2>1 DEF MergeOrdered, ReadOf
    <2> QED BY <2>1, <2>3, <2>4, <2>5, <2>6, <2>7 DEF SortInv
  <1>2. CASE SortNext
    BY <1>2, SortChunkInv, StartMergeInv, MergeStepInv, ReturnInv DEF SortNext
  <1> QED BY <1>1, <1>2

\* SortInv is an invariant of external_sort.
THEOREM SortInvariant == SortSpec => []SortInv
  BY SortInitInv, SortNextInv, PTL DEF SortSpec

\* What is written is in order, and no value left is smaller.
THEOREM MergeIsOrdered == SortSpec => []MergeOrdered
  <1>1. SortInv => MergeOrdered
    <2> SUFFICES ASSUME SortInv, pc = "split" PROVE MergeOrdered
      BY DEF SortInv
    <2>1. output_position = 0 BY DEF SortInv, Splitting
    <2> QED BY <2>1 DEF MergeOrdered
  <1> QED BY <1>1, SortInvariant, PTL

\* No call reads or writes beyond the end of a file.
THEOREM FilesNotOverrun == SortSpec => []BlocksWithinFiles
  <1>1. SortInv => BlocksWithinFiles
    <2> SUFFICES ASSUME SortInv PROVE BlocksWithinFiles
      OBVIOUS
    <2>1. /\ num_values \in Nat /\ values_per_chunk \in Nat
          /\ \A i \in 1..num_chunks : ChunkStart(i) < num_values /\ ChunkSize(i) \in 1..values_per_chunk
      BY ChunkFacts DEF SortInv
    <2>2. ASSUME pc = "merge", NEW e \in pq
          PROVE  output_position < Len(output) /\ ChunkSize(e.chunk_id) = Len(sorted_chunks[e.chunk_id])
      <3>1. PICK i \in 1..num_chunks : e.chunk_id = i
        BY <2>2, QueuedValue
      <3>2. sorted_chunks[i] \in [1..ChunkSize(i) -> ChunkPlaces(i)]
        BY <2>2, <3>1, ChunkFile DEF SortInv, MergeTypes
      <3>3. output \in [1..num_values -> {0} \cup Places]
        BY <2>2 DEF SortInv, MergeTypes, Places
      <3>4. output_position < num_values
        BY <2>2, RoomInOutput
      <3>5. Len(output) = num_values
        BY <2>1, <3>3
      <3>6. Len(sorted_chunks[i]) = ChunkSize(i)
        BY <2>1, <3>2
      <3> QED BY <3>1, <3>4, <3>5, <3>6
    <2> QED BY <2>1, <2>2 DEF BlocksWithinFiles
  <1> QED BY <1>1, SortInvariant, PTL

\* Every variable keeps its type.
THEOREM SortTypeCorrect == SortSpec => []SortTypeOK
  <1>1. SortInv => SortTypeOK
    <2> SUFFICES ASSUME SortInv PROVE SortTypeOK
      OBVIOUS
    <2>1. /\ num_values \in Nat /\ values_per_chunk \in Nat
          /\ \A i \in 1..num_chunks : ChunkSize(i) \in 1..values_per_chunk
      BY ChunkFacts DEF SortInv
    <2>2. CASE pc = "split"
      <3>1. pq = {} /\ chunk_positions = <<>> /\ output \in Seq({0}) /\ output_position = 0
        BY <2>2 DEF SortInv, Splitting
      <3>2. output \in Seq({0} \cup Places)
        BY <3>1
      <3> QED BY <2>1, <2>2, <3>1, <3>2 DEF SortTypeOK, SortInv, ArgumentsOK, ChunksSorted
    <2>3. CASE pc # "split"
      <3>1. /\ chunk_positions \in [1..num_chunks -> Nat]
            /\ \A i \in 1..num_chunks : chunk_positions[i] \in 1..ChunkSize(i)
            /\ output \in [1..num_values -> {0} \cup Places]
            /\ output_position \in 0..num_values
        BY <2>3 DEF SortInv, MergeTypes, Places
      <3>2. chunk_positions \in [1..num_chunks -> 1..values_per_chunk]
        BY <2>1, <3>1
      <3>3. output \in Seq({0} \cup Places)
        BY <2>1, <3>1
      <3>4. pq \subseteq [value : Places, chunk_id : 1..num_chunks]
        <4> SUFFICES ASSUME NEW e \in pq
                     PROVE  e \in [value : Places, chunk_id : 1..num_chunks]
          OBVIOUS
        <4>1. PICK i \in 1..num_chunks : /\ e = Element(i, chunk_positions[i])
                                         /\ e.value \in Places /\ e.chunk_id = i
          BY <2>3, QueuedValue
        <4> QED BY <4>1 DEF Element
      <3> QED BY <2>3, <3>1, <3>2, <3>3, <3>4 DEF SortTypeOK, SortInv, ArgumentsOK, ChunksSorted
    <2> QED BY <2>2, <2>3
  <1> QED BY <1>1, SortInvariant, PTL

-----------------------------------------------------------------------------
(* The output is a sort of the input.                                      *)

\* With an empty queue every value has been written.
LEMMA AllWritten ==
    ASSUME SortInv, pc # "split", pq = {}
    PROVE  output_position = num_values /\ Out = Places
  <1> DEFINE written == [k \in 1..output_position |-> output[k]]
  <1>1. num_values \in Nat /\ output_position \in 0..num_values
    BY ChunkFacts DEF SortInv, MergeTypes
  <1>2. ASSUME NEW j \in Places
        PROVE  j \in Out
    <2>1. PICK i \in 1..num_chunks : j \in ChunkPlaces(i)
      BY ChunkFacts DEF SortInv
    <2>2. /\ i \in 1..Len(sorted_chunks) /\ ChunkSize(i) \in Nat
          /\ chunk_positions[i] \in 1..ChunkSize(i)
      BY ChunkFacts DEF SortInv, MergeTypes
    <2>3. chunk_positions[i] = ChunkSize(i)
      BY <2>2 DEF SortInv, QueueExact
    <2>4. PICK k \in 1..ChunkSize(i) : sorted_chunks[i][k] = j
      BY <2>1, <2>2, ChunkFile
    <2>5. k < chunk_positions[i] \/ k = chunk_positions[i]
      BY <2>2, <2>3
    <2> QED BY <2>4, <2>5 DEF SortInv, WrittenExact
  <1>3. Out = Places
    BY <1>2 DEF Out, SortInv, WrittenExact
  <1>4. written \in Surjection(1..output_position, Places)
    <2>1. written \in [1..output_position -> Places]
      BY DEF SortInv, WrittenExact
    <2> QED BY <1>2, <2>1 DEF Surjection, Out
  <1>5. /\ IsFiniteSet(1..output_position) /\ Cardinality(1..output_position) = output_position
        /\ Cardinality(Places) = num_values
    BY <1>1, FS_Interval DEF Places
  <1>6. Cardinality(Places) <= Cardinality(1..output_position)
    BY <1>4, <1>5, FS_Surjection
  <1> QED BY <1>1, <1>3, <1>5, <1>6

\* A permutation of the places takes each value as often as it occurs.
LEMMA SameOccurrences ==
    ASSUME NEW S, IsFiniteSet(S), NEW f, DOMAIN f = S, NEW g \in Bijection(S, S), NEW v
    PROVE  Task!Occurrences([k \in S |-> f[g[k]]], v) = Task!Occurrences(f, v)
  <1> DEFINE r == [k \in S |-> f[g[k]]]
             A == {k \in S : r[k] = v}
             B == {j \in S : f[j] = v}
             h == [k \in A |-> g[k]]
  <1>1. /\ \A k \in S : g[k] \in S
        /\ \A j, k \in S : g[j] = g[k] => j = k
        /\ \A j \in S : \E k \in S : g[k] = j
    BY DEF Bijection, Injection, Surjection, IsInjective
  <1>2. h \in Bijection(A, B)
    <2>1. h \in [A -> B]
      BY <1>1
    <2>2. \A j, k \in A : h[j] = h[k] => j = k
      BY <1>1
    <2>3. \A j \in B : \E k \in A : h[k] = j
      BY <1>1
    <2> QED BY <2>1, <2>2, <2>3 DEF Bijection, Injection, Surjection, IsInjective
  <1>3. IsFiniteSet(A)
    BY FS_Subset
  <1>4. Cardinality(B) = Cardinality(A)
    BY <1>2, <1>3, FS_Bijection DEF ExistsBijection
  <1>5. Task!Occurrences(r, v) = Cardinality(A) /\ Task!Occurrences(f, v) = Cardinality(B)
    <2>1. DOMAIN r = S
      OBVIOUS
    <2> HIDE DEF r
    <2>2. /\ Task!Occurrences(r, v) = Task!Cardinality(A)
          /\ Task!Occurrences(f, v) = Task!Cardinality(B)
      BY <2>1 DEF Task!Occurrences
    <2> HIDE DEF A, B
    <2>3. Task!Cardinality(A) = Cardinality(A) /\ Task!Cardinality(B) = Cardinality(B)
      BY DEF Task!Cardinality, Cardinality
    <2> QED BY <2>2, <2>3
  <1> QED BY <1>4, <1>5

LEMMA ReturnSorts == ASSUME SortInv, Return PROVE Task!Sort
  <1> DEFINE r == [k \in Places |-> input[output[k]]]
  <1>1. /\ pc = "merge" /\ pq = {} /\ pc' = "done" /\ output' = output
        /\ input' = input
    BY DEF Return, arguments
  <1>2. output_position = num_values /\ Out = Places
    BY <1>1, AllWritten
  <1>3. input \in [Places -> Value] /\ num_values \in Nat
    BY DEF SortInv, ArgumentsOK, num_values, Places
  <1>4. output \in Bijection(Places, Places)
    <2>1. output \in [Places -> Places]
      BY <1>1, <1>2 DEF SortInv, MergeTypes, WrittenExact, Places
    <2>2. \A j, k \in Places : output[j] = output[k] => j = k
      BY <1>1, <1>2 DEF SortInv, WrittenExact, Places
    <2>3. \A j \in Places : \E k \in Places : output[k] = j
      BY <1>2 DEF Out, Places
    <2> QED BY <2>1, <2>2, <2>3 DEF Bijection, Injection, Surjection, IsInjective
  <1>5. \A k \in Places : output[k] \in Places /\ output[k] # 0
    BY <1>3, <1>4 DEF Bijection, Injection, Places
  <1>6. Sorted = {} /\ Sorted' = {r}
    <2>1. DOMAIN output = Places
      BY <1>4 DEF Bijection, Injection
    <2> QED BY <1>1, <1>5, <2>1 DEF Sorted
  <1>7. \A j, k \in Places : j < k => r[j] <= r[k]
    <2> SUFFICES ASSUME NEW j \in Places, NEW k \in Places, j < k
                 PROVE  r[j] <= r[k]
      OBVIOUS
    <2>1. k \in 1..output_position /\ j \in 1..k - 1
      BY <1>2, <1>3 DEF Places
    <2> QED BY <1>1, <2>1 DEF SortInv, MergeOrdered
  <1>8. \A k \in Places : Task!Occurrences(r, input[k]) = Task!Occurrences(input, input[k])
    <2>1. IsFiniteSet(Places)
      BY <1>3, FS_Interval DEF Places
    <2> QED BY <1>3, <1>4, <2>1, SameOccurrences
  <1>9. Task!IsSortOf(r, input)
    BY <1>3, <1>7, <1>8 DEF Task!IsSortOf
  <1> QED BY <1>1, <1>6, <1>9 DEF Task!Sort

\* external_sort implements SortTask: whatever chunks, queue and equal values do, its
\* result is the sorted input, and nothing it does before it returns shows.
THEOREM SortImplementsTask == SortSpec => ImplementsSortTask
  <1>1. SortInit => Task!Init
    BY DEF SortInit, Task!Init, Sorted
  <1>2. ASSUME SortInv, [SortNext]_vars
        PROVE  [Task!Sort]_<<input, Sorted>>
    <2>1. CASE UNCHANGED vars
      BY <2>1 DEF vars, Sorted
    <2>2. CASE SortChunk \/ StartMerge \/ MergeStep
      <3>1. input' = input /\ pc # "done" /\ pc' # "done"
        BY <2>2 DEF SortChunk, StartMerge, MergeStep, arguments
      <3> QED BY <3>1 DEF Sorted
    <2>3. CASE Return
      BY <1>2, <2>3, ReturnSorts
    <2> QED BY <1>2, <2>1, <2>2, <2>3 DEF SortNext
  <1> QED BY <1>1, <1>2, SortInvariant, PTL DEF SortSpec, ImplementsSortTask, Task!Spec
-----------------------------------------------------------------------------
(* Every value is in exactly one place.                                    *)

\* A place of the input lies in one chunk, which is split once the counts say so.
LEMMA ChunkOf ==
    ASSUME SortInv, NEW j \in Places
    PROVE  \E i \in 1..num_chunks :
              /\ j \in ChunkPlaces(i)
              /\ \A l \in 1..num_chunks : j \in ChunkPlaces(l) => l = i
              /\ i <= Len(sorted_chunks) <=> j <= Len(sorted_chunks) * values_per_chunk
  <1> DEFINE v == values_per_chunk
             n == Len(sorted_chunks)
  <1>1. PICK i \in 1..num_chunks : j \in ChunkPlaces(i)
    BY ChunkFacts DEF SortInv
  <1>2. \A l \in 1..num_chunks : j \in ChunkPlaces(l) => l = i
    BY <1>1, ChunkFacts DEF SortInv
  <1>3. /\ v \in Nat /\ n \in Nat /\ num_chunks \in Nat
        /\ ChunkStart(i) \in Nat /\ ChunkSize(i) \in 1..v
    BY ChunkFacts DEF SortInv, ChunksSorted
  <1>4. ChunkStart(i) = (i - 1) * v
    BY DEF ChunkStart
  <1> HIDE DEF v, n
  <1>5. j \in Nat /\ (i - 1) * v < j /\ j <= (i - 1) * v + v
    BY <1>1, <1>3, <1>4 DEF ChunkPlaces
  <1>6. (i - 1) * v + v = i * v
    BY <1>3
  <1>7. CASE i <= n
    <2>1. i * v <= n * v
      BY <1>3, <1>7, MulMono
    <2> QED BY <1>1, <1>2, <1>3, <1>5, <1>6, <1>7, <2>1, MulMono DEF v, n
  <1>8. CASE n <= i - 1
    <2>1. n * v <= (i - 1) * v /\ n * v \in Nat
      BY <1>3, <1>8, MulMono
    <2>2. ~(j <= n * v) /\ ~(i <= n)
      BY <1>3, <1>4, <1>5, <1>8, <2>1
    <2> QED BY <1>1, <1>2, <2>2 DEF v, n
  <1> QED BY <1>3, <1>7, <1>8

\* What three sets count that hold, all together, one element.
LEMMA OneOfThree ==
    ASSUME NEW U, NEW Q, NEW W, NEW x,
           \/ U = {x} /\ Q = {} /\ W = {}
           \/ U = {} /\ Q = {x} /\ W = {}
           \/ U = {} /\ Q = {} /\ W = {x}
    PROVE  Cardinality(U) + Cardinality(Q) + Cardinality(W) = 1
  <1>1. Cardinality({}) = 0 /\ Cardinality({x}) = 1
    BY FS_EmptySet, FS_Singleton
  <1> QED BY <1>1

LEMMA Conserved == ASSUME SortInv PROVE ValuesConserved
  <1> SUFFICES ASSUME NEW j \in Places
               PROVE  LET unread == {u \in (1..Len(sorted_chunks)) \X Places :
                                       /\ u[2] \in ReadOf(u[1]) + 1..Len(sorted_chunks[u[1]])
                                       /\ sorted_chunks[u[1]][u[2]] = j}
                          queued == {e \in pq : e.value = j}
                          written == {k \in 1..output_position : output[k] = j}
                      IN  Cardinality(unread) + Cardinality(queued) + Cardinality(written) =
                             IF pc # "split" \/ j <= Len(sorted_chunks) * values_per_chunk
                             THEN 1 ELSE 0
    BY Zenon DEF ValuesConserved
  <1> DEFINE n == Len(sorted_chunks)
             InUnread(u) == /\ u[2] \in ReadOf(u[1]) + 1..Len(sorted_chunks[u[1]])
                            /\ sorted_chunks[u[1]][u[2]] = j
             U == {u \in (1..n) \X Places : InUnread(u)}
             Q == {e \in pq : e.value = j}
             W == {k \in 1..output_position : output[k] = j}
  <1>1. PICK i \in 1..num_chunks :
           /\ j \in ChunkPlaces(i)
           /\ \A l \in 1..num_chunks : j \in ChunkPlaces(l) => l = i
           /\ i <= n <=> j <= n * values_per_chunk
    BY ChunkOf
  <1>2. n \in Nat /\ num_chunks \in Nat /\ n <= num_chunks /\ num_values \in Nat
    BY ChunkFacts DEF SortInv, ChunksSorted
  <1>3. ASSUME NEW l \in 1..n
        PROVE  /\ ChunkSize(l) \in Nat /\ Len(sorted_chunks[l]) = ChunkSize(l)
               /\ ReadOf(l) \in 0..ChunkSize(l)
               /\ \A k \in 1..ChunkSize(l) : k \in Places
    <2>1. sorted_chunks[l] \in Seq(Places) /\ DOMAIN sorted_chunks[l] = 1..ChunkSize(l)
      BY ChunkFile DEF SortInv, ChunksSorted
    <2>2. l \in 1..num_chunks
      BY <1>2
    <2>3. /\ ChunkSize(l) \in Nat /\ ChunkStart(l) \in Nat /\ ChunkSize(l) >= 1
          /\ ChunkPlaces(l) \subseteq Places
      BY <2>2, ChunkFacts DEF SortInv
    <2>4. Len(sorted_chunks[l]) = ChunkSize(l)
      BY <2>1, <2>3
    <2>5. ReadOf(l) \in 0..ChunkSize(l)
      BY <2>2, <2>3 DEF ReadOf, SortInv, MergeTypes
    <2>6. ChunkStart(l) + ChunkSize(l) \in 1..num_values
      BY <2>3 DEF ChunkPlaces, Places
    <2>7. ChunkSize(l) <= num_values
      BY <1>2, <2>3, <2>6
    <2> QED BY <1>2, <2>3, <2>4, <2>5, <2>7 DEF Places
  <1>4. ASSUME NEW u \in U
        PROVE  u[1] = i /\ i <= n /\ u[2] \in 1..ChunkSize(i) /\ ReadOf(i) < u[2]
               /\ sorted_chunks[i][u[2]] = j
    <2>1. u[1] \in 1..n /\ InUnread(u)
      OBVIOUS
    <2>2. u[2] \in 1..ChunkSize(u[1]) /\ ReadOf(u[1]) < u[2]
      BY <1>3, <2>1
    <2>3. j \in ChunkPlaces(u[1]) /\ u[1] \in 1..num_chunks
      BY <2>1, <2>2, ChunkFile
    <2>4. u[1] = i
      BY <1>1, <2>3
    <2> QED BY <1>2, <2>1, <2>2, <2>4
  <1>5. CASE i <= n
    <2>1. i \in 1..n
      BY <1>2, <1>5
    <2>2. PICK k \in 1..ChunkSize(i) :
             /\ sorted_chunks[i][k] = j
             /\ \A l \in 1..ChunkSize(i) : sorted_chunks[i][l] = j => l = k
      <3>1. PICK k \in 1..ChunkSize(i) : sorted_chunks[i][k] = j
        BY <1>1, <2>1, ChunkFile
      <3>2. \A l \in 1..ChunkSize(i) : sorted_chunks[i][l] = j => l = k
        BY <2>1, <3>1, ChunkFile
      <3> QED BY <3>1, <3>2
    <2>3. U = IF ReadOf(i) < k THEN {<<i, k>>} ELSE {}
      <3>1. ASSUME NEW u \in U PROVE u = <<i, k>> /\ ReadOf(i) < k
        <4>1. u[1] = i /\ u[2] = k
          BY <1>4, <2>2
        <4>2. u \in (1..n) \X Places
          OBVIOUS
        <4>3. u = <<u[1], u[2]>>
          BY <4>2
        <4> QED BY <1>4, <4>1, <4>3
      <3>2. ASSUME ReadOf(i) < k PROVE <<i, k>> \in U
        <4>1. InUnread(<<i, k>>)
          BY <1>3, <2>1, <2>2, <3>2
        <4>2. <<i, k>> \in (1..n) \X Places
          BY <1>3, <2>1
        <4> QED BY <4>1, <4>2
      <3> HIDE DEF U
      <3> QED BY <3>1, <3>2
    <2>4. ASSUME NEW e \in Q, pc # "split"
          PROVE  e = Element(i, k) /\ k = chunk_positions[i]
      <3>1. PICK l \in 1..num_chunks :
               /\ e = Element(l, chunk_positions[l])
               /\ chunk_positions[l] \in 1..ChunkSize(l)
               /\ e.value = sorted_chunks[l][chunk_positions[l]]
        BY <2>4, QueuedValue
      <3>2. l \in 1..n
        BY <2>4 DEF SortInv, MergeTypes
      <3>3. j \in ChunkPlaces(l)
        <4>1. e.value = j
          OBVIOUS
        <4> HIDE DEF Q
        <4>2. sorted_chunks[l] \in [1..ChunkSize(l) -> ChunkPlaces(l)]
          BY <3>2, ChunkFile
        <4> QED BY <3>1, <4>1, <4>2
      <3>4. l = i
        BY <1>1, <3>3
      <3> QED BY <2>2, <3>1, <3>4
    <2>5. CASE pc = "split"
      <3>1. ReadOf(i) = 0 /\ pq = {} /\ output_position = 0
        BY <2>5 DEF ReadOf, SortInv, Splitting
      <3>2. U = {<<i, k>>} /\ Q = {} /\ W = {}
        BY <1>3, <2>1, <2>3, <3>1
      <3> HIDE DEF U, Q, W
      <3>3. Cardinality(U) + Cardinality(Q) + Cardinality(W) = 1
        BY <3>2, OneOfThree
      <3> QED BY <1>1, <1>5, <3>3 DEF U, Q, W
    <2>6. CASE pc # "split"
      <3> DEFINE c == chunk_positions[i]
      <3>1. /\ ReadOf(i) = c /\ c \in Nat
            /\ j \in Out <=> k < c \/ (k = c /\ Element(i, k) \notin pq)
        BY <2>2, <2>6 DEF ReadOf, SortInv, MergeTypes, WrittenExact
      <3>2. Element(i, k).value = j
        BY <2>2 DEF Element
      <3>3. k \in Nat
        BY <1>3, <2>1
      <3>4. ASSUME c < k
              PROVE Cardinality(U) + Cardinality(Q) + Cardinality(W) = 1
        <4>1. U = {<<i, k>>} /\ Q = {} /\ W = {}
          <5>1. U = {<<i, k>>} BY <2>3, <3>1, <3>4
          <5>2. Q = {} BY <2>4, <2>6, <3>1, <3>3, <3>4
          <5>3. W = {} BY <3>1, <3>3, <3>4 DEF Out
          <5> QED BY <5>1, <5>2, <5>3
        <4> HIDE DEF U, Q, W
        <4> QED BY <4>1, OneOfThree
      <3>5. ASSUME c = k /\ Element(i, k) \in pq
              PROVE Cardinality(U) + Cardinality(Q) + Cardinality(W) = 1
        <4>1. U = {} BY <2>3, <3>1, <3>3, <3>5
        <4>2. Q = {Element(i, k)} BY <2>4, <2>6, <3>2, <3>5
        <4>3. W = {} BY <3>1, <3>3, <3>5 DEF Out
        <4> HIDE DEF U, Q, W
        <4> QED BY <4>1, <4>2, <4>3, OneOfThree
      <3>6. ASSUME k < c \/ (k = c /\ Element(i, k) \notin pq)
              PROVE Cardinality(U) + Cardinality(Q) + Cardinality(W) = 1
        <4>1. U = {} BY <2>3, <3>1, <3>3, <3>6
        <4>2. Q = {} BY <2>4, <2>6, <3>1, <3>3, <3>6
        <4>3. PICK a \in 1..output_position : output[a] = j
          BY <3>1, <3>6 DEF Out
        <4>4. W = {a}
          BY <2>6, <4>3 DEF SortInv, WrittenExact
        <4> HIDE DEF U, Q, W
        <4> QED BY <4>1, <4>2, <4>4, OneOfThree
      <3>7. Cardinality(U) + Cardinality(Q) + Cardinality(W) = 1
        <4> HIDE DEF U, Q, W
        <4> QED BY <3>1, <3>3, <3>4, <3>5, <3>6
      <3> QED BY <2>6, <3>7
    <2> QED BY <2>5, <2>6
  <1>6. CASE ~(i <= n)
    <2>1. pc = "split"
      BY <1>2, <1>6 DEF SortInv, MergeTypes
    <2>2. U = {} /\ Q = {} /\ W = {}
      BY <1>4, <1>6, <2>1 DEF SortInv, Splitting
    <2> HIDE DEF U, Q, W
    <2>3. Cardinality(U) + Cardinality(Q) + Cardinality(W) = 0
      BY <2>2, FS_EmptySet
    <2> QED BY <1>1, <1>6, <2>1, <2>3 DEF U, Q, W
  <1> QED BY <1>5, <1>6

\* No value is lost and none is taken twice: each is unread, queued or written, whatever
\* the number of values and the size of a chunk.
THEOREM NoValueIsLost == SortSpec => []ValuesConserved
  <1>1. SortInv => ValuesConserved BY Conserved
  <1> QED BY <1>1, SortInvariant, PTL
=============================================================================
