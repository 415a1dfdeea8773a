------------------------------ MODULE SortTask ------------------------------
(***************************************************************************)
(* What external_sort promises, with no chunks, files or queue: in one     *)
(* step the output holds "values from the input file in ascending order"   *)
(* (lab1_External_Sort/README.md:14), each as often as the input does.     *)
(***************************************************************************)
EXTENDS Naturals, FiniteSets

VARIABLES input,   \* the values to sort, as a function on 1..n
          result   \* the empty set, and then the set of the one result

Occurrences(f, v) == Cardinality({k \in DOMAIN f : f[k] = v})

IsSortOf(r, f) ==
    /\ DOMAIN r = DOMAIN f
    /\ \A j, k \in DOMAIN r : j < k => r[j] <= r[k]
    /\ \A k \in DOMAIN f : Occurrences(r, f[k]) = Occurrences(f, f[k])

Init == result = {}

Sort ==
    /\ result = {}
    /\ \E r \in result' : result' = {r} /\ IsSortOf(r, input)
    /\ UNCHANGED input

Spec == Init /\ [][Sort]_<<input, result>>
=============================================================================
