---------------------------- MODULE LockTable ----------------------------
(***************************************************************************)
(* What a page lock manager promises, with nothing of how it does it: a    *)
(* table of the mode in which each transaction holds each page.  A lock is *)
(* given, or strengthened, in one step and only while it is compatible     *)
(* with what every other transaction holds; it is never weakened, only     *)
(* given back.                                                             *)
(*   lab3_Concurreny_Control/README.md:14-18 is the promise; the module    *)
(* LockManager is the code that is shown to keep it.                       *)
(***************************************************************************)
CONSTANTS Txn, Page

VARIABLE holds

Mode == {"shared", "exclusive"}

Compatible(a, b) == a = "none" \/ b = "none" \/ (a = "shared" /\ b = "shared")

Init == holds = [p \in Page |-> [t \in Txn |-> "none"]]

\* t obtains mode m on p, which it does not hold or holds in a weaker mode.
Obtain(t, p, m) ==
    /\ holds[p][t] # m
    /\ holds[p][t] # "exclusive"
    /\ \A u \in Txn \ {t} : Compatible(m, holds[p][u])
    /\ holds' = [holds EXCEPT ![p][t] = m]

GiveBack(t, p) ==
    /\ holds[p][t] # "none"
    /\ holds' = [holds EXCEPT ![p][t] = "none"]

Next == \E t \in Txn, p \in Page : GiveBack(t, p) \/ \E m \in Mode : Obtain(t, p, m)

Spec == Init /\ [][Next]_holds
=============================================================================
