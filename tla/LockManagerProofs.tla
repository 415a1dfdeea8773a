------------------------- MODULE LockManagerProofs -------------------------
(***************************************************************************)
(* What LockManager guarantees for any set of transactions and pages.      *)
(* LockInv is the inductive invariant; the recorded locks are compatible   *)
(* because a decision taken in one critical section stays right in the     *)
(* next: only the thread under pool_mutex_ adds entries (Serial), and a    *)
(* scan of txn_locks_ sees every recorded lock (GrantedTracked).           *)
(***************************************************************************)
EXTENDS LockManager, FiniteSetTheorems, TLAPS

\* At most one thread is in acquire_lock.
Serial == \A t, u \in Txn : (t # u /\ pc[t] \in Acquire) => pc[u] \notin Acquire

\* What the entry of a thread in acquire_lock can be at each place.
EntryAtPc ==
    \A t \in Txn :
        LET mine == granted[req[t].page][t]
        IN  /\ pc[t] \in {"scan", "deadlock", "grant"} =>
                    mine = "none" \/ (mine = "shared" /\ req[t].mode = "exclusive")
            /\ pc[t] = "wait" => mine = "none"
            /\ pc[t] = "upgrade" => mine = "shared"
            /\ pc[t] \in {"record", "granted"} => mine # "none"

\* Without a conflict, the lock asked for can be granted and stays grantable.
Decided ==
    \A t \in Txn :
        /\ pc[t] = "deadlock" => req[t].conflict
        /\ (pc[t] = "grant" /\ ~req[t].conflict) => CanGrant(req[t].page, t, req[t].mode)

\* A thread in release_all_locks has been told of no lock, and has erased the entry
\* it is about to untrack.
ReleaseAtPc ==
    \A t \in Txn :
        /\ pc[t] \in {"release", "untrack"} => \A p \in Page : held[t][p] = "none"
        /\ pc[t] = "untrack" =>
              \A p \in to_release[t] :
                  (\A q \in to_release[t] : p <= q) => granted[p][t] = "none"

LockInv ==
    /\ LockTypeOK
    /\ Serial
    /\ EntryAtPc
    /\ Decided
    /\ ReleaseAtPc
    /\ GrantedCompatible
    /\ GrantedTracked
    /\ HeldRecorded
    /\ OnlyConflictsWait

USE DEF Mode, Modes, Request, Acquire, Pcs, Goto, OthersNone, OthersNotExclusive

LEMMA NoRequestType == NoRequest \in Request
  <1>1. (CHOOSE p \in Page : TRUE) \in Page
    BY PageAssumption
  <1> QED BY <1>1 DEF NoRequest

\* Changing the locals of a request leaves a request.
LEMMA RequestType ==
    ASSUME NEW r \in Request, NEW H \in SUBSET Txn, NEW c \in BOOLEAN, NEW n \in Nat
    PROVE  /\ [r EXCEPT !.holders = H] \in Request
           /\ [r EXCEPT !.holders = H, !.conflict = c] \in Request
           /\ [r EXCEPT !.ref = n] \in Request
  OBVIOUS

LEMMA HoldersType == ASSUME NEW p \in Page PROVE Cardinality(Holders(p)) \in Nat
  <1>1. IsFiniteSet(Holders(p))
    BY TxnAssumption, FS_Subset DEF Holders
  <1> QED BY <1>1, FS_CardinalityType

\* Without an edge there is one edge less, and none is one at most.
LEMMA EdgesErased ==
    /\ {} \in Edges
    /\ \A E \in Edges : \A t : E \ {t} \in Edges
  <1>1. {} \in Edges BY DEF Edges
  <1>2. ASSUME NEW E \in Edges, NEW t PROVE E \ {t} \in Edges
    <2>1. CASE E = {}
      <3>1. E \ {t} = {} BY <2>1
      <3> QED BY <3>1, <1>1
    <2>2. CASE \E u \in Txn : E = {u}
      <3>1. E \ {t} = {} \/ E \ {t} = E BY <2>2
      <3> QED BY <3>1, <1>1, <1>2
    <2> QED BY <1>2, <2>1, <2>2 DEF Edges
  <1> QED BY <1>1, <1>2

\* The locks start consistent.
LEMMA LockInitInv == LockInit => LockInv
  <1> SUFFICES ASSUME LockInit PROVE LockInv
    OBVIOUS
  <1>1. LockTypeOK
    BY NoRequestType, EdgesErased DEF LockInit, LockTypeOK
  <1>2. Serial /\ EntryAtPc /\ Decided /\ ReleaseAtPc
    BY DEF LockInit, Serial, EntryAtPc, Decided, ReleaseAtPc
  <1>3. GrantedCompatible /\ GrantedTracked /\ HeldRecorded /\ OnlyConflictsWait
    BY DEF LockInit, GrantedCompatible, GrantedTracked, HeldRecorded, OnlyConflictsWait
  <1> QED BY <1>1, <1>2, <1>3 DEF LockInv
-----------------------------------------------------------------------------
(* Every step preserves LockInv.                                           *)

\* A call of acquire_lock: nobody else is in one.
LEMMA AcquireLockInv ==
    ASSUME NEW t \in Txn, NEW p \in Page, NEW m \in Mode, LockInv, AcquireLock(t, p, m)
    PROVE  LockInv'
  <1> USE DEF LockInv, AcquireLock
  <1>1. LockTypeOK'
    BY DEF LockTypeOK
  <1>2. Serial'
    BY DEF Serial, LockTypeOK
  <1>3. EntryAtPc'
    BY DEF EntryAtPc, LockTypeOK, OnlyHolder
  <1>4. Decided'
    BY DEF Decided, LockTypeOK, OnlyHolder, CanGrant
  <1>5. ReleaseAtPc'
    BY DEF ReleaseAtPc, LockTypeOK
  <1>6. GrantedCompatible'
    BY DEF GrantedCompatible, LockTypeOK
  <1>7. GrantedTracked'
    BY DEF GrantedTracked, LockTypeOK
  <1>8. HeldRecorded'
    BY DEF HeldRecorded, LockTypeOK
  <1>9. OnlyConflictsWait'
    BY DEF OnlyConflictsWait, LockTypeOK
  <1> QED BY <1>1, <1>2, <1>3, <1>4, <1>5, <1>6, <1>7, <1>8, <1>9

\* The scan sees every recorded lock of the others, for they are tracked.
LEMMA ScanInv ==
    ASSUME NEW t \in Txn, LockInv, Scan(t)
    PROVE  LockInv'
  <1> USE DEF LockInv, Scan
  <1>1. LockTypeOK'
    <2>1. PICK H \in SUBSET Txn, c \in BOOLEAN :
             req' = [req EXCEPT ![t].holders = H, ![t].conflict = c]
      <3>1. {u \in Txn \ {t} : req[t].page \in txn_locks[u]} \in SUBSET Txn
        OBVIOUS
      <3>2. (\E u \in {v \in Txn \ {t} : req[t].page \in txn_locks[v]} :
               req[t].mode = "exclusive" \/ granted[req[t].page][u] = "exclusive") \in BOOLEAN
        OBVIOUS
      <3> QED BY <3>1, <3>2, Zenon
    <2>2. req' \in [Txn -> Request]
      <3>1. req \in [Txn -> Request] /\ req[t] \in Request BY DEF LockTypeOK
      <3>2. [req[t] EXCEPT !.holders = H, !.conflict = c] \in Request BY <3>1, RequestType
      <3> HIDE DEF Request
      <3> QED BY <2>1, <3>1, <3>2
    <2> QED BY <2>2 DEF LockTypeOK
  <1>2. Serial'
    BY DEF Serial, LockTypeOK
  <1>3. EntryAtPc'
    BY DEF EntryAtPc, LockTypeOK
  <1>4. Decided'
    BY DEF Decided, LockTypeOK, CanGrant, Serial, GrantedTracked
  <1>5. ReleaseAtPc'
    BY DEF ReleaseAtPc, LockTypeOK
  <1>6. GrantedCompatible'
    BY DEF GrantedCompatible, LockTypeOK
  <1>7. GrantedTracked'
    BY DEF GrantedTracked, LockTypeOK
  <1>8. HeldRecorded'
    BY DEF HeldRecorded, LockTypeOK
  <1>9. OnlyConflictsWait'
    BY DEF OnlyConflictsWait, LockTypeOK
  <1> QED BY <1>1, <1>2, <1>3, <1>4, <1>5, <1>6, <1>7, <1>8, <1>9

\* A deadlock check changes only the graph and the thread's own locals.
LEMMA CheckDeadlockInv ==
    ASSUME NEW t \in Txn, LockInv, CheckDeadlock(t)
    PROVE  LockInv'
  <1>1. UNCHANGED <<granted, slot, txn_locks, to_release, held>> /\ pc[t] = "deadlock"
    BY DEF CheckDeadlock
  <1>2. waiting_graph' \in [Txn -> Edges]
    <2>1. PICK h \in req[t].holders :
             LET graph == [waiting_graph EXCEPT ![t] = {h}]
             IN  \/ waiting_graph' = [u \in Txn |-> IF u \in Reached(graph, t) THEN {}
                                                    ELSE graph[u] \ {t}]
                 \/ waiting_graph' = graph
      BY Zenon DEF CheckDeadlock
    <2>2. h \in Txn /\ waiting_graph \in [Txn -> Edges]
      BY DEF LockInv, LockTypeOK
    <2> DEFINE graph == [waiting_graph EXCEPT ![t] = {h}]
               on == Reached(graph, t)
    <2>3. graph \in [Txn -> Edges]
      <3>1. {h} \in Edges BY <2>2 DEF Edges
      <3> QED BY <2>2, <3>1
    <2>4. [u \in Txn |-> IF u \in on THEN {} ELSE graph[u] \ {t}] \in [Txn -> Edges]
      <3>1. \A u \in Txn : (IF u \in on THEN {} ELSE graph[u] \ {t}) \in Edges
        <4> HIDE DEF graph, on
        <4> QED BY <2>3, EdgesErased
      <3> HIDE DEF graph, on
      <3> QED BY <3>1
    <2> QED BY <2>1, <2>3, <2>4, Zenon
  <1>3. \/ /\ pc' = [pc EXCEPT ![t] = "thrown"]
           /\ req' = [req EXCEPT ![t] = NoRequest]
        \/ \E rest \in SUBSET Txn : \E place \in {"grant", "deadlock"} :
              /\ pc' = [pc EXCEPT ![t] = place]
              /\ req' = [req EXCEPT ![t].holders = rest]
    <2>1. req[t].holders \in SUBSET Txn
      BY DEF LockInv, LockTypeOK
    <2>2. PICK h \in req[t].holders :
             \/ /\ pc' = [pc EXCEPT ![t] = "thrown"]
                /\ req' = [req EXCEPT ![t] = NoRequest]
             \/ /\ pc' = [pc EXCEPT ![t] = IF req[t].holders \ {h} = {} THEN "grant"
                                           ELSE "deadlock"]
                /\ req' = [req EXCEPT ![t].holders = req[t].holders \ {h}]
      BY Zenon DEF CheckDeadlock
    <2> QED BY <2>1, <2>2
  <1>4. LockTypeOK'
    <2>1. pc' \in [Txn -> Pcs]
      BY <1>3 DEF LockInv, LockTypeOK
    <2>2. req' \in [Txn -> Request]
      <3>1. req \in [Txn -> Request] /\ req[t] \in Request BY DEF LockInv, LockTypeOK
      <3>2. \A H \in SUBSET Txn : [req[t] EXCEPT !.holders = H] \in Request
        BY <3>1, RequestType
      <3> HIDE DEF Request
      <3> QED BY <1>3, <3>1, <3>2, NoRequestType
    <2> QED BY <1>1, <1>2, <2>1, <2>2 DEF LockInv, LockTypeOK
  <1>5. CASE pc' = [pc EXCEPT ![t] = "thrown"] /\ req' = [req EXCEPT ![t] = NoRequest]
    <2> USE <1>1, <1>5 DEF LockInv, LockTypeOK
    <2>1. Serial' /\ OnlyConflictsWait' BY DEF Serial, OnlyConflictsWait
    <2>2. EntryAtPc' BY DEF EntryAtPc
    <2>3. Decided' BY DEF Decided, CanGrant
    <2>4. ReleaseAtPc' BY DEF ReleaseAtPc
    <2>5. GrantedCompatible' /\ GrantedTracked' /\ HeldRecorded'
      BY DEF GrantedCompatible, GrantedTracked, HeldRecorded
    <2> QED BY <1>4, <2>1, <2>2, <2>3, <2>4, <2>5 DEF LockInv
  <1>6. ASSUME NEW rest \in SUBSET Txn, NEW place \in {"grant", "deadlock"},
               pc' = [pc EXCEPT ![t] = place], req' = [req EXCEPT ![t].holders = rest]
        PROVE  LockInv'
    <2> USE <1>1, <1>6 DEF LockInv, LockTypeOK
    <2>1. Serial' /\ OnlyConflictsWait' BY DEF Serial, OnlyConflictsWait
    <2>2. EntryAtPc' BY DEF EntryAtPc
    <2>3. Decided' BY DEF Decided, CanGrant
    <2>4. ReleaseAtPc' BY DEF ReleaseAtPc
    <2>5. GrantedCompatible' /\ HeldRecorded' BY DEF GrantedCompatible, HeldRecorded
    <2>6. GrantedTracked' BY DEF GrantedTracked
    <2> QED BY <1>4, <2>1, <2>2, <2>3, <2>4, <2>5, <2>6 DEF LockInv
  <1> QED BY <1>3, <1>5, <1>6

\* grant_lock adds or strengthens an entry only when it is compatible.
LEMMA GrantLockInv ==
    ASSUME NEW t \in Txn, LockInv, GrantLock(t)
    PROVE  LockInv'
  <1> DEFINE p == req[t].page
             m == req[t].mode
  <1>1. /\ UNCHANGED <<txn_locks, waiting_graph, to_release, held>>
        /\ pc[t] = "grant"
        /\ p \in Page /\ m \in Mode
    BY DEF GrantLock, LockInv, LockTypeOK
  <1>2. granted[p][t] = "none" \/ (granted[p][t] = "shared" /\ m = "exclusive")
    BY <1>1 DEF LockInv, EntryAtPc
  <1>3. CASE /\ CanGrant(p, t, m)
             /\ granted' = [granted EXCEPT ![p][t] = m]
             /\ slot' \in [Page -> [Txn -> Nat]]
             /\ pc' = [pc EXCEPT ![t] = "record"]
             /\ UNCHANGED req
    <2> HIDE DEF p, m
    <2> USE <1>1, <1>3 DEF LockInv, LockTypeOK
    <2>1. LockTypeOK' OBVIOUS
    <2>2. Serial' /\ OnlyConflictsWait' BY DEF Serial, OnlyConflictsWait
    <2>3. EntryAtPc' BY DEF EntryAtPc, Serial, p
    <2>4. Decided' BY DEF Decided, Serial
    <2>5. ReleaseAtPc' BY DEF ReleaseAtPc
    <2>6. GrantedCompatible' BY DEF GrantedCompatible, CanGrant
    <2>7. GrantedTracked' BY DEF GrantedTracked, p
    <2>8. HeldRecorded' BY DEF HeldRecorded
    <2> QED BY <2>1, <2>2, <2>3, <2>4, <2>5, <2>6, <2>7, <2>8 DEF LockInv
  <1>4. CASE /\ ~CanGrant(p, t, m)
             /\ UNCHANGED <<granted, slot>>
             /\ granted[p][t] = "shared"
             /\ pc' = [pc EXCEPT ![t] = "upgrade"]
             /\ req' = [req EXCEPT ![t].ref = slot[p][t]]
    <2> USE <1>1, <1>4 DEF LockInv, LockTypeOK
    <2>1. LockTypeOK'
      <3>1. slot[p][t] \in Nat /\ req[t] \in Request /\ req \in [Txn -> Request] OBVIOUS
      <3>2. [req[t] EXCEPT !.ref = slot[p][t]] \in Request BY <3>1, RequestType
      <3>3. req' \in [Txn -> Request]
        <4> HIDE DEF Request
        <4> QED BY <3>1, <3>2
      <3> QED BY <3>3
    <2>2. Serial' BY DEF Serial
    <2>3. \A u \in Txn : /\ req'[u].page = req[u].page
                         /\ req'[u].mode = req[u].mode
                         /\ req'[u].conflict = req[u].conflict
      OBVIOUS
    <2>4. OnlyConflictsWait' BY <2>3 DEF OnlyConflictsWait, Decided
    <2>5. EntryAtPc' BY <2>3 DEF EntryAtPc
    <2>6. Decided' BY <2>3 DEF Decided, CanGrant
    <2>7. ReleaseAtPc' BY DEF ReleaseAtPc
    <2>8. GrantedCompatible' /\ HeldRecorded' BY DEF GrantedCompatible, HeldRecorded
    <2>9. GrantedTracked' BY <2>3 DEF GrantedTracked
    <2> QED BY <2>1, <2>2, <2>4, <2>5, <2>6, <2>7, <2>8, <2>9 DEF LockInv
  <1>8. CASE /\ ~CanGrant(p, t, m)
             /\ UNCHANGED <<granted, slot>>
             /\ granted[p][t] = "none"
             /\ pc' = [pc EXCEPT ![t] = "wait"]
             /\ UNCHANGED req
    <2> USE <1>1, <1>8 DEF LockInv, LockTypeOK
    <2>1. LockTypeOK'
      <3>1. slot[p][t] \in Nat OBVIOUS
      <3> QED BY <3>1
    <2>2. Serial' BY DEF Serial
    <2>3. \A u \in Txn : /\ req'[u].page = req[u].page
                         /\ req'[u].mode = req[u].mode
                         /\ req'[u].conflict = req[u].conflict
      OBVIOUS
    <2>4. OnlyConflictsWait' BY <2>3 DEF OnlyConflictsWait, Decided
    <2>5. EntryAtPc' BY <2>3 DEF EntryAtPc
    <2>6. Decided' BY <2>3 DEF Decided, CanGrant
    <2>7. ReleaseAtPc' BY DEF ReleaseAtPc
    <2>8. GrantedCompatible' /\ HeldRecorded' BY DEF GrantedCompatible, HeldRecorded
    <2>9. GrantedTracked' BY <2>3 DEF GrantedTracked
    <2> QED BY <2>1, <2>2, <2>4, <2>5, <2>6, <2>7, <2>8, <2>9 DEF LockInv
  <1>5. slot \in [Page -> [Txn -> Nat]] /\ Cardinality(Holders(p)) + 1 \in Nat
    BY <1>1, HoldersType DEF LockInv, LockTypeOK
  <1>6. CASE granted[p][t] = "shared"
    <2>1. m = "exclusive" BY <1>2, <1>6
    <2>2. CASE OthersNone(p, t)
      <3>1. CanGrant(p, t, m) BY <2>2 DEF CanGrant
      <3>2. /\ granted' = [granted EXCEPT ![p][t] = m]
            /\ pc' = [pc EXCEPT ![t] = "record"]
            /\ UNCHANGED <<slot, req>>
        BY <1>6, <2>2 DEF GrantLock
      <3> QED BY <1>3, <1>5, <3>1, <3>2
    <2>3. CASE ~OthersNone(p, t)
      <3>1. ~CanGrant(p, t, m) BY <2>1, <2>3 DEF CanGrant
      <3>2. /\ pc' = [pc EXCEPT ![t] = "upgrade"]
            /\ req' = [req EXCEPT ![t].ref = slot[p][t]]
            /\ UNCHANGED <<granted, slot>>
        BY <1>6, <2>3 DEF GrantLock
      <3> QED BY <1>4, <1>6, <3>1, <3>2
    <2> QED BY <2>2, <2>3
  <1>7. CASE granted[p][t] = "none"
    <2>1. CASE CanGrant(p, t, m)
      <3>1. /\ granted' = [granted EXCEPT ![p][t] = m]
            /\ slot' = [slot EXCEPT ![p][t] = Cardinality(Holders(p)) + 1]
            /\ pc' = [pc EXCEPT ![t] = "record"]
            /\ UNCHANGED req
        BY <1>7, <2>1 DEF GrantLock, AddEntry
      <3> QED BY <1>1, <1>3, <1>5, <2>1, <3>1
    <2>2. CASE ~CanGrant(p, t, m)
      BY <1>8, <1>7, <2>2 DEF GrantLock
    <2> QED BY <2>1, <2>2
  <1> QED BY <1>2, <1>6, <1>7

\* So does a waiter whose predicate holds.
LEMMA WakeGrantInv ==
    ASSUME NEW t \in Txn, LockInv, WakeGrant(t)
    PROVE  LockInv'
  <1> USE DEF LockInv, WakeGrant
  <1>1. LockTypeOK'
    BY HoldersType DEF LockTypeOK, AddEntry
  <1>2. Serial'
    BY DEF Serial, LockTypeOK
  <1>3. EntryAtPc'
    BY DEF EntryAtPc, LockTypeOK, AddEntry, CanGrant, Serial
  <1>4. Decided'
    BY DEF Decided, LockTypeOK, AddEntry, CanGrant, Serial
  <1>5. ReleaseAtPc'
    BY DEF ReleaseAtPc, LockTypeOK, AddEntry, CanGrant
  <1>6. GrantedCompatible'
    BY DEF GrantedCompatible, LockTypeOK, AddEntry, CanGrant
  <1>7. GrantedTracked'
    BY DEF GrantedTracked, LockTypeOK, AddEntry
  <1>8. HeldRecorded'
    BY DEF HeldRecorded, LockTypeOK, AddEntry
  <1>9. OnlyConflictsWait'
    BY DEF OnlyConflictsWait, LockTypeOK
  <1> QED BY <1>1, <1>2, <1>3, <1>4, <1>5, <1>6, <1>7, <1>8, <1>9

\* A woken upgrade is the only holder, wherever its write lands.
LEMMA WakeUpgradeInv ==
    ASSUME NEW t \in Txn, LockInv, WakeUpgrade(t)
    PROVE  LockInv'
  <1> USE DEF LockInv, WakeUpgrade
  <1>1. LockTypeOK'
    BY DEF LockTypeOK, UpgradedMode
  <1>2. Serial'
    BY DEF Serial, LockTypeOK
  <1>3. EntryAtPc'
    BY DEF EntryAtPc, LockTypeOK, UpgradedMode, OnlyHolder, Serial
  <1>4. Decided'
    BY DEF Decided, LockTypeOK, UpgradedMode, CanGrant, Serial
  <1>5. ReleaseAtPc'
    BY DEF ReleaseAtPc, LockTypeOK, UpgradedMode
  <1>6. GrantedCompatible'
    BY DEF GrantedCompatible, LockTypeOK, UpgradedMode, OnlyHolder
  <1>7. GrantedTracked'
    BY DEF GrantedTracked, LockTypeOK, UpgradedMode, OnlyHolder
  <1>8. HeldRecorded'
    BY DEF HeldRecorded, LockTypeOK, UpgradedMode, OnlyHolder
  <1>9. OnlyConflictsWait'
    BY DEF OnlyConflictsWait, LockTypeOK
  <1> QED BY <1>1, <1>2, <1>3, <1>4, <1>5, <1>6, <1>7, <1>8, <1>9

\* A timeout only makes the thread leave.
LEMMA TimeoutInv ==
    ASSUME NEW t \in Txn, LockInv, Timeout(t)
    PROVE  LockInv'
  <1> USE DEF LockInv, Timeout
  <1>1. LockTypeOK'
    BY NoRequestType DEF LockTypeOK
  <1>2. Serial'
    BY DEF Serial, LockTypeOK
  <1>3. EntryAtPc'
    BY DEF EntryAtPc, LockTypeOK
  <1>4. Decided'
    BY DEF Decided, LockTypeOK, CanGrant
  <1>5. ReleaseAtPc'
    BY DEF ReleaseAtPc, LockTypeOK
  <1>6. GrantedCompatible'
    BY DEF GrantedCompatible, LockTypeOK
  <1>7. GrantedTracked'
    BY DEF GrantedTracked, LockTypeOK
  <1>8. HeldRecorded'
    BY DEF HeldRecorded, LockTypeOK
  <1>9. OnlyConflictsWait'
    BY DEF OnlyConflictsWait, LockTypeOK
  <1> QED BY <1>1, <1>2, <1>3, <1>4, <1>5, <1>6, <1>7, <1>8, <1>9

\* Tracking a lock changes no entry.
LEMMA RecordLockInv ==
    ASSUME NEW t \in Txn, LockInv, RecordLock(t)
    PROVE  LockInv'
  <1> USE DEF LockInv, RecordLock
  <1>1. LockTypeOK'
    BY EdgesErased DEF LockTypeOK
  <1>2. Serial'
    BY DEF Serial, LockTypeOK
  <1>3. EntryAtPc'
    BY DEF EntryAtPc, LockTypeOK
  <1>4. Decided'
    BY DEF Decided, LockTypeOK, CanGrant
  <1>5. ReleaseAtPc'
    BY DEF ReleaseAtPc, LockTypeOK
  <1>6. GrantedCompatible'
    BY DEF GrantedCompatible, LockTypeOK
  <1>7. GrantedTracked'
    BY DEF GrantedTracked, LockTypeOK
  <1>8. HeldRecorded'
    BY DEF HeldRecorded, LockTypeOK
  <1>9. OnlyConflictsWait'
    BY DEF OnlyConflictsWait, LockTypeOK
  <1> QED BY <1>1, <1>2, <1>3, <1>4, <1>5, <1>6, <1>7, <1>8, <1>9

\* The caller is told of a lock that has an entry.
LEMMA AcquireReturnsInv ==
    ASSUME NEW t \in Txn, LockInv, AcquireReturns(t)
    PROVE  LockInv'
  <1> USE DEF LockInv, AcquireReturns
  <1>1. LockTypeOK'
    BY NoRequestType DEF LockTypeOK
  <1>2. Serial'
    BY DEF Serial, LockTypeOK
  <1>3. EntryAtPc'
    BY DEF EntryAtPc, LockTypeOK
  <1>4. Decided'
    BY DEF Decided, LockTypeOK, CanGrant
  <1>5. ReleaseAtPc'
    BY DEF ReleaseAtPc, LockTypeOK
  <1>6. GrantedCompatible'
    BY DEF GrantedCompatible, LockTypeOK
  <1>7. GrantedTracked'
    BY DEF GrantedTracked, LockTypeOK
  <1>8. HeldRecorded'
    BY DEF HeldRecorded, LockTypeOK, EntryAtPc
  <1>9. OnlyConflictsWait'
    BY DEF OnlyConflictsWait, LockTypeOK
  <1> QED BY <1>1, <1>2, <1>3, <1>4, <1>5, <1>6, <1>7, <1>8, <1>9

\* The start of a release: the caller no longer relies on any lock.
LEMMA ReleaseAllLocksInv ==
    ASSUME NEW t \in Txn, LockInv, ReleaseAllLocks(t)
    PROVE  LockInv'
  <1> USE DEF LockInv, ReleaseAllLocks
  <1>1. LockTypeOK'
    BY DEF LockTypeOK
  <1>2. Serial'
    BY DEF Serial, LockTypeOK
  <1>3. EntryAtPc'
    BY DEF EntryAtPc, LockTypeOK
  <1>4. Decided'
    BY DEF Decided, LockTypeOK, CanGrant
  <1>5. ReleaseAtPc'
    BY DEF ReleaseAtPc, LockTypeOK
  <1>6. GrantedCompatible'
    BY DEF GrantedCompatible, LockTypeOK
  <1>7. GrantedTracked'
    BY DEF GrantedTracked, LockTypeOK
  <1>8. HeldRecorded'
    BY DEF HeldRecorded, LockTypeOK
  <1>9. OnlyConflictsWait'
    BY DEF OnlyConflictsWait, LockTypeOK
  <1> QED BY <1>1, <1>2, <1>3, <1>4, <1>5, <1>6, <1>7, <1>8, <1>9

\* Erasing an entry can only make other locks grantable.
LEMMA ReleaseFrameInv ==
    ASSUME NEW t \in Txn, LockInv, ReleaseFrame(t)
    PROVE  LockInv'
  <1> USE DEF LockInv, ReleaseFrame
  <1>1. LockTypeOK'
    BY DEF LockTypeOK, EraseEntry
  <1>2. Serial'
    BY DEF Serial, LockTypeOK
  <1>3. EntryAtPc'
    BY DEF EntryAtPc, LockTypeOK, EraseEntry, Serial
  <1>4. Decided'
    BY DEF Decided, LockTypeOK, EraseEntry, CanGrant
  <1>5. ReleaseAtPc'
    <2>1. PICK p \in to_release[t] : /\ \A q \in to_release[t] : p <= q
                                    /\ granted' = [granted EXCEPT ![p][t] = "none"]
      BY DEF EraseEntry
    <2>2. p \in Page /\ to_release[t] \subseteq Nat
      BY PageAssumption DEF LockTypeOK
    <2>3. \A q \in to_release[t] : (\A r \in to_release[t] : q <= r) => q = p
      BY <2>1, <2>2
    <2>4. \A q \in Page : \A u \in Txn : granted[q][u] = "none" => granted'[q][u] = "none"
      BY <2>1, <2>2 DEF LockTypeOK
    <2>5. granted'[p][t] = "none"
      BY <2>1, <2>2 DEF LockTypeOK
    <2>6. /\ pc[t] = "release"
          /\ pc' = [pc EXCEPT ![t] = "untrack"]
          /\ UNCHANGED <<to_release, held>>
      OBVIOUS
    <2>7. \A u \in Txn : pc'[u] \in {"release", "untrack"} => \A q \in Page : held'[u][q] = "none"
      BY <2>6 DEF ReleaseAtPc, LockTypeOK
    <2>8. \A u \in Txn \ {t} : \A q \in to_release[u] :
             pc'[u] = "untrack" /\ (\A r \in to_release[u] : q <= r) => granted'[q][u] = "none"
      BY <2>4, <2>6 DEF ReleaseAtPc, LockTypeOK
    <2> QED BY <2>3, <2>5, <2>6, <2>7, <2>8 DEF ReleaseAtPc
  <1>6. GrantedCompatible'
    BY DEF GrantedCompatible, LockTypeOK, EraseEntry
  <1>7. GrantedTracked'
    BY DEF GrantedTracked, LockTypeOK, EraseEntry
  <1>8. HeldRecorded'
    BY DEF HeldRecorded, LockTypeOK, EraseEntry, ReleaseAtPc
  <1>9. OnlyConflictsWait'
    BY DEF OnlyConflictsWait, LockTypeOK
  <1> QED BY <1>1, <1>2, <1>3, <1>4, <1>5, <1>6, <1>7, <1>8, <1>9

\* Only an erased entry is untracked.
LEMMA UntrackInv ==
    ASSUME NEW t \in Txn, LockInv, Untrack(t)
    PROVE  LockInv'
  <1> USE DEF LockInv, Untrack
  <1>1. LockTypeOK'
    <2>1. waiting_graph' \in [Txn -> Edges]
      <3>1. \A u \in Txn : (IF u = t THEN {} ELSE waiting_graph[u] \ {t}) \in Edges
        BY EdgesErased DEF LockTypeOK
      <3> QED BY <3>1
    <2>2. /\ txn_locks' \in [Txn -> SUBSET Page]
          /\ to_release' \in [Txn -> SUBSET Page]
          /\ pc' \in [Txn -> Pcs]
      BY DEF LockTypeOK, Pcs
    <2> QED BY <2>1, <2>2 DEF LockTypeOK
  <1>2. Serial'
    BY DEF Serial, LockTypeOK
  <1>3. EntryAtPc'
    BY DEF EntryAtPc, LockTypeOK
  <1>4. Decided'
    BY DEF Decided, LockTypeOK, CanGrant
  <1>5. ReleaseAtPc'
    BY DEF ReleaseAtPc, LockTypeOK
  <1>6. GrantedCompatible'
    BY DEF GrantedCompatible, LockTypeOK
  <1>7. GrantedTracked'
    BY DEF GrantedTracked, LockTypeOK, ReleaseAtPc
  <1>8. HeldRecorded'
    BY DEF HeldRecorded, LockTypeOK
  <1>9. OnlyConflictsWait'
    BY DEF OnlyConflictsWait, LockTypeOK
  <1> QED BY <1>1, <1>2, <1>3, <1>4, <1>5, <1>6, <1>7, <1>8, <1>9

LEMMA LockNextInv == ASSUME LockInv, [LockNext]_lockVars PROVE LockInv'
  <1>1. CASE UNCHANGED lockVars
    BY <1>1 DEF lockVars, LockInv, LockTypeOK, Serial, EntryAtPc, Decided, CanGrant, ReleaseAtPc,
                GrantedCompatible, GrantedTracked, HeldRecorded, OnlyConflictsWait
  <1>2. ASSUME NEW t \in Txn, NEW p \in Page, NEW m \in Mode, AcquireLock(t, p, m)
        PROVE  LockInv'
    BY <1>2, AcquireLockInv
  <1>3. ASSUME NEW t \in Txn, LockStep(t)
        PROVE  LockInv'
    BY <1>3, ScanInv, CheckDeadlockInv, GrantLockInv, WakeGrantInv, WakeUpgradeInv, TimeoutInv,
       RecordLockInv, ReleaseFrameInv, UntrackInv DEF LockStep
  <1>4. ASSUME NEW t \in Txn, AcquireReturns(t) \/ ReleaseAllLocks(t)
        PROVE  LockInv'
    BY <1>4, AcquireReturnsInv, ReleaseAllLocksInv
  <1> QED BY <1>1, <1>2, <1>3, <1>4 DEF LockNext

\* LockInv is an invariant of the lock manager.
THEOREM LockInvariant == LockSpec => []LockInv
  BY LockInitInv, LockNextInv, PTL DEF LockSpec

\* Type correctness, as the invariant the runs check.
THEOREM LockTypeCorrect == LockSpec => []LockTypeOK
  <1>1. LockInv => LockTypeOK BY DEF LockInv
  <1> QED BY <1>1, LockInvariant, PTL

\* An exclusive lock recorded on a page excludes every other recorded lock on it.
THEOREM RecordedLocksCompatible == LockSpec => []GrantedCompatible
  <1>1. LockInv => GrantedCompatible BY DEF LockInv
  <1> QED BY <1>1, LockInvariant, PTL

\* release_all_locks finds every recorded lock of its transaction.
THEOREM NoLockIsLeaked == LockSpec => []GrantedTracked
  <1>1. LockInv => GrantedTracked BY DEF LockInv
  <1> QED BY <1>1, LockInvariant, PTL

\* A transaction that was told of a lock has an entry for it, at least a shared one, also
\* when the upgrade it waited for was lost.
THEOREM HeldLocksRecorded == LockSpec => []HeldRecorded
  <1>1. LockInv => HeldRecorded BY DEF LockInv
  <1> QED BY <1>1, LockInvariant, PTL

\* acquire_lock waits, and so can time out, only after it saw a conflict: the branch the
\* code marks "This should not happen" does not happen.
THEOREM QuickGrantNeverWaits == LockSpec => []OnlyConflictsWait
  <1>1. LockInv => OnlyConflictsWait BY DEF LockInv
  <1> QED BY <1>1, LockInvariant, PTL

-----------------------------------------------------------------------------
(* The lock manager implements the lock table: of its steps only those in  *)
(* grant_lock and release_lock change the table, each by one table step.   *)

LEMMA TableInit == LockInit => Table!Init
  BY DEF LockInit, Table!Init

\* Giving t mode m on p is a step of the table when no other entry is in the way.
LEMMA ObtainStep ==
    ASSUME LockInv, NEW t \in Txn, NEW p \in Page, NEW m \in Mode,
           granted[p][t] # "exclusive", granted[p][t] # m, CanGrant(p, t, m),
           granted' = [granted EXCEPT ![p][t] = m]
    PROVE  Table!Next
  <1>1. \A u \in Txn \ {t} : Table!Compatible(m, granted[p][u])
    BY DEF CanGrant, Table!Compatible, LockInv, LockTypeOK
  <1>2. Table!Obtain(t, p, m)
    BY <1>1 DEF Table!Obtain
  <1> QED BY <1>2 DEF Table!Next, Table!Mode

LEMMA TableStep == ASSUME LockInv, [LockNext]_lockVars PROVE [Table!Next]_granted
  <1>1. ASSUME NEW t \in Txn, GrantLock(t)
        PROVE  [Table!Next]_granted
    <2> DEFINE p == req[t].page
               m == req[t].mode
    <2>1. p \in Page /\ m \in Mode /\ pc[t] = "grant"
      BY <1>1 DEF GrantLock, LockInv, LockTypeOK
    <2>2. granted[p][t] = "none" \/ (granted[p][t] = "shared" /\ m = "exclusive")
      BY <2>1 DEF LockInv, EntryAtPc
    <2>3. \/ CanGrant(p, t, m) /\ granted' = [granted EXCEPT ![p][t] = m]
          \/ UNCHANGED granted
      BY <1>1, <2>2 DEF GrantLock, AddEntry, CanGrant
    <2> QED BY <2>1, <2>2, <2>3, ObtainStep
  <1>2. ASSUME NEW t \in Txn, WakeGrant(t)
        PROVE  [Table!Next]_granted
    <2> DEFINE p == req[t].page
               m == req[t].mode
    <2>1. p \in Page /\ m \in Mode /\ pc[t] = "wait"
      BY <1>2 DEF WakeGrant, LockInv, LockTypeOK
    <2>2. granted[p][t] = "none"
      BY <2>1 DEF LockInv, EntryAtPc
    <2>3. CanGrant(p, t, m) /\ granted' = [granted EXCEPT ![p][t] = m]
      BY <1>2 DEF WakeGrant, AddEntry
    <2> QED BY <2>1, <2>2, <2>3, ObtainStep
  <1>3. ASSUME NEW t \in Txn, WakeUpgrade(t)
        PROVE  [Table!Next]_granted
    <2> DEFINE p == req[t].page
    <2>1. p \in Page /\ granted[p][t] = "shared"
      BY <1>3 DEF WakeUpgrade, LockInv, LockTypeOK, EntryAtPc
    <2>2. CASE slot[p][t] = req[t].ref
      <3>1. CanGrant(p, t, "exclusive") /\ granted' = [granted EXCEPT ![p][t] = "exclusive"]
        BY <1>3, <2>2 DEF WakeUpgrade, UpgradedMode, OnlyHolder, CanGrant
      <3> QED BY <2>1, <3>1, ObtainStep
    <2>3. CASE slot[p][t] # req[t].ref
      <3>1. granted' = [granted EXCEPT ![p][t] = granted[p][t]]
        BY <1>3, <2>3 DEF WakeUpgrade, UpgradedMode
      <3> QED BY <2>1, <3>1 DEF LockInv, LockTypeOK
    <2> QED BY <2>2, <2>3
  <1>4. ASSUME NEW t \in Txn, ReleaseFrame(t)
        PROVE  [Table!Next]_granted
    <2>1. PICK p \in to_release[t] : granted' = [granted EXCEPT ![p][t] = "none"]
      BY <1>4 DEF ReleaseFrame, EraseEntry
    <2>2. p \in Page
      BY DEF LockInv, LockTypeOK
    <2>3. CASE granted[p][t] = "none"
      BY <2>1, <2>2, <2>3 DEF LockInv, LockTypeOK
    <2>4. CASE granted[p][t] # "none"
      BY <2>1, <2>2, <2>4 DEF Table!Next, Table!GiveBack
    <2> QED BY <2>3, <2>4
  <1>5. ASSUME NEW t \in Txn,
               \/ \E p \in Page, m \in Mode : AcquireLock(t, p, m)
               \/ Scan(t) \/ CheckDeadlock(t) \/ Timeout(t) \/ RecordLock(t) \/ Untrack(t)
               \/ AcquireReturns(t) \/ ReleaseAllLocks(t)
        PROVE  UNCHANGED granted
    BY <1>5, Zenon DEF AcquireLock, Scan, CheckDeadlock, Timeout, RecordLock, Untrack,
                       AcquireReturns, ReleaseAllLocks
  <1>6. CASE UNCHANGED lockVars
    BY <1>6 DEF lockVars
  <1> QED BY <1>1, <1>2, <1>3, <1>4, <1>5, <1>6 DEF LockNext, LockStep

\* Every behaviour of the lock manager is one of the abstract lock table.
THEOREM LockManagerImplementsTable == LockSpec => ImplementsLockTable
  <1>1. LockInit => Table!Init
    BY TableInit
  <1>2. LockInv /\ [LockNext]_lockVars => [Table!Next]_granted
    BY TableStep
  <1> QED BY <1>1, <1>2, LockInvariant, PTL DEF LockSpec, ImplementsLockTable, Table!Spec
=============================================================================
