---------------------------- MODULE LockManager ----------------------------
(***************************************************************************)
(* FrameLockManager and LockManager of lab 3: the locks of every page, the *)
(* pages every transaction has locked, and the waits-for graph.            *)
(*                                                                         *)
(* A transaction is run by one thread.  A step of a thread is what it does *)
(* inside one critical section (the mutex of a FrameLockManager, or the    *)
(* mutex of the LockManager), so that the steps of a caller of             *)
(* acquire_lock interleave with those of threads in release_all_locks.     *)
(* Two calls of acquire_lock never overlap: the only caller,               *)
(* BufferManager::fix_page, holds pool_mutex_ throughout.                  *)
(*                                                                         *)
(* granted_locks_ is a vector without two entries of a transaction (an     *)
(* entry is added only after a search for one, in the same critical        *)
(* section); it is given here by the mode and the position of each         *)
(* transaction's entry.  waiting_locks_ is written and never read, and is  *)
(* left out, as are can_grant_lock, has_shared_lock and                    *)
(* has_exclusive_locks_on_page, which nothing calls.                       *)
(***************************************************************************)
EXTENDS Naturals, FiniteSets

CONSTANTS Txn,      \* transaction ids; std::set visits them in ascending order
          Page      \* page ids

ASSUME TxnAssumption == Txn \subseteq Nat /\ IsFiniteSet(Txn)
ASSUME PageAssumption == Page \subseteq Nat /\ Page # {}

VARIABLES
    granted,        \* granted[p][t]: mode of t's entry in p's granted_locks_, or "none"
    slot,           \* slot[p][t]: its position in the vector, from 1; 0 when absent
    txn_locks,      \* txn_locks[t]: pages LockManager tracks as locked by t
    waiting_graph,  \* waiting_graph[t]: transactions t is noted to wait for
    pc,             \* where t's thread is inside the lock manager
    req,            \* the arguments and locals of t's acquire_lock
    to_release,     \* pages_to_release of t's release_all_locks
    held            \* held[t][p]: strongest mode acquire_lock told t it has (history)

lockVars == <<granted, slot, txn_locks, waiting_graph, pc, req, to_release, held>>

Mode == {"shared", "exclusive"}
Modes == Mode \cup {"none"}

Request == [page : Page, mode : Mode, holders : SUBSET Txn, conflict : BOOLEAN, ref : Nat]

\* The locals of a thread that is not in acquire_lock: they do not exist.
NoRequest == [page |-> CHOOSE p \in Page : TRUE, mode |-> "shared",
              holders |-> {}, conflict |-> FALSE, ref |-> 0]

\* The places of acquire_lock, in which the caller holds pool_mutex_ ...
Acquire == {"scan", "deadlock", "grant", "wait", "upgrade", "record", "granted"}
\* ... and those outside it: "thrown" is transaction_abort_error on its way to the client.
Pcs == Acquire \cup {"idle", "thrown", "release", "untrack"}

\* A transaction has at most one edge: check_deadlock clears the old one first.
Edges == {{}} \cup {{u} : u \in Txn}

LockInit ==
    /\ granted = [p \in Page |-> [t \in Txn |-> "none"]]
    /\ slot = [p \in Page |-> [t \in Txn |-> 0]]
    /\ txn_locks = [t \in Txn |-> {}]
    /\ waiting_graph = [t \in Txn |-> {}]
    /\ pc = [t \in Txn |-> "idle"]
    /\ req = [t \in Txn |-> NoRequest]
    /\ to_release = [t \in Txn |-> {}]
    /\ held = [t \in Txn |-> [p \in Page |-> "none"]]

-----------------------------------------------------------------------------
(* FrameLockManager: one page's vector of granted locks.                   *)

OthersNone(p, t) == \A u \in Txn \ {t} : granted[p][u] = "none"
OthersNotExclusive(p, t) == \A u \in Txn \ {t} : granted[p][u] # "exclusive"

\* granted_locks_ holds t's entry and no other.
OnlyHolder(p, t) == granted[p][t] # "none" /\ OthersNone(p, t)

Holders(p) == {u \in Txn : granted[p][u] # "none"}

\* Variant with a fault: an exclusive lock is granted beside shared ones.
CanGrantFaulty(p, t, m) == OthersNotExclusive(p, t)

\* The condition on which grant_lock adds an entry, and the one it waits for.
CanGrant(p, t, m) == IF m = "exclusive" THEN OthersNone(p, t) ELSE OthersNotExclusive(p, t)

\* granted_locks_.emplace_back(t, m)
AddEntry(p, t, m) ==
    /\ granted' = [granted EXCEPT ![p][t] = m]
    /\ slot' = [slot EXCEPT ![p][t] = Cardinality(Holders(p)) + 1]

\* Variants with a fault: the entries in front of t's move too ...
EraseEntryShiftsAll(p, t) ==
    /\ granted' = [granted EXCEPT ![p][t] = "none"]
    /\ slot' = [slot EXCEPT ![p] = [u \in Txn |-> IF u = t THEN 0 ELSE slot[p][u] - 1]]

\* ... and the first entry is erased, whoever it belongs to.
EraseFirstEntry(p, t) ==
    /\ granted' = [granted EXCEPT ![p] = [u \in Txn |->
                     IF slot[p][u] = 1 THEN "none" ELSE granted[p][u]]]
    /\ slot' = [slot EXCEPT ![p] = [u \in Txn |->
                  IF slot[p][u] > 0 THEN slot[p][u] - 1 ELSE 0]]

\* granted_locks_.erase(it): the entries behind t's move up by one.
EraseEntry(p, t) ==
    /\ granted' = [granted EXCEPT ![p][t] = "none"]
    /\ slot' = [slot EXCEPT ![p] = [u \in Txn |->
                  IF u = t THEN 0
                  ELSE IF granted[p][t] # "none" /\ slot[p][u] > slot[p][t]
                       THEN slot[p][u] - 1
                       ELSE slot[p][u]]]

-----------------------------------------------------------------------------
(* LockManager::acquire_lock                                               *)

Goto(t, place) == pc' = [pc EXCEPT ![t] = place]

\* The call, up to the decision the entry of t in granted_locks_ allows: return at
\* once, upgrade as the only holder, or look for conflicts.
AcquireLock(t, p, m) ==
    /\ pc[t] = "idle"
    /\ \A u \in Txn : pc[u] \notin Acquire
    /\ req' = [req EXCEPT ![t] = [page |-> p, mode |-> m, holders |-> {},
                                  conflict |-> FALSE, ref |-> 0]]
    /\ Goto(t, IF granted[p][t] # "none" /\ (m = "shared" \/ granted[p][t] = "exclusive")
               THEN "granted"
               ELSE IF OnlyHolder(p, t) THEN "grant" ELSE "scan")
    /\ UNCHANGED <<granted, slot, txn_locks, waiting_graph, to_release, held>>

\* Variant with a fault: only the holders' modes decide whether there is a conflict.
ScanFaulty(t) ==
    LET p == req[t].page
        others == {u \in Txn \ {t} : p \in txn_locks[u]}
        conflict == \E u \in others : granted[p][u] = "exclusive"
    IN  /\ pc[t] = "scan"
        /\ req' = [req EXCEPT ![t].holders = others, ![t].conflict = conflict]
        /\ Goto(t, IF conflict THEN "deadlock" ELSE "grant")
        /\ UNCHANGED <<granted, slot, txn_locks, waiting_graph, to_release, held>>

\* Which other transactions are tracked on the page, and does one conflict?
Scan(t) ==
    LET p == req[t].page
        others == {u \in Txn \ {t} : p \in txn_locks[u]}
        conflict == \E u \in others : req[t].mode = "exclusive" \/ granted[p][u] = "exclusive"
    IN  /\ pc[t] = "scan"
        /\ req' = [req EXCEPT ![t].holders = others, ![t].conflict = conflict]
        /\ Goto(t, IF conflict THEN "deadlock" ELSE "grant")
        /\ UNCHANGED <<granted, slot, txn_locks, waiting_graph, to_release, held>>

\* The transactions the edges from t lead to, one after the other.
Reached(graph, t) ==
    {u \in Txn : \A C \in SUBSET Txn :
                    (graph[t] \subseteq C /\ \A v \in C : graph[v] \subseteq C) => u \in C}

\* has_cycle(t, t, {}): the path comes back to t.
HasCycle(graph, t) == t \in Reached(graph, t)

\* check_deadlock for the lowest transaction still in lock_holders.  After a cycle it
\* drops the edges to t and, as visited still holds the path, those of all on the cycle.
CheckDeadlock(t) ==
    /\ pc[t] = "deadlock"
    /\ \E h \in req[t].holders :
        LET graph == [waiting_graph EXCEPT ![t] = {h}]
            rest == req[t].holders \ {h}
        IN  /\ \A u \in req[t].holders : h <= u
            /\ IF HasCycle(graph, t)
               THEN /\ waiting_graph' = [u \in Txn |-> IF u \in Reached(graph, t) THEN {}
                                                   ELSE graph[u] \ {t}]
                    /\ req' = [req EXCEPT ![t] = NoRequest]
                    /\ Goto(t, "thrown")
               ELSE /\ waiting_graph' = graph
                    /\ req' = [req EXCEPT ![t].holders = rest]
                    /\ Goto(t, IF rest = {} THEN "grant" ELSE "deadlock")
    /\ UNCHANGED <<granted, slot, txn_locks, to_release, held>>

\* grant_lock, up to its return or to the wait on cv_.  An upgrade waits with a
\* reference to t's entry, that is to the place in the vector where it is now.
GrantLock(t) ==
    LET p == req[t].page
        m == req[t].mode
    IN  /\ pc[t] = "grant"
        /\ IF granted[p][t] = "shared"
           THEN IF OthersNone(p, t)
                THEN /\ granted' = [granted EXCEPT ![p][t] = m]
                     /\ Goto(t, "record")
                     /\ UNCHANGED <<slot, req>>
                ELSE /\ req' = [req EXCEPT ![t].ref = slot[p][t]]
                     /\ Goto(t, "upgrade")
                     /\ UNCHANGED <<granted, slot>>
           ELSE IF CanGrant(p, t, m)
                THEN /\ AddEntry(p, t, m)
                     /\ Goto(t, "record")
                     /\ UNCHANGED req
                ELSE /\ Goto(t, "wait")
                     /\ UNCHANGED <<granted, slot, req>>
        /\ UNCHANGED <<txn_locks, waiting_graph, to_release, held>>

\* cv_.wait_until returns because its predicate holds: the new lock is granted.
WakeGrant(t) ==
    /\ pc[t] = "wait"
    /\ CanGrant(req[t].page, t, req[t].mode)
    /\ AddEntry(req[t].page, t, req[t].mode)
    /\ Goto(t, "record")
    /\ UNCHANGED <<txn_locks, waiting_graph, req, to_release, held>>

\* The mode a write through existing_lock leaves in t's entry: the reference still
\* names the entry only if no entry in front of it was erased during the wait.
UpgradedMode(p, t, ref) == IF slot[p][t] = ref THEN "exclusive" ELSE granted[p][t]

\* Variant with a fault: the wait ends at any wake-up, without its predicate.
WakeUpgradeFaulty(t) ==
    LET p == req[t].page
    IN  /\ pc[t] = "upgrade"
        /\ granted' = [granted EXCEPT ![p][t] = UpgradedMode(p, t, req[t].ref)]
        /\ Goto(t, "record")
        /\ UNCHANGED <<slot, txn_locks, waiting_graph, req, to_release, held>>

\* The wait for an upgrade is over and grant_lock writes through existing_lock.
WakeUpgrade(t) ==
    LET p == req[t].page
    IN  /\ pc[t] = "upgrade"
        /\ OnlyHolder(p, t)
        /\ granted' = [granted EXCEPT ![p][t] = UpgradedMode(p, t, req[t].ref)]
        /\ Goto(t, "record")
        /\ UNCHANGED <<slot, txn_locks, waiting_graph, req, to_release, held>>

\* What the thread waits for on cv_.
WaitPredicate(t) ==
    IF pc[t] = "upgrade" THEN OnlyHolder(req[t].page, t)
    ELSE CanGrant(req[t].page, t, req[t].mode)

\* Variant with a fault: an upgrade waits without a deadline.
TimeoutFaulty(t) ==
    /\ pc[t] = "wait"
    /\ ~WaitPredicate(t)
    /\ req' = [req EXCEPT ![t] = NoRequest]
    /\ Goto(t, "thrown")
    /\ UNCHANGED <<granted, slot, txn_locks, waiting_graph, to_release, held>>

\* The deadline passes (wait_until then returns the predicate): grant_lock returns
\* false and acquire_lock throws.  The waits-for graph keeps t's edge.
Timeout(t) ==
    /\ pc[t] \in {"wait", "upgrade"}
    /\ ~WaitPredicate(t)
    /\ req' = [req EXCEPT ![t] = NoRequest]
    /\ Goto(t, "thrown")
    /\ UNCHANGED <<granted, slot, txn_locks, waiting_graph, to_release, held>>

\* Variant with a fault: the page is tracked only where the conflict was handled.
RecordLockFaulty(t) ==
    /\ pc[t] = "record"
    /\ txn_locks' = IF req[t].conflict THEN [txn_locks EXCEPT ![t] = @ \cup {req[t].page}]
                    ELSE txn_locks
    /\ waiting_graph' = IF req[t].conflict THEN [waiting_graph EXCEPT ![t] = {}]
                        ELSE waiting_graph
    /\ Goto(t, "granted")
    /\ UNCHANGED <<granted, slot, req, to_release, held>>

\* The lock is granted; track it, and after a conflict drop t's edges.
RecordLock(t) ==
    /\ pc[t] = "record"
    /\ txn_locks' = [txn_locks EXCEPT ![t] = @ \cup {req[t].page}]
    /\ waiting_graph' = IF req[t].conflict THEN [waiting_graph EXCEPT ![t] = {}]
                        ELSE waiting_graph
    /\ Goto(t, "granted")
    /\ UNCHANGED <<granted, slot, req, to_release, held>>

\* acquire_lock returns true to fix_page.
AcquireReturns(t) ==
    /\ pc[t] = "granted"
    /\ held' = [held EXCEPT ![t][req[t].page] =
                  IF @ = "exclusive" THEN @ ELSE req[t].mode]
    /\ req' = [req EXCEPT ![t] = NoRequest]
    /\ Goto(t, "idle")
    /\ UNCHANGED <<granted, slot, txn_locks, waiting_graph, to_release>>

-----------------------------------------------------------------------------
(* LockManager::release_all_locks                                          *)

\* Called at the end of a transaction, and by the client that caught the error.
ReleaseAllLocks(t) ==
    /\ pc[t] \in {"idle", "thrown"}
    /\ to_release' = [to_release EXCEPT ![t] = txn_locks[t]]
    /\ held' = [held EXCEPT ![t] = [p \in Page |-> "none"]]
    /\ Goto(t, IF txn_locks[t] = {} THEN "idle" ELSE "release")
    /\ UNCHANGED <<granted, slot, txn_locks, waiting_graph, req>>

\* release_lock for the lowest page left, in the FrameLockManager ...
ReleaseFrame(t) ==
    /\ pc[t] = "release"
    /\ \E p \in to_release[t] :
        /\ \A q \in to_release[t] : p <= q
        /\ EraseEntry(p, t)
    /\ Goto(t, "untrack")
    /\ UNCHANGED <<txn_locks, waiting_graph, req, to_release, held>>

\* ... and then in the LockManager's maps.
Untrack(t) ==
    /\ pc[t] = "untrack"
    /\ \E p \in to_release[t] :
        /\ \A q \in to_release[t] : p <= q
        /\ txn_locks' = [txn_locks EXCEPT ![t] = @ \ {p}]
        /\ to_release' = [to_release EXCEPT ![t] = @ \ {p}]
        /\ Goto(t, IF to_release[t] = {p} THEN "idle" ELSE "release")
    /\ waiting_graph' = [u \in Txn |-> IF u = t THEN {} ELSE waiting_graph[u] \ {t}]
    /\ UNCHANGED <<granted, slot, req, held>>

-----------------------------------------------------------------------------
\* A step inside a call that is under way.
LockStep(t) ==
    \/ Scan(t) \/ CheckDeadlock(t) \/ GrantLock(t) \/ WakeGrant(t) \/ WakeUpgrade(t)
    \/ Timeout(t) \/ RecordLock(t) \/ ReleaseFrame(t) \/ Untrack(t)

LockNext ==
    \E t \in Txn :
        \/ \E p \in Page, m \in Mode : AcquireLock(t, p, m)
        \/ LockStep(t)
        \/ AcquireReturns(t)
        \/ ReleaseAllLocks(t)

LockSpec == LockInit /\ [][LockNext]_lockVars

\* Threads inside a call are scheduled and deadlines pass; nobody has to start a call.
LockFairSpec == LockSpec /\ \A t \in Txn : WF_lockVars(LockStep(t) \/ AcquireReturns(t))

-----------------------------------------------------------------------------
LockTypeOK ==
    /\ granted \in [Page -> [Txn -> Modes]]
    /\ slot \in [Page -> [Txn -> Nat]]
    /\ txn_locks \in [Txn -> SUBSET Page]
    /\ waiting_graph \in [Txn -> Edges]
    /\ pc \in [Txn -> Pcs]
    /\ req \in [Txn -> Request]
    /\ to_release \in [Txn -> SUBSET Page]
    /\ held \in [Txn -> [Page -> Modes]]

\* No two transactions have recorded locks on a page of which one is exclusive
\* (README.md:17), whatever order scans, waits, wake-ups and releases come in.
GrantedCompatible ==
    \A p \in Page : \A t, u \in Txn :
        (t # u /\ granted[p][t] = "exclusive") => granted[p][u] = "none"

\* A recorded lock is tracked in txn_locks_, or its acquirer is about to do so: a
\* transaction that releases all its locks leaves none behind to block others for ever.
GrantedTracked ==
    \A p \in Page : \A t \in Txn :
        granted[p][t] # "none" =>
            p \in txn_locks[t] \/ (pc[t] = "record" /\ req[t].page = p)

\* grant_lock only waits on the path that found a conflict and looked for a deadlock;
\* the others cannot time out ("This should not happen", buffer_manager.cc:433).
OnlyConflictsWait ==
    \A t \in Txn : pc[t] \in {"wait", "upgrade"} => req[t].conflict

\* Every transaction told it may use a page has an entry on it, so that later
\* requests of others are checked against it.
HeldRecorded ==
    \A p \in Page : \A t \in Txn : held[t][p] # "none" => granted[p][t] # "none"

\* The steps of the code are steps of the abstract lock table.
Table == INSTANCE LockTable WITH holds <- granted
ImplementsLockTable == Table!Spec

\* No call of acquire_lock blocks for ever: with locks held crosswise the timeout ends it.
AcquireEnds == \A t \in Txn : pc[t] \in Acquire ~> pc[t] \notin Acquire

\* "Only one transaction may have an exclusive lock on an object" (README.md:17), of
\* what acquire_lock told its callers.
HeldCompatible ==
    \A p \in Page : \A t, u \in Txn :
        (t # u /\ held[t][p] = "exclusive") => held[u][p] = "none"

\* "check for cycles in a dependency graph ... and abort something if a cycle exists"
\* (README.md:78): acquire_lock reports a deadlock only when another transaction is itself
\* inside the lock manager, or was refused and has not yet been cleaned up; transactions
\* that hold locks and ask for nothing form no cycle.
DeadlocksAreReal ==
    [][\A t \in Txn : (pc[t] = "deadlock" /\ pc'[t] = "thrown") =>
          \E u \in Txn \ {t} : pc[u] # "idle"]_lockVars
=============================================================================
