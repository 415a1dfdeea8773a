------------------------ MODULE RunClangTidyProofs ------------------------
(***************************************************************************)
(* What run_clang_tidy.py guarantees for any database and number of        *)
(* threads.  TidyInv follows each file: it is ahead of the loop, in the    *)
(* queue, in the hands of exactly one thread, or has its verdict.  As the  *)
(* queue's count covers the queue and the threads, nothing is under way    *)
(* when join returns, and nothing is added to what main then reports.      *)
(***************************************************************************)
EXTENDS RunClangTidy, FiniteSetTheorems, TLAPS

Queued == {task_queue[i] : i \in 1..Len(task_queue)}

QueueOrdered ==
    /\ \A i, j \in 1..Len(task_queue) : i < j => task_queue[i] < task_queue[j]
    /\ \A i \in 1..Len(task_queue) : task_queue[i] < next

NamesHeld == \A w \in Worker : worker[w].pc = "get" <=> worker[w].name = NoFile

OneHolder ==
    \A w, v \in Worker : w # v /\ worker[w].name # NoFile => worker[w].name # worker[v].name

HeldTaken ==
    \A w \in Worker : worker[w].name # NoFile =>
        worker[w].name < next /\ worker[w].name \notin Queued

NoneUnmatched == \A f \in File : f < next => files[f] # "unmatched"

NoneForgotten ==
    \A f \in File : f < next /\ files[f] = "checked" =>
        verdict[f] # "none" \/ f \in Queued \/ \E w \in Worker : worker[w].name = f

Verdicts ==
    \A f \in File : verdict[f] # "none" =>
        /\ files[f] = "checked" /\ f < next /\ f \notin Queued
        /\ \A w \in Worker : worker[w].name = f => worker[w].pc \in {"report", "dead"}

Checking ==
    \A w \in Worker :
        /\ worker[w].pc = "run" => files[worker[w].name] = "checked"
        /\ worker[w].pc = "report" => verdict[worker[w].name] # "none"

FailedExact == failed_files = {f \in File : verdict[f] = "failed"}

MainAt ==
    /\ main \in {"join"} \cup AfterJoin => next = NumFiles + 1
    /\ main \in AfterJoin => unfinished = 0

FixesKept == main \in {"startup", "fill", "join", "export", "fix", "clean"} => fixes \subseteq yaml

CodeExact ==
    return_code = 0 =>
        /\ main \in AfterJoin => failed_files = {}
        /\ main \in AfterJoin \ {"export"} /\ args.export => mergefile = fixes
        /\ main \in AfterJoin \ {"export", "fix"} /\ args.fix => applied = fixes

Placed ==
    /\ QueueOrdered /\ NamesHeld /\ OneHolder /\ HeldTaken /\ NoneUnmatched
    /\ NoneForgotten /\ Verdicts /\ Checking /\ FailedExact

Reported == MainAt /\ FixesKept /\ CodeExact /\ CleanUpUndisturbed

TidyInv == TidyTypeOK /\ TasksCounted /\ Placed /\ Reported

USE DEF NoFile, At, Goto, threads, output

-----------------------------------------------------------------------------
(* Threads with a file, and what is under way when join returns.           *)

LEMMA BusyFinite == IsFiniteSet(Busy) /\ Cardinality(Busy) \in Nat
  <1>1. Busy \subseteq Worker
    BY DEF Busy
  <1> QED BY <1>1, TidyAssumption, FS_Subset, FS_CardinalityType

LEMMA BusyGrows ==
    ASSUME TidyTypeOK, NEW w \in Worker, worker[w].pc = "get", NEW f,
           worker' = [worker EXCEPT ![w] = [pc |-> "invoke", name |-> f]]
    PROVE  Cardinality(Busy') = Cardinality(Busy) + 1
  <1>1. Busy' = Busy \cup {w}
    BY DEF Busy, TidyTypeOK
  <1>2. w \notin Busy
    BY DEF Busy
  <1> QED BY <1>1, <1>2, BusyFinite, FS_AddElement

LEMMA BusyShrinks ==
    ASSUME TidyTypeOK, NEW w \in Worker, worker[w].pc # "get",
           worker' = [worker EXCEPT ![w] = [pc |-> "get", name |-> NoFile]]
    PROVE  Cardinality(Busy') = Cardinality(Busy) - 1
  <1>1. Busy' = Busy \ {w}
    BY DEF Busy, TidyTypeOK
  <1>2. w \in Busy
    BY DEF Busy
  <1> QED BY <1>1, <1>2, BusyFinite, FS_RemoveElement

LEMMA BusyStays ==
    ASSUME TidyTypeOK, NEW w \in Worker, worker[w].pc # "get", NEW place, place # "get",
           Goto(w, place)
    PROVE  Busy' = Busy
  BY DEF Busy, TidyTypeOK

LEMMA Quiet ==
    ASSUME TidyInv, main \in AfterJoin
    PROVE  Busy = {} /\ task_queue = <<>>
  <1>1. unfinished = 0 /\ unfinished = Len(task_queue) + Cardinality(Busy)
    BY DEF TidyInv, Reported, MainAt, TasksCounted
  <1>2. Len(task_queue) \in Nat /\ task_queue \in Seq(File)
    BY DEF TidyInv, TidyTypeOK
  <1>3. Len(task_queue) = 0 /\ Cardinality(Busy) = 0
    BY <1>1, <1>2, BusyFinite
  <1> QED BY <1>2, <1>3, BusyFinite, FS_EmptySet

\* A thread with a file, or a file in the queue, is seen before join returns only.
LEMMA NotQuiet ==
    ASSUME TidyInv, task_queue # <<>> \/ \E w \in Worker : worker[w].pc # "get"
    PROVE  main \notin AfterJoin
  BY Quiet DEF Busy

-----------------------------------------------------------------------------
(* The steps of the threads.                                               *)

\* What main has reported is not disturbed by a step of a thread before join returned.
LEMMA ReportedKept ==
    ASSUME TidyInv, main \notin AfterJoin, UNCHANGED <<main, next>>,
           fixes \subseteq yaml => fixes' \subseteq yaml'
    PROVE  Reported'
  BY DEF TidyInv, Reported, MainAt, FixesKept, CodeExact, CleanUpUndisturbed, AfterJoin

LEMMA GetInv == ASSUME TidyInv, NEW w \in Worker, Get(w) PROVE TidyInv'
  <1> DEFINE f == Head(task_queue)
  <1>1. /\ TidyTypeOK /\ worker[w].pc = "get" /\ task_queue # <<>>
        /\ worker' = [worker EXCEPT ![w] = [pc |-> "invoke", name |-> f]]
        /\ task_queue' = Tail(task_queue)
        /\ UNCHANGED <<args, files, main, next, unfinished, failed_files, return_code,
                       tmpdir, yaml, mergefile, applied, verdict, fixes>>
    BY DEF Get, TidyInv
  <1>2. /\ task_queue \in Seq(File) /\ Len(task_queue) \in Nat \ {0}
        /\ f = task_queue[1] /\ f \in File
        /\ Len(task_queue') = Len(task_queue) - 1 /\ task_queue' \in Seq(File)
        /\ \A i \in 1..Len(task_queue') : task_queue'[i] = task_queue[i + 1]
    BY <1>1 DEF TidyTypeOK
  <1>3. TidyTypeOK'
    <2>1. max_task \in Nat
      BY TidyAssumption, FS_CardinalityType DEF max_task
    <2>2. Len(task_queue') <= max_task
      BY <1>1, <1>2, <2>1 DEF TidyTypeOK
    <2>3. worker' \in [Worker -> [pc : WorkerPcs, name : File \cup {NoFile}]]
      BY <1>1, <1>2 DEF TidyTypeOK, WorkerPcs
    <2>4. max_task' = max_task
      BY DEF max_task
    <2> QED BY <1>1, <1>2, <2>2, <2>3, <2>4 DEF TidyTypeOK
  <1>4. TasksCounted'
    <2>1. Cardinality(Busy') = Cardinality(Busy) + 1
      BY <1>1, BusyGrows
    <2> QED BY <1>1, <1>2, <2>1, BusyFinite DEF TidyInv, TasksCounted
  <1>5. Placed'
    <2>1. QueueOrdered' /\ Queued' = Queued \ {f} /\ f \in Queued /\ f < next
      <3>1. QueueOrdered
        BY DEF TidyInv, Placed
      <3>2. QueueOrdered' /\ f < next
        BY <1>1, <1>2, <3>1 DEF QueueOrdered
      <3>3. \A i \in 1..Len(task_queue') : task_queue'[i] \in Queued \ {f}
        <4> SUFFICES ASSUME NEW i \in 1..Len(task_queue')
                     PROVE  task_queue'[i] \in Queued \ {f}
          OBVIOUS
        <4>1. 1 \in 1..Len(task_queue) /\ i + 1 \in 1..Len(task_queue) /\ 1 < i + 1
          BY <1>2
        <4>2. task_queue[1] < task_queue[i + 1]
          BY <3>1, <4>1 DEF QueueOrdered
        <4>3. task_queue[1] \in Nat /\ task_queue[i + 1] \in Nat
          <5>1. task_queue[1] \in File /\ task_queue[i + 1] \in File
            BY <1>2, <4>1
          <5> QED BY <5>1, TidyAssumption DEF File
        <4>4. task_queue'[i] = task_queue[i + 1] /\ f = task_queue[1]
          BY <1>2, <4>1
        <4>5. task_queue'[i] # f
          BY <4>2, <4>3, <4>4
        <4>6. task_queue'[i] \in Queued
          BY <4>1, <4>4 DEF Queued
        <4> QED BY <4>5, <4>6
      <3>4. \A i \in 1..Len(task_queue) : task_queue[i] # f => task_queue[i] \in Queued'
        <4> SUFFICES ASSUME NEW i \in 1..Len(task_queue), task_queue[i] # f
                     PROVE  \E j \in 1..Len(task_queue') : task_queue'[j] = task_queue[i]
          BY DEF Queued
        <4>1. i - 1 \in 1..Len(task_queue') /\ i - 1 + 1 = i
          BY <1>2
        <4> QED BY <1>2, <4>1
      <3>5. f \in Queued
        BY <1>2 DEF Queued
      <3>6. Queued' \subseteq Queued \ {f}
        BY <3>3 DEF Queued
      <3>7. Queued \ {f} \subseteq Queued'
        BY <3>4 DEF Queued
      <3> QED BY <3>2, <3>5, <3>6, <3>7
    <2>2. worker'[w] = [pc |-> "invoke", name |-> f] /\ f # NoFile
          /\ \A v \in Worker \ {w} : worker'[v] = worker[v]
      BY <1>1, <1>2 DEF TidyTypeOK, File
    <2>3. NamesHeld' /\ OneHolder' /\ HeldTaken'
      BY <1>1, <2>1, <2>2 DEF TidyInv, Placed, NamesHeld, OneHolder, HeldTaken
    <2>4. NoneUnmatched' /\ FailedExact'
      BY <1>1 DEF TidyInv, Placed, NoneUnmatched, FailedExact
    <2>5. worker[w].name = NoFile
      BY <1>1 DEF TidyInv, Placed, NamesHeld
    <2>6. NoneForgotten'
      BY <1>1, <2>1, <2>2, <2>5 DEF TidyInv, Placed, NoneForgotten, File
    <2>7. Verdicts'
      BY <1>1, <2>1, <2>2 DEF TidyInv, Placed, Verdicts
    <2>8. Checking'
      BY <1>1, <2>2 DEF TidyInv, Placed, Checking
    <2> QED BY <2>1, <2>3, <2>4, <2>6, <2>7, <2>8 DEF Placed
  <1>6. Reported'
    BY <1>1, NotQuiet, ReportedKept
  <1> QED BY <1>3, <1>4, <1>5, <1>6 DEF TidyInv

\* The other steps of a thread: the queue stays, and so does the file in its hands.
LEMMA GotoPlaced ==
    ASSUME TidyInv, NEW w \in Worker, worker[w].pc # "get",
           NEW place, place \in WorkerPcs \ {"get"}, Goto(w, place)
    PROVE  /\ worker' \in [Worker -> [pc : WorkerPcs, name : File \cup {NoFile}]]
           /\ worker'[w] = [pc |-> place, name |-> worker[w].name]
           /\ \A v \in Worker \ {w} : worker'[v] = worker[v]
           /\ \A v \in Worker : worker'[v].name = worker[v].name
           /\ NamesHeld'
           /\ UNCHANGED task_queue => TasksCounted' \/ unfinished' # unfinished
           /\ UNCHANGED <<task_queue, next>> => QueueOrdered' /\ OneHolder' /\ HeldTaken'
  <1>1. TidyTypeOK
    BY DEF TidyInv
  <1>2. /\ worker'[w] = [pc |-> place, name |-> worker[w].name]
        /\ \A v \in Worker \ {w} : worker'[v] = worker[v]
        /\ \A v \in Worker : worker'[v].name = worker[v].name
    BY <1>1 DEF TidyTypeOK
  <1>3. worker' \in [Worker -> [pc : WorkerPcs, name : File \cup {NoFile}]]
    BY <1>1 DEF TidyTypeOK
  <1>4. NamesHeld'
    BY <1>2 DEF TidyInv, Placed, NamesHeld
  <1>5. UNCHANGED task_queue => TasksCounted' \/ unfinished' # unfinished
    BY <1>1, BusyStays DEF TidyInv, TasksCounted
  <1>6. UNCHANGED <<task_queue, next>> => QueueOrdered' /\ OneHolder' /\ HeldTaken'
    BY <1>2 DEF TidyInv, Placed, QueueOrdered, OneHolder, HeldTaken, Queued
  <1> QED BY <1>2, <1>3, <1>4, <1>5, <1>6

LEMMA GetTidyInvocationInv == ASSUME TidyInv, NEW w \in Worker, GetTidyInvocation(w) PROVE TidyInv'
  <1>1. /\ worker[w].pc = "invoke"
        /\ UNCHANGED <<args, files, main, next, task_queue, unfinished, failed_files,
                       return_code, tmpdir, mergefile, applied, verdict, fixes>>
    BY DEF GetTidyInvocation
  <1>2. worker[w].name \in File
    BY <1>1 DEF TidyInv, TidyTypeOK, Placed, NamesHeld
  <1>3. PICK place \in {"start", "dead"} : Goto(w, place)
    BY DEF GetTidyInvocation
  <1>4. yaml \subseteq yaml' /\ yaml' \subseteq yaml \cup {worker[w].name}
    BY DEF GetTidyInvocation
  <1> HIDE DEF Goto
  <1>5. place \in WorkerPcs \ {"get"}
    BY DEF WorkerPcs
  <1>6. TidyTypeOK' /\ TasksCounted'
    BY <1>1, <1>2, <1>3, <1>4, <1>5, GotoPlaced DEF TidyInv, TidyTypeOK, max_task
  <1>7. /\ worker'[w] = [pc |-> place, name |-> worker[w].name]
        /\ \A v \in Worker \ {w} : worker'[v] = worker[v]
        /\ \A v \in Worker : worker'[v].name = worker[v].name
        /\ Queued' = Queued
    BY <1>1, <1>3, <1>5, GotoPlaced DEF Queued
  <1>8. /\ NoneUnmatched' /\ NoneForgotten' /\ FailedExact'
        /\ Verdicts' /\ Checking'
    <2>1. NoneUnmatched' /\ FailedExact'
      BY <1>1 DEF TidyInv, Placed, NoneUnmatched, FailedExact
    <2>2. NoneForgotten'
      BY <1>1, <1>7 DEF TidyInv, Placed, NoneForgotten
    <2>3. Verdicts'
      BY <1>1, <1>7 DEF TidyInv, Placed, Verdicts
    <2>4. Checking'
      BY <1>1, <1>7 DEF TidyInv, Placed, Checking
    <2> QED BY <2>1, <2>2, <2>3, <2>4
  <1>9. Placed'
    BY <1>1, <1>3, <1>5, <1>8, GotoPlaced DEF Placed
  <1>10. Reported'
    BY <1>1, <1>4, NotQuiet, ReportedKept
  <1> QED BY <1>6, <1>9, <1>10 DEF TidyInv

LEMMA StartInv == ASSUME TidyInv, NEW w \in Worker, Start(w) PROVE TidyInv'
  <1>1. /\ worker[w].pc = "start" /\ files[worker[w].name] # "third_party"
        /\ UNCHANGED <<args, files, main, next, task_queue, unfinished, failed_files,
                       return_code, tmpdir, yaml, mergefile, applied, verdict, fixes>>
    BY DEF Start
  <1>2. worker[w].name \in File /\ worker[w].name < next
    BY <1>1 DEF TidyInv, TidyTypeOK, Placed, NamesHeld, HeldTaken
  <1>3. files[worker[w].name] = "checked"
    BY <1>1, <1>2 DEF TidyInv, TidyTypeOK, Placed, NoneUnmatched, Kind
  <1>4. PICK place \in {"run", "dead"} : Goto(w, place)
    BY DEF Start
  <1> HIDE DEF Goto
  <1>5. place \in WorkerPcs \ {"get"}
    BY DEF WorkerPcs
  <1>6. TidyTypeOK' /\ TasksCounted'
    BY <1>1, <1>4, <1>5, GotoPlaced DEF TidyInv, TidyTypeOK, max_task
  <1>7. /\ worker'[w] = [pc |-> place, name |-> worker[w].name]
        /\ \A v \in Worker \ {w} : worker'[v] = worker[v]
        /\ \A v \in Worker : worker'[v].name = worker[v].name
        /\ Queued' = Queued
    BY <1>1, <1>4, <1>5, GotoPlaced DEF Queued
  <1>8. /\ NoneUnmatched' /\ NoneForgotten' /\ FailedExact'
        /\ Verdicts' /\ Checking'
    <2>1. NoneUnmatched' /\ FailedExact'
      BY <1>1 DEF TidyInv, Placed, NoneUnmatched, FailedExact
    <2>2. NoneForgotten'
      BY <1>1, <1>7 DEF TidyInv, Placed, NoneForgotten
    <2>3. Verdicts'
      BY <1>1, <1>7 DEF TidyInv, Placed, Verdicts
    <2>4. Checking'
      BY <1>1, <1>2, <1>3, <1>7 DEF TidyInv, Placed, Checking
    <2> QED BY <2>1, <2>2, <2>3, <2>4
  <1>9. Placed'
    BY <1>1, <1>4, <1>5, <1>8, GotoPlaced DEF Placed
  <1>10. Reported'
    BY <1>1, NotQuiet, ReportedKept
  <1> QED BY <1>6, <1>9, <1>10 DEF TidyInv

LEMMA CommunicateInv == ASSUME TidyInv, NEW w \in Worker, Communicate(w) PROVE TidyInv'
  <1> DEFINE n == worker[w].name
  <1>1. /\ worker[w].pc = "run" /\ Goto(w, "report")
        /\ UNCHANGED <<args, files, main, next, task_queue, unfinished,
                       return_code, tmpdir, mergefile, applied>>
    BY DEF Communicate
  <1>2. n \in File /\ n < next /\ n \notin Queued /\ files[n] = "checked"
    BY <1>1 DEF TidyInv, TidyTypeOK, Placed, NamesHeld, HeldTaken, Checking
  <1>3. PICK v \in {"passed", "failed"} :
            /\ verdict' = [verdict EXCEPT ![n] = v]
            /\ failed_files' = failed_files \cup (IF v = "failed" THEN {n} ELSE {})
    BY DEF Communicate
  <1>4. \E S \in SUBSET {n} : fixes' = fixes \cup S /\ yaml' = yaml \cup S
    <2>1. CASE UNCHANGED <<fixes, yaml>>
      <3> WITNESS {} \in SUBSET {n}
      <3> QED BY <2>1
    <2>2. CASE fixes' = fixes \cup {n} /\ yaml' = yaml \cup {n}
      BY <2>2
    <2> QED BY <2>1, <2>2 DEF Communicate
  <1> HIDE DEF Goto
  <1>5. "report" \in WorkerPcs \ {"get"}
    BY DEF WorkerPcs
  <1>6. verdict' \in [File -> {"none", "passed", "failed"}]
        /\ verdict'[n] = v /\ \A f \in File \ {n} : verdict'[f] = verdict[f]
    BY <1>2, <1>3 DEF TidyInv, TidyTypeOK
  <1>7. /\ worker'[w] = [pc |-> "report", name |-> n]
        /\ \A u \in Worker \ {w} : worker'[u] = worker[u]
        /\ \A u \in Worker : worker'[u].name = worker[u].name
        /\ Queued' = Queued
    BY <1>1, <1>5, GotoPlaced DEF Queued
  <1>8. TidyTypeOK' /\ TasksCounted'
    <2>1. worker' \in [Worker -> [pc : WorkerPcs, name : File \cup {NoFile}]] /\ TasksCounted'
      BY <1>1, <1>5, GotoPlaced
    <2> QED BY <1>1, <1>2, <1>3, <1>4, <1>6, <2>1 DEF TidyInv, TidyTypeOK, max_task
  <1>9. NoneUnmatched'
    BY <1>1 DEF TidyInv, Placed, NoneUnmatched
  <1>10. FailedExact'
    <2>1. failed_files = {f \in File : verdict[f] = "failed"} /\ verdict[n] # "failed"
      <3>1. verdict[n] = "none"
        BY <1>1, <1>2 DEF TidyInv, TidyTypeOK, Placed, Verdicts
      <3> QED BY <3>1 DEF TidyInv, Placed, FailedExact
    <2> QED BY <1>2, <1>3, <1>6, <2>1 DEF FailedExact
  <1>11. NoneForgotten'
    BY <1>1, <1>3, <1>6, <1>7 DEF TidyInv, Placed, NoneForgotten
  <1>12. Verdicts'
    <2>1. \A u \in Worker \ {w} : worker[u].name # n
      BY <1>2 DEF TidyInv, Placed, OneHolder, File
    <2>2. Verdicts
      BY DEF TidyInv, Placed
    <2> QED BY <1>1, <1>2, <1>6, <1>7, <2>1, <2>2 DEF Verdicts
  <1>13. Checking'
    <2>1. \A u \in Worker : worker[u].pc = "report" => worker[u].name \in File
      BY DEF TidyInv, TidyTypeOK, Placed, NamesHeld
    <2> QED BY <1>1, <1>3, <1>6, <1>7, <2>1 DEF TidyInv, Placed, Checking
  <1>14. Placed'
    BY <1>1, <1>5, <1>9, <1>10, <1>11, <1>12, <1>13, GotoPlaced DEF Placed
  <1>15. Reported'
    <2>1. fixes \subseteq yaml => fixes' \subseteq yaml'
      BY <1>4
    <2> QED BY <1>1, <2>1, NotQuiet, ReportedKept
  <1> QED BY <1>8, <1>14, <1>15 DEF TidyInv

\* task_done after a skip or a report: the file leaves the thread's hands settled.
LEMMA TaskDoneInv ==
    ASSUME TidyInv, NEW w \in Worker, TaskDone(w),
           worker[w].pc = "report" \/ (worker[w].pc = "start" /\ files[worker[w].name] # "checked"),
           UNCHANGED <<args, files, main, next, task_queue, failed_files, output, yaml,
                       verdict, fixes>>
    PROVE  TidyInv'
  <1> DEFINE n == worker[w].name
  <1>1. /\ unfinished' = unfinished - 1
        /\ worker' = [worker EXCEPT ![w] = [pc |-> "get", name |-> NoFile]]
    BY DEF TaskDone
  <1>2. /\ worker'[w] = [pc |-> "get", name |-> NoFile]
        /\ \A v \in Worker \ {w} : worker'[v] = worker[v]
    BY <1>1 DEF TidyInv, TidyTypeOK
  <1>3. n \in File /\ (files[n] = "checked" => verdict[n] # "none")
    BY DEF TidyInv, TidyTypeOK, Placed, NamesHeld, Checking
  <1>4. Cardinality(Busy') = Cardinality(Busy) - 1 /\ Cardinality(Busy) \in Nat \ {0}
    <2>1. w \in Busy
      BY DEF Busy
    <2> QED BY <1>1, <2>1, BusyShrinks, BusyFinite, FS_EmptySet DEF TidyInv
  <1>5. TasksCounted' /\ unfinished' \in Nat
    <2>1. unfinished = Len(task_queue) + Cardinality(Busy) /\ Len(task_queue) \in Nat
      BY DEF TidyInv, TidyTypeOK, TasksCounted
    <2> QED BY <1>1, <1>4, <2>1, BusyFinite DEF TasksCounted
  <1>6. TidyTypeOK'
    BY <1>1, <1>5 DEF TidyInv, TidyTypeOK, WorkerPcs, max_task
  <1>7. Queued' = Queued
    BY DEF Queued
  <1>8. NamesHeld' /\ OneHolder' /\ HeldTaken'
    BY <1>2, <1>7 DEF TidyInv, Placed, NamesHeld, OneHolder, HeldTaken
  <1>9. QueueOrdered' /\ NoneUnmatched' /\ FailedExact'
    BY DEF TidyInv, Placed, QueueOrdered, NoneUnmatched, FailedExact
  <1>10. NoneForgotten'
    BY <1>2, <1>3, <1>7 DEF TidyInv, Placed, NoneForgotten
  <1>11. Verdicts'
    BY <1>2, <1>7 DEF TidyInv, Placed, Verdicts, File
  <1>12. Checking'
    BY <1>2 DEF TidyInv, Placed, Checking
  <1>13. Reported'
    BY NotQuiet, ReportedKept
  <1> QED BY <1>5, <1>6, <1>8, <1>9, <1>10, <1>11, <1>12, <1>13 DEF TidyInv, Placed

LEMMA SkipInv == ASSUME TidyInv, NEW w \in Worker, Skip(w) PROVE TidyInv'
  BY TaskDoneInv DEF Skip

LEMMA ReportInv == ASSUME TidyInv, NEW w \in Worker, Report(w) PROVE TidyInv'
  <1>1. CASE TaskDone(w)
    BY <1>1, TaskDoneInv DEF Report
  <1>2. CASE Goto(w, "dead") /\ UNCHANGED unfinished
    <2>1. /\ worker[w].pc = "report"
          /\ UNCHANGED <<args, files, main, next, task_queue, unfinished, failed_files,
                         return_code, tmpdir, yaml, mergefile, applied, verdict, fixes>>
      BY <1>2 DEF Report
    <2> HIDE DEF Goto
    <2>2. "dead" \in WorkerPcs \ {"get"}
      BY DEF WorkerPcs
    <2>3. TidyTypeOK' /\ TasksCounted'
      BY <1>2, <2>1, <2>2, GotoPlaced DEF TidyInv, TidyTypeOK, max_task
    <2>4. /\ worker'[w] = [pc |-> "dead", name |-> worker[w].name]
          /\ \A v \in Worker \ {w} : worker'[v] = worker[v]
          /\ \A v \in Worker : worker'[v].name = worker[v].name
          /\ Queued' = Queued
      BY <1>2, <2>1, <2>2, GotoPlaced DEF Queued
    <2>5. NoneUnmatched' /\ FailedExact'
      BY <2>1 DEF TidyInv, Placed, NoneUnmatched, FailedExact
    <2>6. NoneForgotten'
      BY <2>1, <2>4 DEF TidyInv, Placed, NoneForgotten
    <2>7. Verdicts'
      BY <2>1, <2>4 DEF TidyInv, Placed, Verdicts
    <2>8. Checking'
      BY <2>1, <2>4 DEF TidyInv, Placed, Checking
    <2>9. Placed'
      BY <1>2, <2>1, <2>2, <2>5, <2>6, <2>7, <2>8, GotoPlaced DEF Placed
    <2>10. Reported'
      BY <2>1, NotQuiet, ReportedKept
    <2> QED BY <2>3, <2>9, <2>10 DEF TidyInv
  <1> QED BY <1>1, <1>2 DEF Report

-----------------------------------------------------------------------------
(* The steps of main.                                                      *)

LEMMA TidyInitInv == Init => TidyInv
  <1> SUFFICES ASSUME Init PROVE TidyInv
    OBVIOUS
  <1> USE DEF Init
  <1>1. Busy = {} /\ Queued = {} /\ Cardinality(Busy) = 0
    <2>1. Busy = {} /\ Queued = {}
      BY DEF Busy, Queued
    <2> QED BY <2>1, FS_EmptySet
  <1>2. max_task \in Nat
    BY TidyAssumption, FS_CardinalityType DEF max_task
  <1>3. TidyTypeOK
    <2>1. next \in 1..(NumFiles + 1)
      BY TidyAssumption
    <2>2. task_queue \in Seq(File) /\ Len(task_queue) <= max_task
      BY <1>2
    <2>3. worker \in [Worker -> [pc : WorkerPcs, name : File \cup {NoFile}]]
      BY DEF WorkerPcs
    <2>4. verdict \in [File -> {"none", "passed", "failed"}]
      OBVIOUS
    <2> QED BY <2>1, <2>2, <2>3, <2>4 DEF TidyTypeOK, MainPcs
  <1>4. TasksCounted
    BY <1>1 DEF TasksCounted
  <1>5. QueueOrdered /\ NamesHeld /\ OneHolder /\ HeldTaken /\ Verdicts /\ Checking /\ FailedExact
    BY DEF QueueOrdered, NamesHeld, OneHolder, HeldTaken, Verdicts, Checking, FailedExact
  <1>6. NoneUnmatched /\ NoneForgotten
    BY TidyAssumption DEF NoneUnmatched, NoneForgotten, File
  <1>7. Reported
    BY DEF Reported, MainAt, FixesKept, CodeExact, CleanUpUndisturbed, AfterJoin
  <1> QED BY <1>3, <1>4, <1>5, <1>6, <1>7 DEF TidyInv, Placed

\* A step of main that leaves the loop and the threads alone.
LEMMA PlacedKept ==
    ASSUME TidyInv, UNCHANGED <<args, files, next, threads>>
    PROVE  TasksCounted' /\ Placed' /\ UNCHANGED Busy
  <1>1. Busy' = Busy /\ Queued' = Queued
    BY DEF Busy, Queued
  <1>2. TasksCounted'
    BY <1>1 DEF TidyInv, TasksCounted
  <1>3. QueueOrdered' /\ NamesHeld' /\ OneHolder' /\ HeldTaken'
    BY <1>1 DEF TidyInv, Placed, QueueOrdered, NamesHeld, OneHolder, HeldTaken
  <1>4. NoneUnmatched' /\ NoneForgotten' /\ Verdicts' /\ Checking' /\ FailedExact'
    BY <1>1 DEF TidyInv, Placed, NoneUnmatched, NoneForgotten, Verdicts, Checking, FailedExact
  <1> QED BY <1>1, <1>2, <1>3, <1>4 DEF Placed

LEMMA PutInv == ASSUME TidyInv, Put PROVE TidyInv'
  <1>1. /\ main = "fill" /\ next \in File /\ files[next] # "unmatched"
        /\ Len(task_queue) < max_task
        /\ task_queue' = Append(task_queue, next)
        /\ unfinished' = unfinished + 1 /\ next' = next + 1
        /\ UNCHANGED <<args, files, main, worker, failed_files, return_code, tmpdir, mergefile,
                       applied, yaml, verdict, fixes>>
    BY DEF Put
  <1>2. /\ task_queue \in Seq(File) /\ Len(task_queue) \in Nat /\ task_queue' \in Seq(File)
        /\ Len(task_queue') = Len(task_queue) + 1
        /\ \A i \in 1..Len(task_queue) : task_queue'[i] = task_queue[i]
        /\ task_queue'[Len(task_queue) + 1] = next
    BY <1>1 DEF TidyInv, TidyTypeOK
  <1>3. max_task \in Nat /\ max_task' = max_task
    BY TidyAssumption, FS_CardinalityType DEF max_task
  <1>4. TidyTypeOK'
    BY <1>1, <1>2, <1>3, TidyAssumption DEF TidyInv, TidyTypeOK, File
  <1>5. TasksCounted'
    <2>1. Busy' = Busy
      BY <1>1 DEF Busy
    <2> QED BY <1>1, <1>2, <2>1, BusyFinite DEF TidyInv, TasksCounted
  <1>6. \A f \in File : f \in Nat
    BY TidyAssumption DEF File
  <1>7. Queued' = Queued \cup {next} /\ QueueOrdered' /\ next \notin Queued
    <2>1. QueueOrdered
      BY DEF TidyInv, Placed
    <2>2. \A i \in 1..Len(task_queue') : i \in 1..Len(task_queue) \/ i = Len(task_queue) + 1
      BY <1>2
    <2>3. Len(task_queue) + 1 \in 1..Len(task_queue')
          /\ \A i \in 1..Len(task_queue) : i \in 1..Len(task_queue')
      BY <1>2
    <2>4. Queued' = Queued \cup {next}
      <3>1. Queued' \subseteq Queued \cup {next}
        BY <1>2, <2>2 DEF Queued
      <3>2. Queued \subseteq Queued'
        BY <1>2, <2>3 DEF Queued
      <3>3. next \in Queued'
        BY <1>2, <2>3 DEF Queued
      <3> QED BY <3>1, <3>2, <3>3
    <2>5. \A i \in 1..Len(task_queue) : task_queue[i] \in File /\ task_queue[i] < next
      BY <1>2, <2>1 DEF QueueOrdered
    <2>6. next \notin Queued
      BY <1>1, <1>6, <2>5 DEF Queued
    <2>7. \A i \in 1..Len(task_queue') : task_queue'[i] < next'
      BY <1>1, <1>2, <1>6, <2>2, <2>5
    <2>8. \A i, j \in 1..Len(task_queue') : i < j => task_queue'[i] < task_queue'[j]
      BY <1>1, <1>2, <2>1, <2>2, <2>5 DEF QueueOrdered
    <2> QED BY <2>4, <2>6, <2>7, <2>8 DEF QueueOrdered
  <1>8. \A w \in Worker : worker[w].name # NoFile => worker[w].name \in File
    BY DEF TidyInv, TidyTypeOK
  <1>9. NamesHeld' /\ OneHolder' /\ HeldTaken'
    BY <1>1, <1>6, <1>7, <1>8 DEF TidyInv, Placed, NamesHeld, OneHolder, HeldTaken
  <1>10. \A f \in File : f < next' <=> f < next \/ f = next
    BY <1>1, <1>6
  <1>11. NoneUnmatched' /\ NoneForgotten' /\ FailedExact'
    BY <1>1, <1>7, <1>10 DEF TidyInv, Placed, NoneUnmatched, NoneForgotten, FailedExact
  <1>12. Verdicts' /\ Checking'
    BY <1>1, <1>6, <1>7, <1>10 DEF TidyInv, Placed, Verdicts, Checking
  <1>13. Reported'
    BY <1>1 DEF TidyInv, Reported, MainAt, FixesKept, CodeExact, CleanUpUndisturbed, AfterJoin
  <1> QED BY <1>4, <1>5, <1>7, <1>9, <1>11, <1>12, <1>13 DEF TidyInv, Placed

LEMMA MainInv ==
    ASSUME TidyInv, StartUp \/ EndFill \/ Join \/ RemoveFiles \/ RemoveDir \/ Interrupt
    PROVE  TidyInv'
  <1>1. TidyTypeOK'
    BY DEF StartUp, EndFill, Join, RemoveFiles, RemoveDir, Interrupt, TidyInv, TidyTypeOK,
           UsesTmpdir, MainPcs, Ended, max_task
  <1>2. TasksCounted' /\ Placed'
    BY PlacedKept DEF StartUp, EndFill, Join, RemoveFiles, RemoveDir, Interrupt
  <1>3. TidyTypeOK /\ Reported
    BY DEF TidyInv
  <1>4. Reported'
    <2>1. CASE StartUp \/ Interrupt
      BY <1>3, <2>1 DEF StartUp, Interrupt, Reported, MainAt, FixesKept, CodeExact,
                        CleanUpUndisturbed, AfterJoin
    <2>2. CASE EndFill
      <3>1. next = NumFiles + 1
        BY <1>3, <2>2, TidyAssumption DEF EndFill, TidyTypeOK, File
      <3> QED BY <1>3, <2>2, <3>1 DEF EndFill, Reported, MainAt, FixesKept, CodeExact,
                                      CleanUpUndisturbed, AfterJoin
    <2>3. CASE Join
      BY <1>3, <2>3 DEF Join, Reported, MainAt, FixesKept, CodeExact, CleanUpUndisturbed,
                        AfterJoin
    <2>4. CASE RemoveFiles \/ RemoveDir
      BY <1>3, <2>4 DEF RemoveFiles, RemoveDir, Reported, MainAt, FixesKept, CodeExact,
                        CleanUpUndisturbed, AfterJoin
    <2> QED BY <2>1, <2>2, <2>3, <2>4
  <1> QED BY <1>1, <1>2, <1>4 DEF TidyInv

LEMMA FixesInv == ASSUME TidyInv, ExportFixes \/ ApplyFixes PROVE TidyInv'
  <1>1. TidyTypeOK'
    BY DEF ExportFixes, ApplyFixes, TidyInv, TidyTypeOK, UsesTmpdir, MainPcs, Ended, max_task
  <1>2. TasksCounted' /\ Placed'
    BY PlacedKept DEF ExportFixes, ApplyFixes
  <1>3. fixes \cap yaml = fixes
    BY DEF TidyInv, Reported, FixesKept, ExportFixes, ApplyFixes
  <1>4. TidyTypeOK /\ Reported
    BY DEF TidyInv
  <1>5. Reported'
    <2>1. CASE ExportFixes
      BY <1>3, <1>4, <2>1 DEF ExportFixes, Reported, MainAt, FixesKept, CodeExact,
                              CleanUpUndisturbed, AfterJoin
    <2>2. CASE ApplyFixes
      BY <1>3, <1>4, <2>2 DEF ApplyFixes, Reported, MainAt, FixesKept, CodeExact,
                              CleanUpUndisturbed, AfterJoin
    <2> QED BY <2>1, <2>2
  <1> QED BY <1>1, <1>2, <1>5 DEF TidyInv

-----------------------------------------------------------------------------
\* TidyInv is inductive.
THEOREM TidyInvariant == Spec => []TidyInv
  <1>1. TidyInv /\ [Next]_vars => TidyInv'
    <2> SUFFICES ASSUME TidyInv, [Next]_vars PROVE TidyInv'
      OBVIOUS
    <2>1. CASE UNCHANGED vars
      <3>1. TidyTypeOK'
        BY <2>1 DEF vars, TidyInv, TidyTypeOK, max_task
      <3>2. TasksCounted' /\ Placed'
        BY <2>1, PlacedKept DEF vars
      <3>3. Reported'
        BY <2>1 DEF vars, TidyInv, Reported, MainAt, FixesKept, CodeExact, CleanUpUndisturbed
      <3> QED BY <3>1, <3>2, <3>3 DEF TidyInv
    <2>2. CASE MainStep
      BY <2>2, PutInv, MainInv, FixesInv DEF MainStep
    <2>3. CASE Interrupt
      BY <2>3, MainInv
    <2>4. CASE \E w \in Worker : WorkerStep(w)
      BY <2>4, GetInv, GetTidyInvocationInv, SkipInv, StartInv, CommunicateInv, ReportInv
      DEF WorkerStep
    <2> QED BY <2>1, <2>2, <2>3, <2>4 DEF Next
  <1> QED BY <1>1, TidyInitInv, PTL DEF Spec

\* Type correctness, and with it that return_code is 0 or 1 and the queue within its limit.
THEOREM TidyTypeCorrect == Spec => []TidyTypeOK
  <1>1. TidyInv => TidyTypeOK BY DEF TidyInv
  <1> QED BY <1>1, TidyInvariant, PTL

\* The count join waits for covers the queue and every thread that has a file.
THEOREM JoinCountsAll == Spec => []TasksCounted
  <1>1. TidyInv => TasksCounted BY DEF TidyInv
  <1> QED BY <1>1, TidyInvariant, PTL

\* When join returns every file has been dealt with, and failed_files is final.
THEOREM JoinWaitsForAll == Spec => []ReportExact
  <1>1. TidyInv => ReportExact
    <2> SUFFICES ASSUME TidyInv, main \in AfterJoin
                 PROVE  /\ Busy = {} /\ task_queue = <<>>
                        /\ \A f \in File : files[f] = "checked" <=> verdict[f] # "none"
                        /\ failed_files = {f \in File : verdict[f] = "failed"}
      BY DEF ReportExact
    <2>1. Busy = {} /\ task_queue = <<>>
      BY Quiet
    <2>2. Queued = {} /\ \A w \in Worker : worker[w].name = NoFile
      BY <2>1 DEF Queued, Busy, TidyInv, Placed, NamesHeld
    <2>3. \A f \in File : f < next /\ f # NoFile
      BY TidyAssumption DEF TidyInv, Reported, MainAt, File
    <2> QED BY <2>1, <2>2, <2>3 DEF TidyInv, Placed, NoneForgotten, Verdicts, FailedExact
  <1> QED BY <1>1, TidyInvariant, PTL

\* Exit code 0 means that no file failed and no fix was lost.
THEOREM ZeroIsClean == Spec => []ZeroMeansClean
  <1>1. TidyInv /\ ReportExact => ZeroMeansClean
    <2> SUFFICES ASSUME TidyInv, ReportExact, main = "exited", return_code = 0
                 PROVE  /\ \A f \in File : files[f] = "checked" <=> verdict[f] = "passed"
                        /\ args.export => mergefile = fixes
                        /\ args.fix => applied = fixes
      BY DEF ZeroMeansClean
    <2>1. /\ failed_files = {}
          /\ args.export => mergefile = fixes
          /\ args.fix => applied = fixes
      BY DEF TidyInv, Reported, CodeExact, AfterJoin
    <2>2. \A f \in File : verdict[f] \in {"none", "passed", "failed"}
      BY DEF TidyInv, TidyTypeOK
    <2> QED BY <2>1, <2>2 DEF ReportExact, AfterJoin
  <1> QED BY <1>1, TidyInvariant, JoinWaitsForAll, PTL

\* The final clean-up meets no thread still making files.
THEOREM CleanUpIsLast == Spec => []CleanUpUndisturbed
  <1>1. TidyInv => CleanUpUndisturbed BY DEF TidyInv, Reported
  <1> QED BY <1>1, TidyInvariant, PTL
=============================================================================
