---------------------------- MODULE RunClangTidy ----------------------------
(***************************************************************************)
(* script/run_clang_tidy.py, which every lab's check-clang-tidy target     *)
(* runs: a main thread that feeds the files of the compilation database to *)
(* a bounded queue.Queue, and daemon threads that run clang-tidy on them.  *)
(*                                                                         *)
(* A file is named by its place in the database.  queue.Queue, tempfile,   *)
(* subprocess, yaml and clang-tidy itself are external: a call of theirs   *)
(* that can raise may raise here.  put with its timeout of 300 s is a wait *)
(* for room: queue.Full only makes the loop try again.  What is printed,   *)
(* the lock around printing and the unused update_progress are left out;   *)
(* failed_files, which is only printed and counted, is a set.              *)
(***************************************************************************)
EXTENDS Naturals, Sequences, FiniteSets

CONSTANTS NumFiles,   \* entries of compile_commands.json
          Worker      \* the threads; max_task is their number

ASSUME TidyAssumption ==
    NumFiles \in Nat /\ IsFiniteSet(Worker) /\ Worker # {}

VARIABLES
    args,           \* args.export_fixes (given or not) and args.fix
    files,          \* what the program makes of each file of the database
    main,           \* where the main thread is
    next,           \* the file its loop is at
    task_queue,
    unfinished,     \* the queue's count of tasks that are not done
    worker,         \* where each thread is, and name, the file it works on
    failed_files,
    return_code,
    tmpdir,         \* the temporary directory exists
    yaml,           \* the files for which it holds a yaml file
    mergefile,      \* the files whose fixes the merge file has; NoFile: not written
    applied,        \* the files whose fixes clang-apply-replacements was given
    verdict,        \* what clang-tidy returned for each file (history)
    fixes           \* the files clang-tidy suggested fixes for (history)

vars == <<args, files, main, next, task_queue, unfinished, worker, failed_files,
          return_code, tmpdir, yaml, mergefile, applied, verdict, fixes>>
threads == <<task_queue, unfinished, worker, failed_files, verdict, fixes>>
output == <<return_code, tmpdir, mergefile, applied>>

File == 1..NumFiles
NoFile == 0

max_task == Cardinality(Worker)

\* A name file_name_re does not find, one should_skip skips, and all others.
Kind == {"unmatched", "third_party", "checked"}

\* Ends: of startup, of main, by os.kill, and by an exception (KeyboardInterrupt too).
Ended == {"refused", "exited", "killed", "raised"}
MainPcs == {"startup", "fill", "join", "export", "fix", "clean", "rmdir",
            "ctrlc", "ctrlc_rmdir"} \cup Ended

\* A thread whose function raised is "dead"; it never calls task_done for its file.
WorkerPcs == {"get", "invoke", "start", "run", "report", "dead"}

UsesTmpdir == args.fix \/ args.export

Init ==
    /\ args \in [export : BOOLEAN, fix : BOOLEAN]
    /\ files \in [File -> Kind]
    /\ main = "startup"
    /\ next = 1
    /\ task_queue = <<>>
    /\ unfinished = 0
    /\ worker = [w \in Worker |-> [pc |-> "get", name |-> NoFile]]
    /\ failed_files = {}
    /\ return_code = 0
    /\ tmpdir = FALSE
    /\ yaml = {}
    /\ mergefile = {NoFile}
    /\ applied = {NoFile}
    /\ verdict = [f \in File |-> "none"]
    /\ fixes = {}

-----------------------------------------------------------------------------
(* main                                                                    *)

\* No database, or a binary that does not run: exit(1).  Else the threads start.
StartUp ==
    /\ main = "startup"
    /\ \/ main' = "refused" /\ return_code' = 1 /\ UNCHANGED tmpdir
       \/ main' = "fill" /\ tmpdir' = UsesTmpdir /\ UNCHANGED return_code
    /\ UNCHANGED <<args, files, next, threads, yaml, mergefile, applied>>

\* Variant with a fault: a queue without a bound.
PutFaulty ==
    /\ main = "fill" /\ next \in File
    /\ files[next] # "unmatched"
    /\ task_queue' = Append(task_queue, next)
    /\ unfinished' = unfinished + 1
    /\ next' = next + 1
    /\ UNCHANGED <<args, files, main, worker, failed_files, output, yaml, verdict, fixes>>

\* task_queue.put, once there is room.  For an unmatched file put_file stays False: the
\* loop never leaves the file, and there is no step.
Put ==
    /\ main = "fill" /\ next \in File
    /\ files[next] # "unmatched"
    /\ Len(task_queue) < max_task
    /\ task_queue' = Append(task_queue, next)
    /\ unfinished' = unfinished + 1
    /\ next' = next + 1
    /\ UNCHANGED <<args, files, main, worker, failed_files, output, yaml, verdict, fixes>>

EndFill ==
    /\ main = "fill" /\ next \notin File
    /\ main' = "join"
    /\ UNCHANGED <<args, files, next, threads, output, yaml>>

\* Variant with a fault: the wait is for an empty queue.
JoinFaulty ==
    /\ main = "join" /\ task_queue = <<>>
    /\ return_code' = IF failed_files # {} THEN 1 ELSE 0
    /\ main' = "export"
    /\ UNCHANGED <<args, files, next, threads, tmpdir, yaml, mergefile, applied>>

\* task_queue.join() returns.
Join ==
    /\ main = "join" /\ unfinished = 0
    /\ return_code' = IF failed_files # {} THEN 1 ELSE 0
    /\ main' = "export"
    /\ UNCHANGED <<args, files, next, threads, tmpdir, yaml, mergefile, applied>>

\* Variant with a fault: an export that raised is only reported.
ExportFixesFaulty ==
    /\ main = "export"
    /\ main' = "fix"
    /\ \/ mergefile' = (IF args.export THEN fixes \cap yaml ELSE mergefile)
       \/ args.export /\ UNCHANGED mergefile
    /\ UNCHANGED <<args, files, next, threads, return_code, tmpdir, yaml, applied>>

\* merge_replacement_files; whatever it raises, and Ctrl-C, only sets return_code.
ExportFixes ==
    /\ main = "export"
    /\ main' = "fix"
    /\ \/ /\ mergefile' = (IF args.export THEN fixes \cap yaml ELSE mergefile)
          /\ UNCHANGED return_code
       \/ /\ args.export
          /\ return_code' = 1
          /\ UNCHANGED mergefile
    /\ UNCHANGED <<args, files, next, threads, tmpdir, yaml, applied>>

\* apply_fixes.  What clang-apply-replacements itself returns is not looked at.
ApplyFixes ==
    /\ main = "fix"
    /\ main' = IF UsesTmpdir THEN "clean" ELSE "exited"
    /\ \/ /\ applied' = (IF args.fix THEN fixes \cap yaml ELSE applied)
          /\ UNCHANGED return_code
       \/ /\ args.fix
          /\ return_code' = 1
          /\ UNCHANGED applied
    /\ UNCHANGED <<args, files, next, threads, tmpdir, yaml, mergefile>>

\* The first half of shutil.rmtree: remove the files that are listed ...
RemoveFiles ==
    /\ \/ main = "clean" /\ main' = "rmdir"
       \/ main = "ctrlc" /\ main' = "ctrlc_rmdir"
    /\ yaml' = {}
    /\ UNCHANGED <<args, files, next, threads, output>>

\* ... and the second: remove the directory, which fails if a file has come since.
RemoveDir ==
    /\ main \in {"rmdir", "ctrlc_rmdir"}
    /\ IF yaml = {}
       THEN /\ tmpdir' = FALSE
            /\ main' = IF main = "rmdir" THEN "exited" ELSE "killed"
       ELSE /\ main' = "raised"
            /\ UNCHANGED tmpdir
    /\ UNCHANGED <<args, files, next, threads, return_code, yaml, mergefile, applied>>

\* Ctrl-C, which the main thread gets.  In the loop and in join the handler goes on to
\* os.kill(0, 9).  Anywhere else, in the handler too, main ends with a traceback:
\* before or after the directory is made, before or after it is removed.
Interrupt ==
    /\ \/ /\ main \in {"fill", "join"}
          /\ main' = IF UsesTmpdir THEN "ctrlc" ELSE "killed"
          /\ UNCHANGED tmpdir
       \/ /\ main \in {"startup", "export", "fix", "clean", "rmdir", "ctrlc", "ctrlc_rmdir"}
          /\ main' = "raised"
          /\ \/ UNCHANGED tmpdir
             \/ main = "startup" /\ tmpdir' = UsesTmpdir
             \/ main \in {"rmdir", "ctrlc_rmdir"} /\ yaml = {} /\ tmpdir' = FALSE
    /\ UNCHANGED <<args, files, next, threads, return_code, yaml, mergefile, applied>>

-----------------------------------------------------------------------------
(* run_tidy, in thread w                                                   *)

\* The threads are daemons: they end with the program.
At(w, place) == main \notin Ended /\ worker[w].pc = place

Goto(w, place) == worker' = [worker EXCEPT ![w].pc = place]

Get(w) ==
    /\ At(w, "get") /\ task_queue # <<>>
    /\ worker' = [worker EXCEPT ![w] = [pc |-> "invoke", name |-> Head(task_queue)]]
    /\ task_queue' = Tail(task_queue)
    /\ UNCHANGED <<args, files, main, next, unfinished, failed_files, output, yaml,
                   verdict, fixes>>

\* get_tidy_invocation: mkstemp makes an empty yaml file, or raises.
GetTidyInvocation(w) ==
    /\ At(w, "invoke")
    /\ \/ Goto(w, "start") /\ ~UsesTmpdir /\ UNCHANGED yaml
       \/ Goto(w, "start") /\ tmpdir /\ yaml' = yaml \cup {worker[w].name}
       \/ Goto(w, "dead") /\ UsesTmpdir /\ UNCHANGED yaml
    /\ UNCHANGED <<args, files, main, next, task_queue, unfinished, failed_files,
                   output, verdict, fixes>>

\* task_done, and back to the head of the loop.
TaskDone(w) ==
    /\ unfinished' = unfinished - 1
    /\ worker' = [worker EXCEPT ![w] = [pc |-> "get", name |-> NoFile]]

\* Variant with a fault: `continue' without task_done.
SkipFaulty(w) ==
    /\ At(w, "start")
    /\ files[worker[w].name] = "third_party"
    /\ worker' = [worker EXCEPT ![w] = [pc |-> "get", name |-> NoFile]]
    /\ UNCHANGED <<args, files, main, next, task_queue, unfinished, failed_files, output,
                   yaml, verdict, fixes>>

\* should_skip
Skip(w) ==
    /\ At(w, "start")
    /\ files[worker[w].name] = "third_party"
    /\ TaskDone(w)
    /\ UNCHANGED <<args, files, main, next, task_queue, failed_files, output, yaml,
                   verdict, fixes>>

\* subprocess.Popen raises when there is no clang-tidy, no memory or no descriptor.
Start(w) ==
    /\ At(w, "start")
    /\ files[worker[w].name] # "third_party"
    /\ Goto(w, "run") \/ Goto(w, "dead")
    /\ UNCHANGED <<args, files, main, next, task_queue, unfinished, failed_files,
                   output, yaml, verdict, fixes>>

\* clang-tidy ends; it may have written fixes (once more makes the file, if need be).
Communicate(w) ==
    LET name == worker[w].name
    IN  /\ At(w, "run")
        /\ Goto(w, "report")
        /\ \/ /\ verdict' = [verdict EXCEPT ![name] = "passed"]
              /\ UNCHANGED failed_files
           \/ /\ verdict' = [verdict EXCEPT ![name] = "failed"]
              /\ failed_files' = failed_files \cup {name}
        /\ \/ UNCHANGED <<fixes, yaml>>
           \/ /\ UsesTmpdir /\ tmpdir
              /\ fixes' = fixes \cup {name}
              /\ yaml' = yaml \cup {name}
        /\ UNCHANGED <<args, files, main, next, task_queue, unfinished, output>>

\* The output is decoded and printed; bytes that are not UTF-8 raise.
Report(w) ==
    /\ At(w, "report")
    /\ \/ TaskDone(w)
       \/ Goto(w, "dead") /\ UNCHANGED unfinished
    /\ UNCHANGED <<args, files, main, next, task_queue, failed_files, output, yaml,
                   verdict, fixes>>

-----------------------------------------------------------------------------
MainStep ==
    \/ StartUp \/ Put \/ EndFill \/ Join \/ ExportFixes \/ ApplyFixes
    \/ RemoveFiles \/ RemoveDir

WorkerStep(w) ==
    \/ Get(w) \/ GetTidyInvocation(w) \/ Skip(w) \/ Start(w) \/ Communicate(w) \/ Report(w)

Next == MainStep \/ Interrupt \/ \E w \in Worker : WorkerStep(w)

Spec == Init /\ [][Next]_vars

\* The threads are scheduled and clang-tidy ends; nobody has to press Ctrl-C.
FairSpec == Spec /\ WF_vars(MainStep) /\ \A w \in Worker : WF_vars(WorkerStep(w))

-----------------------------------------------------------------------------
TidyTypeOK ==
    /\ args \in [export : BOOLEAN, fix : BOOLEAN]
    /\ files \in [File -> Kind]
    /\ main \in MainPcs
    /\ next \in 1..(NumFiles + 1)
    /\ task_queue \in Seq(File) /\ Len(task_queue) <= max_task
    /\ unfinished \in Nat
    /\ worker \in [Worker -> [pc : WorkerPcs, name : File \cup {NoFile}]]
    /\ failed_files \subseteq File
    /\ return_code \in {0, 1}
    /\ tmpdir \in BOOLEAN
    /\ yaml \subseteq File
    /\ mergefile \subseteq File \cup {NoFile} /\ applied \subseteq File \cup {NoFile}
    /\ verdict \in [File -> {"none", "passed", "failed"}]
    /\ fixes \subseteq File

\* The threads that have taken a file and not called task_done for it.
Busy == {w \in Worker : worker[w].pc # "get"}

\* The count join waits for is that of the files in the queue and in a thread's hands,
\* a thread that died included.
TasksCounted == unfinished = Len(task_queue) + Cardinality(Busy)

AfterJoin == {"export", "fix", "clean", "rmdir", "exited"}

\* When main goes on after join, every file was looked at, no thread can still add to
\* failed_files or died with a file, and failed_files names the files that failed.
ReportExact ==
    main \in AfterJoin =>
        /\ Busy = {} /\ task_queue = <<>>
        /\ \A f \in File : files[f] = "checked" <=> verdict[f] # "none"
        /\ failed_files = {f \in File : verdict[f] = "failed"}

\* Exit code 0 means what a build that runs check-clang-tidy takes it for: no file
\* failed, and the fixes of all files were merged and handed on as asked.
ZeroMeansClean ==
    (main = "exited" /\ return_code = 0) =>
        /\ \A f \in File : files[f] = "checked" <=> verdict[f] = "passed"
        /\ args.export => mergefile = fixes
        /\ args.fix => applied = fixes

\* The clean-up of a run that was not interrupted meets no thread still making files:
\* the directory is empty when it is removed.
CleanUpUndisturbed == main = "rmdir" => yaml = {}

\* The program ends, unless it stands at a file the filter does not match (it then
\* loops for ever) or a thread has died with a file (join then waits for ever).
EndsUnlessStuck ==
    <>\/ main \in Ended
      \/ main = "fill" /\ next \in File /\ files[next] = "unmatched"
      \/ \E w \in Worker : worker[w].pc = "dead"
=============================================================================
