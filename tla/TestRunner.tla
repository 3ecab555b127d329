------------------------------- MODULE TestRunner -------------------------------
(***************************************************************************)
(* test.py of ns-3: the main thread dispatches the test suites and         *)
(* examples to worker threads through input_queue, and collects what they  *)
(* send back through output_queue.                                         *)
(*                                                                         *)
(* What is put into input_queue is numbered in that order: the jobs, then  *)
(* one job with is_break for each worker.  Only the main thread puts, and  *)
(* the queue is first in first out, so it holds the items taken+1..put.    *)
(***************************************************************************)
EXTENDS Naturals, Sequences, FiniteSets

CONSTANTS
  Jobs,           \* number of suites and examples to run
  Suite,          \* the jobs that are test suites; the others are examples
  Skip,           \* the jobs with is_skip
  Worker,         \* the worker threads, one per processor
  MayInterrupt,   \* SIGINT may arrive
  MayMissFile,    \* a suite may return 0, 1 or 2 and leave no results file
  MaxFailures     \* bound: calls of Popen that raise an exception

ASSUME TestRunnerAssumption ==
  /\ Jobs \in Nat /\ MaxFailures \in Nat
  /\ Suite \subseteq 1..Jobs /\ Skip \subseteq 1..Jobs
  /\ IsFiniteSet(Worker) /\ Worker # {}
  /\ {MayInterrupt, MayMissFile} \subseteq BOOLEAN

Job == 1..Jobs
(* Fault: one break too few. *)
ItemsOneShort == Jobs + Cardinality(Worker) - 1
Items == Jobs + Cardinality(Worker)
Code == 0..3                       \* return codes; 3 stands for all others
Statuses == {"PASS", "FAIL", "VALGR", "CRASH", "SKIP"}

VARIABLES
  main,        \* what the main thread does
  put, taken,  \* items put into input_queue, and taken from it
  doing,       \* per worker, what it does
  held,        \* per worker, the item it works on
  threadExit,  \* thread_exit
  broken,      \* jobs whose is_break a worker has set
  ran,         \* jobs whose process has ended
  returncode,  \* per job; it begins as False, which equals 0
  output,      \* output_queue
  collected,   \* iterations of the loop that collects
  status,      \* per job, the status printed for it
  entries,     \* per job, what xml_results_file holds of it
  passed, skipped,
  exit,        \* what run_tests returned
  failures     \* calls of Popen that raised an exception

queues == <<put, taken, output>>
workers == <<doing, held, ran, returncode, broken, failures>>
results == <<collected, status, entries, passed, skipped>>
vars == <<main, queues, workers, threadExit, results, exit>>

Init ==
  /\ main = "dispatch"
  /\ put = 0 /\ taken = 0
  /\ doing = [w \in Worker |-> "waiting"]
  /\ held = [w \in Worker |-> 0]
  /\ threadExit = FALSE
  /\ broken = {} /\ ran = {}
  /\ returncode = [j \in Job |-> 0]
  /\ output = <<>>
  /\ collected = 0
  /\ status = [j \in Job |-> "none"]
  /\ entries = [j \in Job |-> <<>>]
  /\ passed = 0 /\ skipped = 0
  /\ exit = "none"
  /\ failures = 0

-----------------------------------------------------------------------------
(* The main thread.                                                        *)

(* Jobs first, then a break for every worker.                              *)
Dispatch ==
  /\ main = "dispatch"
  /\ put' = put + 1
  /\ main' = IF put' = Items THEN "collect" ELSE "dispatch"
  /\ UNCHANGED <<taken, output, workers, threadExit, results, exit>>

StatusOf(j) ==
  IF j \in Skip THEN "SKIP"
  ELSE CASE returncode[j] = 0 -> "PASS"
         [] returncode[j] = 1 -> "FAIL"
         [] returncode[j] = 2 -> "VALGR"
         [] OTHER -> "CRASH"

(* A suite wrote its own results into a file that is copied.               *)
Copied(j) == j \in Suite \ Skip /\ returncode[j] \in {0, 1, 2}
EntriesOf(j) ==
  IF Copied(j) THEN <<"own">>
  ELSE IF j \in Suite \ Skip
  THEN <<"CRASH">> \o (IF returncode[j] = 2 THEN <<"VALGR">> ELSE <<>>)
  ELSE <<StatusOf(j)>>

(* A job that comes back with is_break is ignored.                         *)
CollectBroken ==
  /\ main = "collect" /\ collected < Jobs
  /\ output # <<>> /\ Head(output) \in broken
  /\ output' = Tail(output)
  /\ collected' = collected + 1
  /\ UNCHANGED <<main, put, taken, workers, threadExit, status, entries, passed, skipped, exit>>

(* Fault: is_break is not looked at. *)
CollectUnchecked ==
  LET j == Head(output) IN
  /\ main = "collect" /\ collected < Jobs /\ output # <<>>
  /\ output' = Tail(output)
  /\ collected' = collected + 1
  /\ status' = [status EXCEPT ![j] = StatusOf(j)]
  /\ skipped' = IF StatusOf(j) = "SKIP" THEN skipped + 1 ELSE skipped
  /\ passed' = IF StatusOf(j) = "PASS" THEN passed + 1 ELSE passed
  /\ UNCHANGED <<main, put, taken, workers, threadExit, entries, exit>>

Collect ==
  LET j == Head(output) IN
  /\ main = "collect" /\ collected < Jobs
  /\ output # <<>> /\ j \notin broken
  /\ output' = Tail(output)
  /\ collected' = collected + 1
  /\ status' = [status EXCEPT ![j] = StatusOf(j)]
  /\ skipped' = IF StatusOf(j) = "SKIP" THEN skipped + 1 ELSE skipped
  /\ passed' = IF StatusOf(j) = "PASS" THEN passed + 1 ELSE passed
  /\ \/ entries' = [entries EXCEPT ![j] = EntriesOf(j)] /\ UNCHANGED main
     \/ MayMissFile /\ Copied(j) /\ main' = "died" /\ UNCHANGED entries
  /\ UNCHANGED <<put, taken, workers, threadExit, exit>>

Ended(w) == doing[w] \in {"exited", "died"}

(* Fault: the threads are not joined. *)
ReturnUnjoined ==
  /\ main = "collect" /\ collected = Jobs
  /\ main' = "done"
  /\ exit' = IF passed + skipped = Jobs THEN "success" ELSE "failure"
  /\ UNCHANGED <<queues, workers, threadExit, results>>

(* All threads have been joined; the directory of the results is removed.  *)
Return ==
  /\ main = "collect" /\ collected = Jobs
  /\ \A w \in Worker : Ended(w)
  /\ main' = "done"
  /\ exit' = IF passed + skipped = Jobs THEN "success" ELSE "failure"
  /\ UNCHANGED <<queues, workers, threadExit, results>>

(* sigint_hook.                                                            *)
Interrupt ==
  /\ MayInterrupt /\ ~threadExit /\ main \in {"dispatch", "collect"}
  /\ threadExit' = TRUE
  /\ UNCHANGED <<main, queues, workers, results, exit>>

-----------------------------------------------------------------------------
(* worker_thread.run.                                                      *)

Get(w) ==
  /\ doing[w] = "waiting" /\ taken < put
  /\ taken' = taken + 1
  /\ held' = [held EXCEPT ![w] = taken + 1]
  /\ doing' = [doing EXCEPT ![w] = "checking"]
  /\ UNCHANGED <<main, put, output, threadExit, broken, ran, returncode, results, exit, failures>>

Exit(w) ==
  /\ doing[w] = "checking" /\ held[w] \notin Job
  /\ doing' = [doing EXCEPT ![w] = "exited"]
  /\ UNCHANGED <<main, queues, held, threadExit, broken, ran, returncode, results, exit, failures>>

SendBack(w) ==
  /\ output' = Append(output, held[w])
  /\ doing' = [doing EXCEPT ![w] = "waiting"]
  /\ held' = [held EXCEPT ![w] = 0]
  /\ UNCHANGED <<main, put, taken, threadExit, results, exit, failures>>

(* Fault: the worker goes on with the job it sent back. *)
BreakAndRun(w) ==
  /\ doing[w] = "checking" /\ held[w] \in Job /\ threadExit
  /\ broken' = broken \cup {held[w]}
  /\ output' = Append(output, held[w])
  /\ doing' = [doing EXCEPT ![w] = "running"]
  /\ UNCHANGED <<main, put, taken, held, threadExit, ran, returncode, results, exit, failures>>

(* Fault: the job is not sent back. *)
BreakSilently(w) ==
  /\ doing[w] = "checking" /\ held[w] \in Job /\ threadExit
  /\ broken' = broken \cup {held[w]}
  /\ doing' = [doing EXCEPT ![w] = "waiting"]
  /\ held' = [held EXCEPT ![w] = 0]
  /\ UNCHANGED <<main, queues, threadExit, ran, returncode, results, exit, failures>>

Break(w) ==
  /\ doing[w] = "checking" /\ held[w] \in Job /\ threadExit
  /\ broken' = broken \cup {held[w]}
  /\ SendBack(w)
  /\ UNCHANGED <<ran, returncode>>

SkipJob(w) ==
  /\ doing[w] = "checking" /\ held[w] \in Skip /\ ~threadExit
  /\ SendBack(w)
  /\ UNCHANGED <<broken, ran, returncode>>

Launch(w) ==
  /\ doing[w] = "checking" /\ held[w] \in Job \ Skip /\ ~threadExit
  /\ doing' = [doing EXCEPT ![w] = "running"]
  /\ UNCHANGED <<main, queues, held, threadExit, broken, ran, returncode, results, exit, failures>>

(* An exception of Popen ends the thread, and its job is never sent back.  *)
LaunchFails(w) ==
  /\ doing[w] = "running" /\ failures < MaxFailures
  /\ doing' = [doing EXCEPT ![w] = "died"]
  /\ failures' = failures + 1
  /\ UNCHANGED <<main, queues, held, threadExit, broken, ran, returncode, results, exit>>

Finish(w) ==
  /\ doing[w] = "running"
  /\ \E code \in Code : returncode' = [returncode EXCEPT ![held[w]] = code]
  /\ ran' = ran \cup {held[w]}
  /\ SendBack(w)
  /\ UNCHANGED broken

Main == Dispatch \/ CollectBroken \/ Collect \/ Return
Run(w) == Get(w) \/ Exit(w) \/ Break(w) \/ SkipJob(w) \/ Launch(w) \/ LaunchFails(w) \/ Finish(w)
Next == Main \/ Interrupt \/ \E w \in Worker : Run(w)

(* Threads that can run do: a process that was launched ends.              *)
Fairness == WF_vars(Main) /\ \A w \in Worker : WF_vars(Run(w))
Spec == Init /\ [][Next]_vars /\ Fairness

-----------------------------------------------------------------------------
(* Correctness.                                                            *)

(* The variables of run_tests and worker_thread keep their types.          *)
TypeOK ==
  /\ main \in {"dispatch", "collect", "died", "done"}
  /\ put \in 0..Items /\ taken \in 0..put
  /\ doing \in [Worker -> {"waiting", "checking", "running", "exited", "died"}]
  /\ held \in [Worker -> 0..Items]
  /\ threadExit \in BOOLEAN
  /\ broken \subseteq Job /\ ran \subseteq Job
  /\ returncode \in [Job -> Code]
  /\ output \in Seq(Job)
  /\ collected \in 0..Jobs
  /\ status \in [Job -> Statuses \cup {"none"}]
  /\ entries \in [Job -> Seq(Statuses \cup {"own"})]
  /\ passed \in 0..Jobs /\ skipped \in 0..Jobs
  /\ exit \in {"none", "success", "failure"}
  /\ failures \in 0..MaxFailures

(* A job is in one place at a time: a worker has it, or it waits in        *)
(* output_queue, or it was collected.  No job is run or counted twice.     *)
HeldJob(w) == held[w] \in Job
InOneHand ==
  /\ \A v, w \in Worker : HeldJob(v) /\ held[v] = held[w] => v = w
  /\ \A i, k \in DOMAIN output : output[i] = output[k] => i = k
  /\ \A i \in DOMAIN output :
       /\ status[output[i]] = "none"
       /\ \A w \in Worker : held[w] # output[i]
  /\ \A w \in Worker : HeldJob(w) => status[held[w]] = "none"

(* run_tests returns success only if every job was skipped or ran and      *)
(* returned 0: not when an interrupt kept one from running, although its   *)
(* returncode still equals 0.                                              *)
SuccessMeansRan ==
  exit = "success" => \A j \in Job : j \in Skip \/ (j \in ran /\ returncode[j] = 0)

(* The directory of the results is removed only when no worker can write   *)
(* into it, and every item has been taken then unless a thread has died.   *)
NobodyLeft ==
  main = "done" => /\ \A w \in Worker : doing[w] # "running"
                   /\ failures = 0 => taken = Items

(* Every worker ends, whether the main thread died, jobs were interrupted  *)
(* or other workers died: there is a break for each of them.  The main     *)
(* thread ends too, unless a worker died with a job in its hand: then it   *)
(* waits in output_queue.get for ever.                                     *)
WorkersEnd == <>(\A w \in Worker : Ended(w))
MainEnds == <>(main \in {"died", "done"} \/ failures > 0)
ThreadsEnd == WorkersEnd /\ MainEnds
=============================================================================
