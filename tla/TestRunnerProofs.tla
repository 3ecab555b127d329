---------------------------- MODULE TestRunnerProofs ----------------------------
(***************************************************************************)
(* Theorems about TestRunner, for any jobs, any workers and any failures.  *)
(***************************************************************************)
EXTENDS TestRunner, FiniteSetTheorems, TLAPS

USE TestRunnerAssumption

-----------------------------------------------------------------------------
(* The inductive invariant.                                                *)

(* What workers have in their hands.                                       *)
Hands ==
  /\ \A w \in Worker : held[w] <= taken
  /\ \A w \in Worker : doing[w] = "waiting" <=> held[w] = 0
  /\ \A v, w \in Worker : held[v] = held[w] /\ held[v] # 0 => v = w
  /\ \A w \in Worker : doing[w] = "running" => held[w] \in Job \ Skip
  /\ \A w \in Worker : doing[w] = "exited" => held[w] \notin Job
  /\ \A w \in Worker : doing[w] = "died" => failures > 0

(* What waits in output_queue: nobody holds it, it is not collected, and   *)
(* it was broken, skipped or run.                                          *)
Waits(j) ==
  /\ j <= taken /\ status[j] = "none"
  /\ \A w \in Worker : held[w] # j
  /\ j \in broken \cup Skip \cup ran
InOutput(j) == \E i \in DOMAIN output : output[i] = j
Output ==
  /\ \A j \in Job : InOutput(j) => Waits(j)
  /\ \A i, k \in DOMAIN output : output[i] = output[k] => i = k

(* What has been collected.                                                *)
Collected ==
  \A j \in Job :
    /\ status[j] # "none" => j <= taken /\ \A w \in Worker : held[w] # j
    /\ status[j] = "SKIP" => j \in Skip
    /\ status[j] = "PASS" => j \in ran /\ returncode[j] = 0

(* The counters.                                                           *)
With(st) == {j \in Job : status[j] = st}
Counted == passed = Cardinality(With("PASS")) /\ skipped = Cardinality(With("SKIP"))

(* The main thread dispatches before it collects, counts at most one job   *)
(* at a time, and leaves no worker behind when it returns.                 *)
Closed ==
  /\ main = "dispatch" => put < Items
  /\ passed <= collected /\ skipped <= collected
  /\ main = "done" => \A w \in Worker : Ended(w)
  /\ exit # "none" => main = "done"

IInv == TypeOK /\ Hands /\ Output /\ Collected /\ Counted /\ Closed /\ SuccessMeansRan

-----------------------------------------------------------------------------
(* Facts about the constants and about sequences.                          *)

LEMMA ItemsType == Items \in Nat /\ Items > Jobs /\ Cardinality(Worker) \in Nat
<1>1. Cardinality(Worker) \in Nat /\ Cardinality(Worker) # 0
  BY FS_CardinalityType, FS_EmptySet
<1> QED BY <1>1 DEF Items

LEMMA JobIsFinite == IsFiniteSet(Job) /\ Cardinality(Job) = Jobs
BY FS_Interval DEF Job

(* The elements of a queue after Append and after Tail.                    *)
LEMMA AppendElements ==
  ASSUME NEW S, NEW s \in Seq(S), NEW x \in S
  PROVE  /\ Append(s, x) \in Seq(S)
         /\ DOMAIN s = 1..Len(s) /\ Len(s) \in Nat
         /\ DOMAIN Append(s, x) = 1..Len(s) + 1
         /\ \A i \in DOMAIN s : Append(s, x)[i] = s[i]
         /\ Append(s, x)[Len(s) + 1] = x
OBVIOUS

LEMMA TailElements ==
  ASSUME NEW S, NEW s \in Seq(S), s # <<>>
  PROVE  /\ Tail(s) \in Seq(S)
         /\ Head(s) \in S /\ Head(s) = s[1] /\ 1 \in DOMAIN s
         /\ \A i \in DOMAIN Tail(s) : i + 1 \in DOMAIN s /\ Tail(s)[i] = s[i + 1] /\ i \in Nat \ {0}
OBVIOUS

-----------------------------------------------------------------------------
(* Type correctness.                                                       *)

LEMMA TypeInit == Init => TypeOK
<1> SUFFICES ASSUME Init PROVE TypeOK
  OBVIOUS
<1>1. output \in Seq(Job) /\ entries \in [Job -> Seq(Statuses \cup {"own"})]
  <2>1. \A S : <<>> \in Seq(S)
    OBVIOUS
  <2> QED BY <2>1 DEF Init
<1>2. /\ put \in 0..Items /\ taken \in 0..put /\ held \in [Worker -> 0..Items]
      /\ collected \in 0..Jobs /\ passed \in 0..Jobs /\ skipped \in 0..Jobs
      /\ failures \in 0..MaxFailures
  BY ItemsType DEF Init
<1>3. /\ doing \in [Worker -> {"waiting", "checking", "running", "exited", "died"}]
      /\ returncode \in [Job -> Code] /\ status \in [Job -> Statuses \cup {"none"}]
      /\ broken \subseteq Job /\ ran \subseteq Job
  BY DEF Init, Code
<1> QED BY <1>1, <1>2, <1>3 DEF Init, TypeOK

LEMMA SendBackType ==
  ASSUME TypeOK, NEW w \in Worker, held[w] \in Job, SendBack(w)
  PROVE  /\ output' \in Seq(Job)
         /\ doing' \in [Worker -> {"waiting", "checking", "running", "exited", "died"}]
         /\ held' \in [Worker -> 0..Items]
<1>1. output' \in Seq(Job)
  BY AppendElements DEF TypeOK, SendBack
<1> QED BY <1>1, ItemsType DEF TypeOK, SendBack

LEMMA CollectType ==
  ASSUME TypeOK, Closed, Collect
  PROVE  TypeOK'
<1> DEFINE j == Head(output)
<1>1. Tail(output) \in Seq(Job) /\ j \in Job
  BY TailElements DEF TypeOK, Collect
<1>2. StatusOf(j) \in Statuses
  BY DEF StatusOf, Statuses
<1>3. EntriesOf(j) \in Seq(Statuses \cup {"own"})
  <2>1. <<"own">> \in Seq(Statuses \cup {"own"}) /\ <<StatusOf(j)>> \in Seq(Statuses \cup {"own"})
    BY <1>2
  <2>2. /\ <<"CRASH">> \o <<"VALGR">> \in Seq(Statuses \cup {"own"})
        /\ <<"CRASH">> \o <<>> \in Seq(Statuses \cup {"own"})
    <3>1. /\ <<"CRASH">> \in Seq(Statuses \cup {"own"})
          /\ <<"VALGR">> \in Seq(Statuses \cup {"own"})
          /\ <<>> \in Seq(Statuses \cup {"own"})
      BY DEF Statuses
    <3>2. \A S : \A s, t \in Seq(S) : s \o t \in Seq(S)
      OBVIOUS
    <3> QED BY <3>1, <3>2
  <2> QED BY <2>1, <2>2 DEF EntriesOf
<1>4. passed' \in 0..Jobs /\ skipped' \in 0..Jobs /\ collected' \in 0..Jobs
  BY DEF TypeOK, Closed, Collect
<1>5. status' \in [Job -> Statuses \cup {"none"}] /\ output' \in Seq(Job)
  BY <1>1, <1>2 DEF TypeOK, Collect
<1>6. entries' \in [Job -> Seq(Statuses \cup {"own"})] /\ main' \in {"collect", "died"}
  BY <1>1, <1>3 DEF TypeOK, Collect
<1> QED BY <1>4, <1>5, <1>6 DEF TypeOK, Collect, workers

LEMMA TypeStep ==
  ASSUME TypeOK, Hands, Closed, [Next]_vars
  PROVE  TypeOK'
<1> USE ItemsType
<1>1. CASE Dispatch
  BY <1>1 DEF Dispatch, TypeOK, Closed, workers, results
<1>2. CASE CollectBroken
  <2>1. Tail(output) \in Seq(Job)
    BY <1>2, TailElements DEF TypeOK, CollectBroken
  <2> QED BY <1>2, <2>1 DEF CollectBroken, TypeOK, workers
<1>3. CASE Collect
  BY <1>3, CollectType
<1>4. CASE Return
  BY <1>4 DEF Return, TypeOK, queues, workers, results
<1>5. CASE Interrupt
  BY <1>5 DEF Interrupt, TypeOK, queues, workers, results
<1>6. ASSUME NEW w \in Worker, Get(w) PROVE TypeOK'
  BY <1>6 DEF Get, TypeOK, results
<1>7. ASSUME NEW w \in Worker, Exit(w) PROVE TypeOK'
  BY <1>7 DEF Exit, TypeOK, queues, results
<1>8. ASSUME NEW w \in Worker, Break(w) PROVE TypeOK'
  <2>1. held[w] \in Job /\ SendBack(w)
    BY <1>8 DEF Break
  <2> QED BY <1>8, <2>1, SendBackType DEF Break, SendBack, TypeOK, results
<1>9. ASSUME NEW w \in Worker, SkipJob(w) PROVE TypeOK'
  <2>1. held[w] \in Job /\ SendBack(w)
    BY <1>9 DEF SkipJob, Job
  <2> QED BY <1>9, <2>1, SendBackType DEF SkipJob, SendBack, TypeOK, results
<1>10. ASSUME NEW w \in Worker, Launch(w) PROVE TypeOK'
  BY <1>10 DEF Launch, TypeOK, queues, results
<1>11. ASSUME NEW w \in Worker, LaunchFails(w) PROVE TypeOK'
  BY <1>11 DEF LaunchFails, TypeOK, queues, results
<1>12. ASSUME NEW w \in Worker, Finish(w) PROVE TypeOK'
  <2>1. held[w] \in Job /\ SendBack(w)
    BY <1>12 DEF Finish, Hands
  <2>2. returncode' \in [Job -> Code] /\ ran' \subseteq Job
    BY <1>12, <2>1 DEF Finish, TypeOK
  <2> QED BY <1>12, <2>1, <2>2, SendBackType DEF Finish, SendBack, TypeOK, results
<1>13. CASE UNCHANGED vars
  BY <1>13 DEF vars, queues, workers, results, TypeOK
<1> QED
  BY <1>1, <1>2, <1>3, <1>4, <1>5, <1>6, <1>7, <1>8, <1>9, <1>10, <1>11, <1>12, <1>13
  DEF Next, Main, Run

-----------------------------------------------------------------------------
(* What workers hold.                                                      *)

LEMMA SendBackHands ==
  ASSUME TypeOK, Hands, NEW w \in Worker, SendBack(w)
  PROVE  Hands'
BY DEF TypeOK, Hands, SendBack

LEMMA HandsStep ==
  ASSUME TypeOK, Hands, [Next]_vars
  PROVE  Hands'
<1>1. CASE Main \/ Interrupt \/ UNCHANGED vars
  <2>1. UNCHANGED <<taken, held, doing, failures>>
    BY <1>1 DEF Main, Dispatch, CollectBroken, Collect, Return, Interrupt, vars, queues, workers
  <2> QED BY <2>1 DEF Hands
<1>2. ASSUME NEW w \in Worker, Get(w) PROVE Hands'
  BY <1>2 DEF Get, Hands, TypeOK
<1>3. ASSUME NEW w \in Worker, Exit(w) PROVE Hands'
  BY <1>3 DEF Exit, Hands, TypeOK, queues
<1>4. ASSUME NEW w \in Worker, Break(w) \/ SkipJob(w) \/ Finish(w) PROVE Hands'
  BY <1>4, SendBackHands DEF Break, SkipJob, Finish
<1>5. ASSUME NEW w \in Worker, Launch(w) PROVE Hands'
  BY <1>5 DEF Launch, Hands, TypeOK, queues
<1>6. ASSUME NEW w \in Worker, LaunchFails(w) PROVE Hands'
  BY <1>6 DEF LaunchFails, Hands, TypeOK, queues
<1> QED BY <1>1, <1>2, <1>3, <1>4, <1>5, <1>6 DEF Next, Run

-----------------------------------------------------------------------------
(* What waits in output_queue, and what has been collected.                *)

(* A job sent back becomes the last one that waits.                        *)
LEMMA SendBackOutput ==
  ASSUME TypeOK, Hands, Output, Collected, NEW w \in Worker, SendBack(w), held[w] \in Job,
         broken \subseteq broken', ran \subseteq ran', held[w] \in broken' \cup Skip \cup ran'
  PROVE  Output'
<1>1. held[w] <= taken /\ status[held[w]] = "none" /\ held[w] # 0
  BY DEF Hands, Collected, TypeOK, Job
<1>2. \A v \in Worker : held'[v] = IF v = w THEN 0 ELSE held[v]
  BY DEF SendBack, TypeOK
<1>3. \A v \in Worker : held'[v] # held[w]
  BY <1>1, <1>2 DEF Hands
<1>4. ASSUME NEW j \in Job, InOutput(j) PROVE Waits(j)' /\ j # held[w]
  <2>1. Waits(j)
    BY <1>4 DEF Output
  <2>2. \A v \in Worker : held'[v] # j
    BY <1>2, <2>1 DEF Waits, Job
  <2> QED BY <2>1, <2>2 DEF Waits, SendBack, results
<1>5. ASSUME NEW j \in Job, j = held[w] PROVE Waits(j)'
  BY <1>1, <1>3, <1>5 DEF Waits, SendBack, results
<1>6. /\ DOMAIN output = 1..Len(output) /\ Len(output) \in Nat
      /\ DOMAIN output' = 1..Len(output) + 1
      /\ \A i \in DOMAIN output : output'[i] = output[i]
      /\ output'[Len(output) + 1] = held[w]
  BY AppendElements DEF SendBack, TypeOK
<1>7. ASSUME NEW j \in Job, InOutput(j)' PROVE InOutput(j) \/ j = held[w]
  <2>1. PICK i \in DOMAIN output' : output'[i] = j
    BY <1>7 DEF InOutput
  <2>2. i \in DOMAIN output \/ i = Len(output) + 1
    BY <1>6
  <2> QED BY <2>1, <2>2, <1>6 DEF InOutput
<1>8. \A j \in Job : InOutput(j)' => Waits(j)'
  BY <1>4, <1>5, <1>7
<1>9. ASSUME NEW i \in DOMAIN output', NEW k \in DOMAIN output', output'[i] = output'[k] PROVE i = k
  <2>1. \A x \in DOMAIN output : output[x] \in Job /\ output[x] # held[w]
    BY <1>4 DEF InOutput, TypeOK
  <2>2. (i \in DOMAIN output \/ i = Len(output) + 1) /\ (k \in DOMAIN output \/ k = Len(output) + 1)
    BY <1>6
  <2> QED BY <1>9, <2>1, <2>2, <1>6 DEF Output
<1> QED BY <1>8, <1>9 DEF Output

LEMMA TailOutput ==
  ASSUME TypeOK, Output, output # <<>>, output' = Tail(output),
         \A j \in Job : InOutput(j) /\ j # Head(output) => Waits(j)'
  PROVE  Output'
<1>1. /\ Head(output) = output[1] /\ 1 \in DOMAIN output
      /\ \A i \in DOMAIN output' :
           i + 1 \in DOMAIN output /\ output'[i] = output[i + 1] /\ i \in Nat \ {0}
  BY TailElements DEF TypeOK
<1>2. ASSUME NEW j \in Job, InOutput(j)' PROVE Waits(j)'
  <2>1. PICK i \in DOMAIN output' : output'[i] = j
    BY <1>2 DEF InOutput
  <2>2. i + 1 \in DOMAIN output /\ output[i + 1] = j /\ output[i + 1] # output[1]
    BY <1>1, <2>1 DEF Output
  <2> QED BY <1>1, <2>2 DEF InOutput
<1>3. \A i, k \in DOMAIN output' : output'[i] = output'[k] => i = k
  BY <1>1 DEF Output
<1> QED BY <1>2, <1>3 DEF Output

LEMMA SameOutput ==
  ASSUME Output, UNCHANGED <<taken, held, output, status>>, broken \subseteq broken', ran \subseteq ran'
  PROVE  Output'
BY DEF Output, Waits, InOutput

LEMMA OutputStep ==
  ASSUME TypeOK, Hands, Output, Collected, [Next]_vars
  PROVE  Output'
<1>1. CASE Dispatch \/ Return \/ Interrupt \/ UNCHANGED vars
  <2>1. UNCHANGED <<taken, held, output, status, broken, ran>>
    BY <1>1 DEF Dispatch, Return, Interrupt, vars, queues, workers, results
  <2> QED BY <2>1, SameOutput
<1>2. CASE CollectBroken
  <2>1. UNCHANGED <<taken, held, status, broken, ran>> /\ output # <<>> /\ output' = Tail(output)
    BY <1>2 DEF CollectBroken, workers
  <2>2. \A j \in Job : InOutput(j) => Waits(j)'
    BY <2>1 DEF Output, Waits
  <2> QED BY <2>1, <2>2, TailOutput
<1>3. CASE Collect
  <2>1. /\ UNCHANGED <<taken, held, broken, ran>> /\ output # <<>> /\ output' = Tail(output)
        /\ status' = [status EXCEPT ![Head(output)] = StatusOf(Head(output))]
    BY <1>3 DEF Collect, workers
  <2>2. \A j \in Job : InOutput(j) /\ j # Head(output) => Waits(j)'
    BY <2>1 DEF Output, Waits, TypeOK
  <2> QED BY <2>1, <2>2, TailOutput
<1>4. ASSUME NEW w \in Worker, Get(w) PROVE Output'
  <2>1. /\ UNCHANGED <<output, status, broken, ran>> /\ taken' = taken + 1 /\ taken \in Nat
        /\ held' = [held EXCEPT ![w] = taken + 1] /\ held \in [Worker -> Nat]
    BY <1>4, ItemsType DEF Get, TypeOK, results
  <2>2. \A j \in Job : Waits(j) => Waits(j)'
    BY <2>1 DEF Waits, Job
  <2> QED BY <2>1, <2>2 DEF Output, InOutput
<1>5. ASSUME NEW w \in Worker, Exit(w) \/ Launch(w) \/ LaunchFails(w) PROVE Output'
  <2>1. UNCHANGED <<taken, held, output, status, broken, ran>>
    BY <1>5 DEF Exit, Launch, LaunchFails, queues, results
  <2> QED BY <2>1, SameOutput
<1>6. ASSUME NEW w \in Worker, Break(w) PROVE Output'
  BY <1>6, SendBackOutput DEF Break
<1>7. ASSUME NEW w \in Worker, SkipJob(w) PROVE Output'
  BY <1>7, SendBackOutput DEF SkipJob, Job
<1>8. ASSUME NEW w \in Worker, Finish(w) PROVE Output'
  <2>1. held[w] \in Job
    BY <1>8 DEF Finish, Hands
  <2> QED BY <1>8, <2>1, SendBackOutput DEF Finish
<1> QED BY <1>1, <1>2, <1>3, <1>4, <1>5, <1>6, <1>7, <1>8 DEF Next, Main, Run

LEMMA CollectedStep ==
  ASSUME TypeOK, Hands, Output, Collected, [Next]_vars
  PROVE  Collected'
<1>1. CASE Dispatch \/ CollectBroken \/ Return \/ Interrupt \/ UNCHANGED vars
  <2>1. UNCHANGED <<taken, held, status, ran, returncode>>
    BY <1>1 DEF Dispatch, CollectBroken, Return, Interrupt, vars, queues, workers, results
  <2> QED BY <2>1 DEF Collected
<1>2. CASE Collect
  <2> DEFINE j == Head(output)
  <2>1. Waits(j) /\ j \in Job /\ j \notin broken
    <3>1. j \in Job /\ InOutput(j) /\ j \notin broken
      BY <1>2, TailElements DEF Collect, InOutput, TypeOK
    <3> QED BY <3>1 DEF Output
  <2>2. /\ StatusOf(j) = "SKIP" => j \in Skip
        /\ StatusOf(j) = "PASS" => j \in ran /\ returncode[j] = 0
    BY <2>1 DEF StatusOf, Waits
  <2>3. /\ UNCHANGED <<taken, held, ran, returncode>>
        /\ status' = [status EXCEPT ![j] = StatusOf(j)]
    BY <1>2 DEF Collect, workers
  <2> QED BY <2>1, <2>2, <2>3 DEF Collected, Waits, TypeOK
<1>3. ASSUME NEW w \in Worker, Get(w) PROVE Collected'
  BY <1>3 DEF Get, Collected, TypeOK, Job, results
<1>4. ASSUME NEW w \in Worker, Exit(w) \/ Launch(w) \/ LaunchFails(w) PROVE Collected'
  <2>1. UNCHANGED <<taken, held, status, ran, returncode>>
    BY <1>4 DEF Exit, Launch, LaunchFails, queues, results
  <2> QED BY <2>1 DEF Collected
<1>5. ASSUME NEW w \in Worker, Break(w) \/ SkipJob(w) PROVE Collected'
  <2>1. UNCHANGED <<taken, status, ran, returncode>>
    BY <1>5 DEF Break, SkipJob, SendBack, results
  <2>2. \A v \in Worker : held'[v] = held[v] \/ held'[v] = 0
    BY <1>5 DEF Break, SkipJob, SendBack, TypeOK
  <2>3. \A i \in Job : i # 0
    BY DEF Job
  <2> QED BY <2>1, <2>2, <2>3 DEF Collected
<1>6. ASSUME NEW w \in Worker, Finish(w) PROVE Collected'
  <2>1. held[w] \in Job /\ status[held[w]] = "none"
    BY <1>6 DEF Finish, Hands, Collected
  <2> QED BY <1>6, <2>1 DEF Finish, SendBack, Collected, TypeOK, Job, results
<1> QED BY <1>1, <1>2, <1>3, <1>4, <1>5, <1>6 DEF Next, Main, Run

-----------------------------------------------------------------------------
(* The counters, and what they tell at the end.                            *)

LEMMA CountedStep ==
  ASSUME TypeOK, Output, Counted, [Next]_vars
  PROVE  Counted'
<1>1. CASE Collect
  <2> DEFINE j == Head(output)
  <2>1. j \in Job /\ status[j] = "none"
    <3>1. j \in Job /\ InOutput(j)
      BY <1>1, TailElements DEF Collect, InOutput, TypeOK
    <3> QED BY <3>1 DEF Output, Waits
  <2>2. \A st \in Statuses :
          /\ IsFiniteSet(With(st))
          /\ j \notin With(st)
          /\ With(st)' = IF StatusOf(j) = st THEN With(st) \cup {j} ELSE With(st)
    <3> TAKE st \in Statuses
    <3>1. IsFiniteSet(With(st))
      BY JobIsFinite, FS_Subset DEF With
    <3>2. st # "none"
      BY DEF Statuses
    <3> QED BY <1>1, <2>1, <3>1, <3>2 DEF Collect, With, TypeOK
  <2>3. \A st \in Statuses :
          Cardinality(With(st)') = IF StatusOf(j) = st THEN Cardinality(With(st)) + 1
                                                       ELSE Cardinality(With(st))
    BY <2>2, FS_AddElement
  <2>4. "PASS" \in Statuses /\ "SKIP" \in Statuses
    BY DEF Statuses
  <2> QED BY <1>1, <2>3, <2>4 DEF Collect, Counted
<1>2. CASE ~Collect
  <2>1. UNCHANGED <<status, passed, skipped>>
    BY <1>2 DEF Next, Main, Run, Dispatch, CollectBroken, Return, Interrupt, Get, Exit, Break, SkipJob,
                Launch, LaunchFails, Finish, SendBack, vars, results
  <2> QED BY <2>1 DEF Counted, With
<1> QED BY <1>1, <1>2

(* If as many jobs passed or were skipped as there are, all of them did.   *)
LEMMA AllCounted ==
  ASSUME TypeOK, Counted, passed + skipped = Jobs
  PROVE  \A j \in Job : status[j] = "PASS" \/ status[j] = "SKIP"
<1>1. IsFiniteSet(With("PASS")) /\ IsFiniteSet(With("SKIP"))
  BY JobIsFinite, FS_Subset DEF With
<1>2. With("PASS") \cap With("SKIP") = {}
  BY DEF With
<1>3. Cardinality(With("PASS") \cup With("SKIP")) = passed + skipped
  <2> DEFINE P == With("PASS")
             S == With("SKIP")
  <2>1. Cardinality(P \cup S) = Cardinality(P) + Cardinality(S) - Cardinality(P \cap S)
    <3> HIDE DEF P, S
    <3> QED BY <1>1, FS_Union DEF P, S
  <2>2. Cardinality(P \cap S) = 0
    BY <1>2, FS_EmptySet
  <2>3. passed = Cardinality(P) /\ skipped = Cardinality(S)
    BY DEF Counted
  <2>4. passed \in Nat /\ skipped \in Nat
    BY DEF TypeOK
  <2> QED BY <2>1, <2>2, <2>3, <2>4
<1>4. With("PASS") \cup With("SKIP") = Job
  <2>1. With("PASS") \cup With("SKIP") \in SUBSET Job
    BY DEF With
  <2> QED BY <1>3, <2>1, JobIsFinite, FS_Subset
<1> QED BY <1>4 DEF With

LEMMA ClosedStep ==
  ASSUME TypeOK, Hands, Closed, [Next]_vars
  PROVE  Closed'
<1>1. CASE Dispatch
  BY <1>1, ItemsType DEF Dispatch, Closed, TypeOK, workers, results, Ended
<1>2. CASE CollectBroken \/ Collect
  BY <1>2 DEF CollectBroken, Collect, Closed, TypeOK, workers
<1>3. CASE Return
  BY <1>3 DEF Return, Closed, workers, queues, results, Ended
<1>4. CASE Interrupt \/ UNCHANGED vars
  BY <1>4 DEF Interrupt, Closed, vars, workers, queues, results, Ended
<1>5. ASSUME NEW w \in Worker, Run(w) PROVE Closed'
  <2>1. ~Ended(w) /\ UNCHANGED <<main, put, collected, passed, skipped, exit>>
    BY <1>5 DEF Run, Get, Exit, Break, SkipJob, Launch, LaunchFails, Finish, SendBack, queues, results,
                Ended
  <2> QED BY <2>1 DEF Closed, Ended
<1> QED BY <1>1, <1>2, <1>3, <1>4, <1>5 DEF Next, Main

LEMMA SuccessStep ==
  ASSUME TypeOK, Collected, Counted, Closed, SuccessMeansRan, [Next]_vars
  PROVE  SuccessMeansRan'
<1>1. CASE Return
  <2>1. UNCHANGED <<ran, returncode>> /\ exit' = IF passed + skipped = Jobs THEN "success" ELSE "failure"
    BY <1>1 DEF Return, workers
  <2> QED BY <2>1, AllCounted DEF SuccessMeansRan, Collected
<1>2. CASE ~Return /\ exit # "success"
  <2>1. exit' = exit
    BY <1>2 DEF Next, Main, Run, Dispatch, CollectBroken, Collect, Interrupt, Get, Exit, Break, SkipJob,
                Launch, LaunchFails, Finish, SendBack, vars
  <2> QED BY <1>2, <2>1 DEF SuccessMeansRan
<1>3. CASE exit = "success"
  <2>1. main = "done" /\ \A w \in Worker : Ended(w)
    BY <1>3 DEF Closed
  <2>2. UNCHANGED <<exit, ran, returncode>>
    BY <2>1 DEF Next, Main, Run, Dispatch, CollectBroken, Collect, Return, Interrupt, Get, Exit, Break,
                SkipJob, Launch, LaunchFails, Finish, SendBack, vars, workers, Ended
  <2> QED BY <2>2 DEF SuccessMeansRan
<1> QED BY <1>1, <1>2, <1>3

-----------------------------------------------------------------------------
(* The theorems.                                                           *)

LEMMA InvInit == Init => IInv
<1> SUFFICES ASSUME Init PROVE IInv
  OBVIOUS
<1>1. TypeOK
  BY TypeInit
<1>2. Hands
  <2>1. \A w \in Worker : held[w] = 0 /\ doing[w] = "waiting"
    BY DEF Init
  <2> QED BY <2>1 DEF Init, Hands, Job
<1>3. Collected /\ SuccessMeansRan
  <2>1. \A j \in Job : status[j] = "none"
    BY DEF Init
  <2> QED BY <2>1 DEF Init, Collected, SuccessMeansRan
<1>4. Output
  BY DEF Init, Output, InOutput
<1>5. Counted
  <2>1. With("PASS") = {} /\ With("SKIP") = {}
    BY DEF Init, With
  <2> QED BY <2>1, FS_EmptySet DEF Init, Counted
<1>6. Closed
  BY ItemsType DEF Init, Closed
<1> QED BY <1>1, <1>2, <1>3, <1>4, <1>5, <1>6 DEF IInv

LEMMA InvStep == IInv /\ [Next]_vars => IInv'
BY TypeStep, HandsStep, OutputStep, CollectedStep, CountedStep, ClosedStep, SuccessStep DEF IInv

THEOREM Invariance == Spec => []IInv
BY InvInit, InvStep, PTL DEF Spec

(* Every variable of test.py keeps its type.                               *)
THEOREM TypeCorrect == Spec => []TypeOK
<1>1. IInv => TypeOK
  BY DEF IInv
<1> QED BY <1>1, Invariance, PTL

(* No job is in two hands, and none is run or counted twice.               *)
THEOREM EveryJobInOneHand == Spec => []InOneHand
<1>1. IInv => InOneHand
  <2> SUFFICES ASSUME IInv PROVE InOneHand
    OBVIOUS
  <2>1. \A v, w \in Worker : HeldJob(v) /\ held[v] = held[w] => v = w
    BY DEF IInv, Hands, HeldJob, Job
  <2>2. \A i \in DOMAIN output : status[output[i]] = "none" /\ \A w \in Worker : held[w] # output[i]
    <3> TAKE i \in DOMAIN output
    <3>1. output[i] \in Job
      BY DEF IInv, TypeOK
    <3> QED BY <3>1 DEF IInv, Output, Waits, InOutput
  <2>3. \A w \in Worker : HeldJob(w) => status[held[w]] = "none"
    BY DEF IInv, Collected, HeldJob
  <2> QED BY <2>1, <2>2, <2>3 DEF IInv, Output, InOneHand
<1> QED BY <1>1, Invariance, PTL

(* test.py returns success only if every job was skipped or passed.        *)
THEOREM SuccessIsEarned == Spec => []SuccessMeansRan
<1>1. IInv => SuccessMeansRan
  BY DEF IInv
<1> QED BY <1>1, Invariance, PTL

(* When test.py removes the directory of the results nobody uses it, and   *)
(* if no worker has died all items were taken: each worker holds a break   *)
(* of its own, and there are as many as workers.                           *)
THEOREM NobodyIsLeft == Spec => []NobodyLeft
<1>1. IInv => NobodyLeft
  <2> SUFFICES ASSUME IInv, main = "done" PROVE
        (\A w \in Worker : doing[w] # "running") /\ (failures = 0 => taken = Items)
    BY DEF NobodyLeft
  <2>1. \A w \in Worker : Ended(w)
    BY DEF IInv, Closed
  <2>2. ASSUME failures = 0, taken # Items PROVE FALSE
    <3>1. taken \in Nat /\ taken < Items /\ Jobs \in Nat /\ held \in [Worker -> 0..Items]
      BY <2>2, ItemsType DEF IInv, TypeOK
    <3>2. \A w \in Worker : held[w] \in Jobs + 1..taken
      <4> TAKE w \in Worker
      <4>1. doing[w] = "exited"
        BY <2>1, <2>2 DEF IInv, Hands, Ended
      <4>2. held[w] # 0 /\ held[w] \notin Job /\ held[w] <= taken /\ held[w] \in Nat
        BY <4>1, <3>1 DEF IInv, Hands
      <4> QED BY <4>2, <3>1 DEF Job
    <3>3. held \in [Worker -> Jobs + 1..taken]
      BY <3>1, <3>2
    <3>4. IsFiniteSet(Jobs + 1..taken) /\ Cardinality(Jobs + 1..taken) < Cardinality(Worker)
      <4>1. taken \in Int /\ Jobs + 1 \in Int /\ taken < Jobs + Cardinality(Worker)
        BY <3>1 DEF Items
      <4>2. /\ IsFiniteSet(Jobs + 1..taken)
            /\ Cardinality(Jobs + 1..taken) = IF Jobs + 1 > taken THEN 0 ELSE taken - (Jobs + 1) + 1
        BY <4>1, FS_Interval
      <4>3. Cardinality(Worker) \in Nat /\ Cardinality(Worker) # 0
        BY FS_CardinalityType, FS_EmptySet
      <4> QED BY <4>1, <4>2, <4>3, <3>1
    <3>5. PICK v, w \in Worker : v # w /\ held[v] = held[w]
      BY <3>3, <3>4, FS_PigeonHole
    <3>6. held[v] # 0
      BY <3>2, <3>1
    <3> QED BY <3>5, <3>6 DEF IInv, Hands
  <2> QED BY <2>1, <2>2 DEF Ended
<1> QED BY <1>1, Invariance, PTL
=============================================================================
