------------------------- MODULE TestRunnerTheorems -------------------------
(***************************************************************************)
(* What the test driver promises, for any number of workers and tests: an  *)
(* exit status of 0 means that all tests passed, an interrupt stops the    *)
(* work, and what is copied into the results is whole.                     *)
(*                                                                         *)
(* The argument follows a job from queue to queue.  OnePlace says that it  *)
(* is in one place only, so that it is collected once and its process is   *)
(* started once; GoodAreCounted says that the count of passed and skipped  *)
(* tests is the number of jobs that have been collected and were good.     *)
(***************************************************************************)
EXTENDS TestRunner, OperatorTheorems

\* Where a job is: it waits in input_queue, a worker holds it, or it was reported.
Waits(j) == Count(inputQueue, j)
Reported(j) == Count(outputQueue, j)
Holds(w, j) == pc[w] \in {"check", "launch", "wait"} /\ job[w] = j
Gone(j) == Waits(j) = 0 /\ Reported(j) = 0 /\ \A w \in Worker : ~Holds(w, j)

\* A dispatched job is in one place at most, and another one nowhere.
OnePlace ==
    \A j \in Job :
        /\ Waits(j) + Reported(j) <= 1
        /\ \A w \in Worker : Holds(w, j) => Waits(j) + Reported(j) = 0
        /\ \A v, w \in Worker : Holds(v, j) /\ Holds(w, j) => v = w
        /\ j > jobs => Gone(j)

\* A worker past Get holds a job, not a break job.
HoldsAJob == \A w \in Worker : pc[w] \in {"check", "launch", "wait"} => job[w] \in Job

\* Break jobs follow the last job, and the loop over the results ends with it.
Dispatched ==
    /\ breaks > 0 => jobs = NumJobs
    /\ finished = "returned" => jobs = NumJobs

\* A tally never counts more results than were collected.
TallyIsBounded == \A s \in Status : tally[s] <= collected

\* A job that no worker has reported did not run yet; one that was reported and not
\* thrown back or skipped did; and the status of a job that passed is its own.
RunsAreRecorded ==
    \A j \in Job :
        /\ Waits(j) > 0 \/ (\E w \in Worker : Holds(w, j)) \/ j > jobs => j \notin decoded
        /\ \/ j > jobs \/ Waits(j) > 0 \/ \E w \in Worker : Holds(w, j)
           \/ j \in isBreak \/ j \in Skip
           \/ outcome[j] # NotRun
        /\ outcome[j] # NotRun /\ returncode[j] = 0 => outcome[j] = 0

\* A worker that is about to launch looked at thread_exit before the interrupt.
LaunchesAreEarly ==
    \A w \in Worker :
        /\ lateLaunches[w] \in 0..1
        /\ ~threadExit \/ pc[w] = "launch" => lateLaunches[w] = 0

\* A results file that is cut off belongs to a crash, and a copied one is settled.
FilesAreSettled ==
    /\ \A j \in Job : file[j] = "partial" /\ j \in decoded => returncode[j] = Crash
    /\ \A j \in appended : j \in 1..jobs /\ Gone(j) /\ (file[j] = "complete" \/ j \notin decoded)

\* Jobs that were collected and count as passed or skipped.
Good(j) == j \in Skip \/ returncode[j] = 0
GoodJobs == {j \in 1..jobs : Gone(j) /\ j \notin isBreak /\ Good(j)}
GoodAreCounted == tally["PASS"] + tally["SKIP"] = Cardinality(GoodJobs)

IInv ==
    /\ TypeOK
    /\ OnePlace
    /\ HoldsAJob
    /\ Dispatched
    /\ TallyIsBounded
    /\ RunsAreRecorded
    /\ LaunchesAreEarly
    /\ FilesAreSettled
    /\ GoodAreCounted

-----------------------------------------------------------------------------
(* Where the jobs go. *)

\* Places are counted in natural numbers.
LEMMA PlacesType ==
    ASSUME TypeOK, NEW j
    PROVE  Waits(j) \in Nat /\ Reported(j) \in Nat
BY CountType DEF TypeOK, Waits, Reported

\* The status of a job counts as passed or skipped exactly when the job is good.
LEMMA GoodStatus ==
    ASSUME TypeOK, NEW j \in Job
    PROVE  /\ StatusOf(j) \in Status
           /\ StatusOf(j) \in {"PASS", "SKIP"} <=> Good(j)
<1>1. CASE j \in Skip
  BY <1>1 DEF StatusOf, Status, Good
<1>2. CASE j \notin Skip /\ returncode[j] \in {0, 1, 2}
  BY <1>2 DEF StatusOf, Status, Good
<1>3. CASE j \notin Skip /\ returncode[j] \notin {0, 1, 2}
  BY <1>3 DEF StatusOf, Status, Good
<1> QED
  BY <1>1, <1>2, <1>3

\* Dispatch puts the next job in input_queue.
DispatchedNext ==
    /\ jobs' = jobs + 1
    /\ \A j \in Job :
        /\ Waits(j)' = Waits(j) + (IF j = jobs + 1 THEN 1 ELSE 0)
        /\ Reported(j)' = Reported(j)
        /\ \A v \in Worker : Holds(v, j)' <=> Holds(v, j)

\* Worker w takes job k.
Taken(w, k) ==
    /\ jobs' = jobs /\ Waits(k) > 0
    /\ \A j \in Job :
        /\ Waits(j)' = Waits(j) - (IF j = k THEN 1 ELSE 0)
        /\ Reported(j)' = Reported(j)
        /\ \A v \in Worker : Holds(v, j)' <=> Holds(v, j) \/ (v = w /\ j = k)

\* Worker w reports job k.
HandedBack(w, k) ==
    /\ jobs' = jobs /\ Holds(w, k)
    /\ \A j \in Job :
        /\ Waits(j)' = Waits(j)
        /\ Reported(j)' = Reported(j) + (IF j = k THEN 1 ELSE 0)
        /\ \A v \in Worker : Holds(v, j)' <=> Holds(v, j) /\ v # w

\* Job k is collected.
Fetched(k) ==
    /\ jobs' = jobs /\ Reported(k) > 0
    /\ \A j \in Job :
        /\ Waits(j)' = Waits(j)
        /\ Reported(j)' = Reported(j) - (IF j = k THEN 1 ELSE 0)
        /\ \A v \in Worker : Holds(v, j)' <=> Holds(v, j)

\* Nothing moves.
AllStay ==
    /\ jobs' = jobs
    /\ \A j \in Job :
        /\ Waits(j)' = Waits(j)
        /\ Reported(j)' = Reported(j)
        /\ \A v \in Worker : Holds(v, j)' <=> Holds(v, j)

LEMMA DispatchMoves ==
    ASSUME TypeOK, Dispatch
    PROVE  DispatchedNext /\ jobs + 1 \in Job
<1>1. inputQueue \in Seq(Job \cup {BreakJob}) /\ jobs + 1 \in Job
  BY TestRunnerAssumption DEF TypeOK, Dispatch, Job
<1>2. \A j \in Job : Waits(j)' = Waits(j) + (IF jobs + 1 = j THEN 1 ELSE 0)
  BY <1>1, CountAppend DEF Dispatch, Waits
<1>3. UNCHANGED <<outputQueue, pc, job>> /\ jobs' = jobs + 1
  BY DEF Dispatch
<1> QED
  BY <1>1, <1>2, <1>3 DEF DispatchedNext, Reported, Holds

LEMMA BreakMoves ==
    ASSUME TypeOK, DispatchBreak
    PROVE  AllStay
<1>1. inputQueue \in Seq(Job \cup {BreakJob}) /\ BreakJob \notin Job
  BY TestRunnerAssumption DEF TypeOK, Job, BreakJob
<1>2. \A j \in Job : Count(inputQueue', j) = Count(inputQueue, j) + 0
  BY <1>1, CountAppend DEF DispatchBreak
<1>3. \A j \in Job : Waits(j)' = Waits(j)
  BY <1>2, PlacesType DEF Waits
<1>4. UNCHANGED <<outputQueue, pc, job, jobs>>
  BY DEF DispatchBreak
<1> QED
  BY <1>3, <1>4 DEF AllStay, Reported, Holds

LEMMA GetMoves ==
    ASSUME TypeOK, NEW w \in Worker, Get(w)
    PROVE  \/ AllStay /\ pc' = [pc EXCEPT ![w] = "exited"]
           \/ \E k \in Job : Taken(w, k) /\ pc' = [pc EXCEPT ![w] = "check"]
<1> DEFINE h == Head(inputQueue)
<1>1. inputQueue \in Seq(Job \cup {BreakJob}) /\ inputQueue # <<>> /\ h \in Job \cup {BreakJob}
  BY DEF TypeOK, Get
<1>2. \A j : Count(inputQueue', j) = Count(inputQueue, j) - (IF h = j THEN 1 ELSE 0)
  BY <1>1, CountTail DEF Get
<1>3. /\ pc[w] = "get" /\ job' = [job EXCEPT ![w] = h]
      /\ pc' = [pc EXCEPT ![w] = IF h = BreakJob THEN "exited" ELSE "check"]
      /\ UNCHANGED <<outputQueue, jobs>>
  BY DEF Get, main
<1>4. Contains(inputQueue, h)
  BY <1>1 DEF Contains
<1>5. Count(inputQueue, h) # 0
  BY <1>1, <1>4, CountZero
<1> HIDE DEF h
<1>6. CASE h = BreakJob
  <2>1. \A j \in Job : h # j
    BY <1>6 DEF Job, BreakJob
  <2>2. \A j \in Job : Waits(j)' = Waits(j)
    BY <1>2, <2>1, PlacesType DEF Waits
  <2>3. \A j \in Job, v \in Worker : Holds(v, j)' <=> Holds(v, j)
    BY <1>3, <1>6 DEF Holds, TypeOK
  <2> QED
    BY <1>3, <1>6, <2>2, <2>3 DEF AllStay, Reported
<1>7. CASE h # BreakJob
  <2>1. h \in Job
    BY <1>1, <1>7
  <2>2. Waits(h) > 0
    BY <1>5, PlacesType DEF Waits
  <2>3. \A j \in Job : Waits(j)' = Waits(j) - (IF j = h THEN 1 ELSE 0)
    BY <1>2 DEF Waits
  <2>4. \A j \in Job, v \in Worker : Holds(v, j)' <=> Holds(v, j) \/ (v = w /\ j = h)
    BY <1>3, <1>7 DEF Holds, TypeOK
  <2>5. Taken(w, h)
    BY <1>3, <2>2, <2>3, <2>4 DEF Taken, Reported
  <2> QED
    BY <1>3, <1>7, <2>1, <2>5
<1> QED
  BY <1>6, <1>7

LEMMA ReportMoves ==
    ASSUME TypeOK, NEW w \in Worker, pc[w] \in {"check", "wait"}, job[w] \in Job, Report(w),
           pc' = [pc EXCEPT ![w] = "get"], UNCHANGED <<inputQueue, job, jobs>>
    PROVE  HandedBack(w, job[w])
<1>1. outputQueue \in Seq(Job)
  BY DEF TypeOK
<1>2. \A j \in Job : Reported(j)' = Reported(j) + (IF job[w] = j THEN 1 ELSE 0)
  BY <1>1, CountAppend DEF Report, Reported
<1>3. \A j \in Job, v \in Worker : Holds(v, j)' <=> Holds(v, j) /\ v # w
  BY DEF Holds, TypeOK
<1>4. Holds(w, job[w])
  BY DEF Holds
<1> QED
  BY <1>2, <1>3, <1>4 DEF HandedBack, Waits

LEMMA CollectMoves ==
    ASSUME TypeOK, Collect
    PROVE  Head(outputQueue) \in Job /\ Fetched(Head(outputQueue))
<1> DEFINE h == Head(outputQueue)
<1>1. outputQueue \in Seq(Job) /\ outputQueue # <<>> /\ h \in Job
  BY DEF TypeOK, Collect
<1>2. \A j : Count(outputQueue', j) = Count(outputQueue, j) - (IF h = j THEN 1 ELSE 0)
  BY <1>1, CountTail DEF Collect
<1>3. Contains(outputQueue, h)
  BY <1>1 DEF Contains
<1>4. Count(outputQueue, h) # 0
  BY <1>1, <1>3, CountZero
<1>5. UNCHANGED <<inputQueue, pc, job, jobs>>
  BY DEF Collect
<1> HIDE DEF h
<1>6. Reported(h) > 0
  BY <1>4, PlacesType DEF Reported
<1>7. Fetched(h)
  BY <1>2, <1>5, <1>6 DEF Fetched, Reported, Waits, Holds
<1> QED
  BY <1>1, <1>7 DEF h

\* However a job moves, it is in one place afterwards.
LEMMA OnePlaceMoves ==
    ASSUME TypeOK, OnePlace,
           \/ AllStay
           \/ DispatchedNext
           \/ \E w \in Worker, k \in Job : pc[w] = "get" /\ Taken(w, k)
           \/ \E w \in Worker, k \in Job : HandedBack(w, k)
           \/ \E k \in Job : Fetched(k)
    PROVE  OnePlace'
<1>0. \A j \in Job : Waits(j) \in Nat /\ Reported(j) \in Nat
  BY PlacesType
<1>1. jobs \in Nat /\ Job \subseteq Nat
  BY TestRunnerAssumption DEF TypeOK, Job
<1>2. CASE AllStay
  BY <1>0, <1>2 DEF AllStay, OnePlace, Gone
<1>3. CASE DispatchedNext
  BY <1>0, <1>1, <1>3 DEF DispatchedNext, OnePlace, Gone
<1>4. ASSUME NEW w \in Worker, NEW k \in Job, pc[w] = "get", Taken(w, k)
      PROVE  OnePlace'
  <2>1. \A j \in Job : ~Holds(w, j)
    BY <1>4 DEF Holds
  <2>2. /\ Waits(k) = 1 /\ Reported(k) = 0 /\ ~ (k > jobs)
        /\ \A v \in Worker : ~Holds(v, k)
    <3>1. Waits(k) > 0
      BY <1>4 DEF Taken
    <3>2. Waits(k) + Reported(k) <= 1
      BY DEF OnePlace
    <3>3. Waits(k) = 1 /\ Reported(k) = 0
      BY <1>0, <3>1, <3>2
    <3>4. ~ (k > jobs)
      BY <3>3 DEF OnePlace, Gone
    <3>5. \A v \in Worker : ~Holds(v, k)
      BY <3>3 DEF OnePlace
    <3> QED
      BY <3>3, <3>4, <3>5
  <2> SUFFICES ASSUME NEW j \in Job
               PROVE  /\ Waits(j)' + Reported(j)' <= 1
                      /\ \A v \in Worker : Holds(v, j)' => Waits(j)' + Reported(j)' = 0
                      /\ \A u, v \in Worker : Holds(u, j)' /\ Holds(v, j)' => u = v
                      /\ j > jobs' => Gone(j)'
    BY <1>4 DEF OnePlace
  <2>3. CASE j = k
    BY <1>4, <2>2, <2>3 DEF Taken
  <2>4. CASE j # k
    BY <1>0, <1>4, <2>4 DEF Taken, OnePlace, Gone
  <2> QED
    BY <2>3, <2>4
<1>5. ASSUME NEW w \in Worker, NEW k \in Job, HandedBack(w, k)
      PROVE  OnePlace'
  BY <1>0, <1>1, <1>5 DEF HandedBack, OnePlace, Gone
<1>6. ASSUME NEW k \in Job, Fetched(k)
      PROVE  OnePlace'
  BY <1>0, <1>1, <1>6 DEF Fetched, OnePlace, Gone
<1> QED
  BY <1>2, <1>3, <1>4, <1>5, <1>6

\* The jobs that are gone stay the same ones unless one is collected.
LEMMA GoneMoves ==
    ASSUME TypeOK, OnePlace,
           \/ AllStay
           \/ DispatchedNext
           \/ \E w \in Worker, k \in Job : Taken(w, k)
           \/ \E w \in Worker, k \in Job : HandedBack(w, k)
    PROVE  \A j \in 1..jobs : j \in Job /\ j \in 1..jobs' /\ (Gone(j)' <=> Gone(j))
<1>0. \A j \in Job : Waits(j) \in Nat /\ Reported(j) \in Nat
  BY PlacesType
<1>1. jobs \in Nat /\ 1..jobs \subseteq Job
  BY TestRunnerAssumption DEF TypeOK, Job
<1>2. CASE AllStay
  BY <1>0, <1>1, <1>2 DEF AllStay, Gone
<1>3. CASE DispatchedNext
  BY <1>0, <1>1, <1>3 DEF DispatchedNext, Gone
<1>4. ASSUME NEW w \in Worker, NEW k \in Job, Taken(w, k)
      PROVE  \A j \in 1..jobs : j \in Job /\ j \in 1..jobs' /\ (Gone(j)' <=> Gone(j))
  BY <1>0, <1>1, <1>4 DEF Taken, OnePlace, Gone
<1>5. ASSUME NEW w \in Worker, NEW k \in Job, HandedBack(w, k)
      PROVE  \A j \in 1..jobs : j \in Job /\ j \in 1..jobs' /\ (Gone(j)' <=> Gone(j))
  <2>1. \A j \in Job : Holds(w, j) => j = k
    BY <1>5 DEF HandedBack, Holds
  <2>2. Reported(k)' = Reported(k) + 1 /\ ~Gone(k) /\ jobs' = jobs
    BY <1>0, <1>5 DEF HandedBack, Gone
  <2>3. \A j \in Job : j # k => (Gone(j)' <=> Gone(j))
    BY <1>0, <1>5, <2>1 DEF HandedBack, Gone
  <2>4. ~Gone(k)'
    BY <1>0, <2>2 DEF Gone
  <2> QED
    BY <1>1, <2>2, <2>3, <2>4
<1> QED
  BY <1>2, <1>3, <1>4, <1>5

\* The number of good jobs that are gone is finite.
LEMMA GoodJobsFinite == TypeOK => IsFiniteSet(GoodJobs)
<1> SUFFICES ASSUME TypeOK PROVE IsFiniteSet(GoodJobs)
  OBVIOUS
<1>1. jobs \in Int /\ GoodJobs \in SUBSET (1..jobs)
  BY TestRunnerAssumption DEF TypeOK, GoodJobs
<1>2. IsFiniteSet(1..jobs)
  BY <1>1, FS_Interval
<1> QED
  BY <1>1, <1>2, FS_Subset

-----------------------------------------------------------------------------
(* The invariant holds initially. *)

LEMMA InitInvariant == Init => IInv
<1> SUFFICES ASSUME Init PROVE IInv
  OBVIOUS
<1>0. /\ \A j : Waits(j) = 0 /\ Reported(j) = 0
      /\ \A w \in Worker : \A j : ~Holds(w, j)
  BY CountEmpty DEF Init, Waits, Reported, Holds
<1>1. TypeOK
  <2>1. <<>> \in Seq(Job) /\ <<>> \in Seq(Job \cup {BreakJob}) /\ Cardinality(Worker) \in Nat
    BY FS_CardinalityType, TestRunnerAssumption
  <2>2. /\ jobs \in 0..NumJobs /\ collected \in 0..jobs /\ breaks \in 0..Cardinality(Worker)
        /\ tally \in [Status -> 0..NumJobs]
    BY <2>1, TestRunnerAssumption DEF Init
  <2> QED
    BY <2>1, <2>2 DEF Init, TypeOK, ExitStatus
<1>2. OnePlace
  BY <1>0 DEF OnePlace, Gone
<1>3. HoldsAJob /\ Dispatched /\ TallyIsBounded /\ LaunchesAreEarly
  BY TestRunnerAssumption DEF Init, HoldsAJob, Dispatched, TallyIsBounded, LaunchesAreEarly
<1>4. RunsAreRecorded
  BY DEF Init, RunsAreRecorded, Job
<1>5. FilesAreSettled
  BY DEF Init, FilesAreSettled
<1>6. GoodAreCounted
  <2>1. GoodJobs = {}
    BY DEF Init, GoodJobs
  <2> QED
    BY <2>1, FS_EmptySet DEF Init, GoodAreCounted, Status
<1> QED
  BY <1>1, <1>2, <1>3, <1>4, <1>5, <1>6 DEF IInv

-----------------------------------------------------------------------------
(* Every step preserves it. *)

\* Steps that fetch no result and end no process: the jobs that are gone, their
\* tallies and their files stand still.
LEMMA ResultsStand ==
    ASSUME IInv, TypeOK', UNCHANGED <<collected, tally, appended, returncode, processes>>,
           \/ AllStay
           \/ DispatchedNext
           \/ \E w \in Worker, k \in Job : Taken(w, k)
           \/ \E w \in Worker, k \in Job : HandedBack(w, k),
           \A j \in isBreak' : j \in isBreak \/ ~Gone(j), isBreak \subseteq isBreak'
    PROVE  TallyIsBounded' /\ FilesAreSettled' /\ GoodAreCounted'
<1>1. \A j \in 1..jobs : j \in Job /\ j \in 1..jobs' /\ (Gone(j)' <=> Gone(j))
  BY GoneMoves DEF IInv
<1>2. \A j \in Job : Gone(j)' /\ j \in 1..jobs' => j \in 1..jobs
  <2>1. jobs \in Nat
    BY TestRunnerAssumption DEF IInv, TypeOK
  <2>3. jobs' = jobs \/ (DispatchedNext /\ jobs' = jobs + 1)
    BY DEF AllStay, DispatchedNext, Taken, HandedBack
  <2>2. DispatchedNext => \A j \in Job : j = jobs + 1 => Waits(j)' # 0
    <3>1. \A j \in Job : Waits(j) \in Nat
      BY PlacesType DEF IInv
    <3> QED
      BY <3>1 DEF DispatchedNext
  <2> QED
    BY <2>1, <2>2, <2>3 DEF Gone
<1>3. GoodJobs' = GoodJobs
  <2>1. 1..jobs' \subseteq Job
    BY TestRunnerAssumption DEF TypeOK, Job
  <2>2. \A j : Good(j)' <=> Good(j)
    BY DEF Good
  <2>3. \A j \in 1..jobs : Gone(j) => (j \in isBreak' <=> j \in isBreak)
    OBVIOUS
  <2>4. \A j \in 1..jobs' : Gone(j)' => j \in 1..jobs
    BY <1>2, <2>1
  <2> QED
    BY <1>1, <2>2, <2>3, <2>4 DEF GoodJobs
<1>4. UNCHANGED <<outcome, file, decoded>>
  BY DEF processes
<1>5. FilesAreSettled'
  BY <1>1, <1>4 DEF IInv, FilesAreSettled
<1>6. TallyIsBounded' /\ GoodAreCounted'
  BY <1>3 DEF IInv, TallyIsBounded, GoodAreCounted
<1> QED
  BY <1>5, <1>6

LEMMA DispatchStep == IInv /\ Dispatch => IInv'
<1> SUFFICES ASSUME IInv, Dispatch PROVE IInv'
  OBVIOUS
<1>0. jobs + 1 \in Job /\ DispatchedNext
  BY DispatchMoves DEF IInv
<1>1. TypeOK'
  <2>1. inputQueue' \in Seq(Job \cup {BreakJob})
    BY <1>0 DEF IInv, TypeOK, Dispatch
  <2>2. jobs' \in 0..NumJobs /\ collected' \in 0..jobs'
    BY <1>0, TestRunnerAssumption DEF IInv, TypeOK, Dispatch, Job
  <2> QED
    BY <2>1, <2>2 DEF IInv, TypeOK, Dispatch, processes
<1>2. OnePlace'
  BY <1>0, OnePlaceMoves DEF IInv
<1>3. HoldsAJob' /\ Dispatched' /\ LaunchesAreEarly'
  <2>1. ~ (breaks > 0)
    BY TestRunnerAssumption DEF IInv, TypeOK, Dispatched, Dispatch
  <2> QED
    BY <2>1 DEF IInv, HoldsAJob, Dispatched, LaunchesAreEarly, Dispatch
<1>4. RunsAreRecorded'
  <2>1. \A j \in Job : Waits(j) \in Nat
    BY PlacesType DEF IInv
  <2>2. \A j \in Job : j > jobs' => j > jobs
    BY <1>0, TestRunnerAssumption DEF IInv, TypeOK, Job, DispatchedNext
  <2>3. \A j \in Job : j > jobs => j > jobs' \/ Waits(j)' > 0
    <3> TAKE j \in Job
    <3>1. jobs \in Nat /\ j \in Nat /\ jobs' = jobs + 1
      BY <1>0, TestRunnerAssumption DEF IInv, TypeOK, Job, DispatchedNext
    <3>2. j = jobs + 1 => Waits(j)' > 0
      BY <1>0, <2>1 DEF DispatchedNext
    <3> QED
      BY <3>1, <3>2
  <2>4. \A j \in Job : j # jobs + 1 => Waits(j)' = Waits(j)
    BY <1>0, <2>1 DEF DispatchedNext
  <2>5. \A j \in Job, w \in Worker : Holds(w, j)' <=> Holds(w, j)
    BY <1>0 DEF DispatchedNext
  <2>6. jobs + 1 > jobs
    BY TestRunnerAssumption DEF IInv, TypeOK
  <2>7. UNCHANGED <<isBreak, outcome, decoded, returncode>>
    BY DEF Dispatch, processes
  <2> QED
    BY <2>2, <2>3, <2>4, <2>5, <2>6, <2>7 DEF IInv, RunsAreRecorded
<1>5. TallyIsBounded' /\ FilesAreSettled' /\ GoodAreCounted'
  BY <1>0, <1>1, ResultsStand DEF Dispatch
<1> QED
  BY <1>1, <1>2, <1>3, <1>4, <1>5 DEF IInv

\* Steps that move no job and touch neither the marks nor the processes.
LEMMA NothingMoves ==
    ASSUME IInv, AllStay, TypeOK', UNCHANGED <<collected, tally, appended>>,
           UNCHANGED <<isBreak, returncode, processes>>
    PROVE  OnePlace' /\ RunsAreRecorded' /\ TallyIsBounded' /\ FilesAreSettled'
           /\ GoodAreCounted'
<1>1. OnePlace'
  BY OnePlaceMoves DEF IInv
<1>2. UNCHANGED <<isBreak, outcome, decoded, returncode, jobs>>
  BY DEF AllStay, processes
<1>3. RunsAreRecorded'
  BY <1>2 DEF IInv, RunsAreRecorded, AllStay
<1>4. TallyIsBounded' /\ FilesAreSettled' /\ GoodAreCounted'
  BY ResultsStand
<1> QED
  BY <1>1, <1>3, <1>4

\* The main thread puts break jobs in the queue, joins the workers or is interrupted.
LEMMA MainSteps == IInv /\ (DispatchBreak \/ Join \/ Interrupt) => IInv'
<1> SUFFICES ASSUME IInv, DispatchBreak \/ Join \/ Interrupt PROVE IInv'
  OBVIOUS
<1>0. Cardinality(Worker) \in Nat /\ Cardinality(Worker) > 0
  BY FS_CardinalityType, FS_EmptySet, TestRunnerAssumption
<1>1. CASE DispatchBreak
  <2>1. TypeOK'
    <3>1. inputQueue' \in Seq(Job \cup {BreakJob}) /\ breaks' \in 0..Cardinality(Worker)
      BY <1>0, <1>1 DEF IInv, TypeOK, DispatchBreak
    <3> QED
      BY <1>1, <3>1 DEF IInv, TypeOK, DispatchBreak, processes
  <2>2. HoldsAJob' /\ Dispatched' /\ LaunchesAreEarly'
    BY <1>1 DEF IInv, HoldsAJob, Dispatched, LaunchesAreEarly, DispatchBreak
  <2>3. AllStay
    BY <1>1, BreakMoves DEF IInv
  <2>4. UNCHANGED <<collected, tally, appended, isBreak, returncode, processes>>
    BY <1>1 DEF DispatchBreak
  <2> QED
    BY <2>1, <2>2, <2>3, <2>4, NothingMoves DEF IInv
<1>2. CASE Join \/ Interrupt
  <2>1. /\ UNCHANGED <<jobs, breaks, collected, tally, appended, inputQueue, outputQueue, pc,
                       job, isBreak, returncode, processes, lateLaunches>>
        /\ finished' \in {finished, "returned"} /\ threadExit' \in {threadExit, TRUE}
        /\ finished' = "returned" => finished = "returned" \/ breaks = Cardinality(Worker)
    BY <1>2 DEF Join, Interrupt, main, queues
  <2>6. ~threadExit' => ~threadExit
    BY <1>2 DEF Join, Interrupt
  <2>2. TypeOK'
    BY <2>1 DEF IInv, TypeOK, processes
  <2>3. HoldsAJob' /\ Dispatched'
    BY <1>0, <2>1 DEF IInv, HoldsAJob, Dispatched
  <2>4. LaunchesAreEarly'
    BY <2>1, <2>6 DEF IInv, LaunchesAreEarly
  <2>5. AllStay
    BY <2>1 DEF AllStay, Waits, Reported, Holds
  <2> QED
    BY <2>1, <2>2, <2>3, <2>4, <2>5, NothingMoves DEF IInv
<1> QED
  BY <1>1, <1>2

\* A worker takes a job, or leaves with a break job.
LEMMA GetStep ==
    ASSUME IInv, NEW w \in Worker, Get(w)
    PROVE  IInv'
<1>1. TypeOK'
  <2>1. Head(inputQueue) \in Job \cup {BreakJob} /\ inputQueue' \in Seq(Job \cup {BreakJob})
    BY DEF IInv, TypeOK, Get
  <2> QED
    BY <2>1 DEF IInv, TypeOK, Get, main, processes
<1>2. HoldsAJob' /\ Dispatched' /\ pc[w] = "get"
  BY DEF IInv, TypeOK, HoldsAJob, Dispatched, Get, main
<1>3. LaunchesAreEarly'
  BY DEF IInv, TypeOK, LaunchesAreEarly, Get
<1>4. UNCHANGED <<collected, tally, appended, isBreak, returncode, processes>>
  BY DEF Get, main
<1>5. CASE AllStay
  BY <1>1, <1>2, <1>3, <1>4, <1>5, NothingMoves DEF IInv
<1>6. ASSUME NEW k \in Job, Taken(w, k)
      PROVE  IInv'
  <2>1. OnePlace'
    BY <1>2, <1>6, OnePlaceMoves DEF IInv
  <2>2. TallyIsBounded' /\ FilesAreSettled' /\ GoodAreCounted'
    BY <1>1, <1>4, <1>6, ResultsStand
  <2>3. RunsAreRecorded'
    <3>1. \A j \in Job : Waits(j) \in Nat
      BY PlacesType DEF IInv
    <3>2. jobs' = jobs /\ Waits(k) > 0 /\ Holds(w, k)'
      BY <1>6 DEF Taken
    <3>3. \A j \in Job : j # k => /\ Waits(j)' = Waits(j)
                                  /\ \A v \in Worker : Holds(v, j)' <=> Holds(v, j)
      BY <1>6, <3>1 DEF Taken
    <3>4. UNCHANGED <<isBreak, outcome, decoded, returncode>>
      BY <1>4 DEF processes
    <3> QED
      BY <3>2, <3>3, <3>4 DEF IInv, RunsAreRecorded
  <2> QED
    BY <1>1, <1>2, <1>3, <2>1, <2>2, <2>3 DEF IInv
<1> QED
  BY <1>5, <1>6, GetMoves DEF IInv

\* When job k is handed back it is with the results only; no other job moves.
LEMMA HandedBackEffect ==
    ASSUME IInv, NEW w \in Worker, NEW k \in Job, HandedBack(w, k)
    PROVE  /\ Waits(k)' = 0 /\ (\A v \in Worker : ~Holds(v, k)') /\ ~(k > jobs')
           /\ k \notin decoded /\ ~Gone(k) /\ ~Gone(k)'
           /\ \A j \in Job : j # k =>
                /\ Waits(j)' = Waits(j)
                /\ \A v \in Worker : Holds(v, j)' <=> Holds(v, j)
<1>0. \A j \in Job : Waits(j) \in Nat /\ Reported(j) \in Nat
  BY PlacesType DEF IInv
<1>1. Holds(w, k) /\ jobs' = jobs /\ Reported(k)' = Reported(k) + 1
  BY DEF HandedBack
<1>2. Waits(k) = 0 /\ \A v \in Worker : Holds(v, k) => v = w
  <2>1. Waits(k) + Reported(k) = 0
    BY <1>1 DEF IInv, OnePlace
  <2> QED
    BY <1>0, <1>1, <2>1 DEF IInv, OnePlace
<1>3. \A j \in Job : Holds(w, j) => j = k
  BY <1>1 DEF Holds
<1>4. Waits(k)' = 0 /\ \A v \in Worker : ~Holds(v, k)'
  BY <1>2 DEF HandedBack
<1>5. ~Gone(k) /\ ~Gone(k)' /\ ~(k > jobs)
  BY <1>0, <1>1 DEF IInv, OnePlace, Gone
<1>6. k \notin decoded
  BY <1>1 DEF IInv, RunsAreRecorded
<1>7. \A j \in Job : j # k =>
         Waits(j)' = Waits(j) /\ \A v \in Worker : Holds(v, j)' <=> Holds(v, j)
  BY <1>3 DEF HandedBack
<1> QED
  BY <1>1, <1>4, <1>5, <1>6, <1>7

\* A worker throws a job back, skips it or goes on to launch it.
LEMMA CheckStep ==
    ASSUME IInv, NEW w \in Worker, Check(w)
    PROVE  IInv'
<1>. PICK k \in Job : k = job[w]
  BY DEF IInv, HoldsAJob, Check
<1>0. pc[w] = "check"
  BY DEF Check
<1>1. /\ UNCHANGED <<jobs, breaks, collected, tally, appended, finished, inputQueue, threadExit,
                     job, returncode, processes, lateLaunches>>
      /\ pc' = [pc EXCEPT ![w] = "get"] \/ (pc' = [pc EXCEPT ![w] = "launch"] /\ ~threadExit)
      /\ isBreak' = isBreak \/ isBreak' = isBreak \cup {k}
      /\ \/ /\ Report(w) /\ pc' = [pc EXCEPT ![w] = "get"]
            /\ k \in isBreak' \cup Skip
         \/ /\ UNCHANGED <<isBreak, outputQueue>>
            /\ pc' = [pc EXCEPT ![w] = "launch"]
  BY DEF Check, Bounce, Interrupted, main
<1>2. TypeOK'
  <2>1. outputQueue' \in Seq(Job) /\ isBreak' \subseteq Job
    <3>1. outputQueue' = outputQueue \/ outputQueue' = Append(outputQueue, k)
      BY <1>1 DEF Report
    <3>2. Append(outputQueue, k) \in Seq(Job) /\ outputQueue \in Seq(Job)
      BY DEF IInv, TypeOK
    <3>3. isBreak' \subseteq Job
      BY <1>1 DEF IInv, TypeOK
    <3> QED
      BY <3>1, <3>2, <3>3
  <2> QED
    BY <1>1, <2>1 DEF IInv, TypeOK, processes
<1>3. HoldsAJob' /\ Dispatched'
  BY <1>0, <1>1 DEF IInv, TypeOK, HoldsAJob, Dispatched
<1>4. LaunchesAreEarly'
  BY <1>1 DEF IInv, TypeOK, LaunchesAreEarly
<1>5. CASE /\ Report(w) /\ pc' = [pc EXCEPT ![w] = "get"]
           /\ k \in isBreak' \cup Skip
  <2>1. HandedBack(w, k)
    BY <1>0, <1>1, <1>5, ReportMoves DEF IInv
  <2>2. /\ Waits(k)' = 0 /\ (\A v \in Worker : ~Holds(v, k)') /\ ~(k > jobs')
        /\ k \notin decoded /\ ~Gone(k) /\ ~Gone(k)'
        /\ \A j \in Job : j # k =>
             Waits(j)' = Waits(j) /\ \A v \in Worker : Holds(v, j)' <=> Holds(v, j)
    BY <1>0, <2>1, HandedBackEffect
  <2>3. OnePlace'
    BY <1>0, <2>1, OnePlaceMoves DEF IInv
  <2>4. TallyIsBounded' /\ FilesAreSettled' /\ GoodAreCounted'
    BY <1>0, <1>1, <1>2, <2>1, <2>2, ResultsStand
  <2>5. RunsAreRecorded'
    BY <1>1, <1>5, <2>2 DEF IInv, RunsAreRecorded, processes
  <2> QED
    BY <1>2, <1>3, <1>4, <2>3, <2>4, <2>5 DEF IInv
<1>6. CASE UNCHANGED <<isBreak, outputQueue>> /\ pc' = [pc EXCEPT ![w] = "launch"]
  <2>1. AllStay
    BY <1>0, <1>1, <1>6 DEF IInv, TypeOK, AllStay, Waits, Reported, Holds
  <2> QED
    BY <1>1, <1>2, <1>3, <1>4, <1>6, <2>1, NothingMoves DEF IInv
<1> QED
  BY <1>1, <1>5, <1>6

\* The launch of a process after the interrupt is the first one of its worker.
LEMMA LaunchStep ==
    ASSUME IInv, NEW w \in Worker, Launch(w)
    PROVE  IInv'
<1>1. LaunchesAreEarly'
  BY DEF IInv, TypeOK, LaunchesAreEarly, Launch
<1>2. TypeOK'
  <2>1. lateLaunches' \in [Worker -> Nat]
    BY DEF IInv, TypeOK, LaunchesAreEarly, Launch
  <2> QED
    BY <2>1 DEF IInv, TypeOK, Launch, main, queues, processes
<1>3. HoldsAJob' /\ Dispatched'
  BY DEF IInv, TypeOK, HoldsAJob, Dispatched, Launch, main
<1>4. AllStay
  BY DEF IInv, TypeOK, AllStay, Waits, Reported, Holds, Launch, main, queues
<1>5. UNCHANGED <<collected, tally, appended, isBreak, returncode, processes>>
  BY DEF Launch, main
<1> QED
  BY <1>1, <1>2, <1>3, <1>4, <1>5, NothingMoves DEF IInv

\* The process of a job ends: no other job's record is touched.
LEMMA FinishStep ==
    ASSUME IInv, NEW w \in Worker, Finish(w)
    PROVE  IInv'
<1>0. pc[w] = "wait"
  BY DEF Finish
<1>. PICK k \in Job : k = job[w]
  BY <1>0 DEF IInv, HoldsAJob
<1>a. PICK status \in ExitStatus, decodes \in IF k \in Garbled THEN BOOLEAN ELSE {TRUE} :
        /\ outcome' = [outcome EXCEPT ![k] = status]
        /\ returncode' = [returncode EXCEPT ![k] = ReturnCode(status, decodes)]
        /\ decoded' = IF decodes THEN decoded \cup {k} ELSE decoded
        /\ \E f \in FilesLeft(k, status) : file' = [file EXCEPT ![k] = f]
  BY Zenon DEF Finish
<1>. PICK f \in FilesLeft(k, status) : file' = [file EXCEPT ![k] = f]
  BY <1>a
<1>1. /\ decodes \in BOOLEAN
      /\ outcome' = [outcome EXCEPT ![k] = status]
      /\ returncode' = [returncode EXCEPT ![k] = ReturnCode(status, decodes)]
      /\ decoded' = IF decodes THEN decoded \cup {k} ELSE decoded
      /\ file' = [file EXCEPT ![k] = f]
  BY <1>a
<1>2. /\ UNCHANGED <<jobs, breaks, collected, tally, appended, finished, inputQueue,
                     threadExit, job, isBreak, lateLaunches>>
      /\ pc[w] = "wait" /\ pc' = [pc EXCEPT ![w] = "get"] /\ Report(w)
  BY DEF Finish, main
<1>3. HandedBack(w, k)
  BY <1>2, ReportMoves DEF IInv
<1>4. /\ Waits(k)' = 0 /\ (\A v \in Worker : ~Holds(v, k)') /\ ~(k > jobs')
      /\ k \notin decoded /\ ~Gone(k) /\ ~Gone(k)'
      /\ \A j \in Job : j # k =>
           Waits(j)' = Waits(j) /\ \A v \in Worker : Holds(v, j)' <=> Holds(v, j)
  BY <1>3, HandedBackEffect
<1>5. /\ ReturnCode(status, decodes) \in ExitStatus
      /\ ReturnCode(status, decodes) = 0 => status = 0
      /\ f \in {"missing", "partial", "complete"}
      /\ f = "partial" /\ decodes => ReturnCode(status, decodes) = Crash
  BY DEF ReturnCode, ExitStatus, FilesLeft, Crash
<1>6. TypeOK'
  <2>1. outputQueue' = Append(outputQueue, k) /\ outputQueue \in Seq(Job)
    BY <1>2 DEF IInv, TypeOK, Report
  <2>2. outputQueue' \in Seq(Job)
    BY <2>1
  <2>3. /\ outcome' \in [Job -> ExitStatus \cup {NotRun}]
        /\ returncode' \in [Job -> ExitStatus]
        /\ file' \in [Job -> {"missing", "partial", "complete"}]
        /\ decoded' \subseteq Job
    BY <1>1, <1>5 DEF IInv, TypeOK
  <2> QED
    BY <1>2, <2>2, <2>3 DEF IInv, TypeOK
<1>7. OnePlace'
  BY <1>3, OnePlaceMoves DEF IInv
<1>8. HoldsAJob' /\ Dispatched' /\ LaunchesAreEarly' /\ TallyIsBounded'
  BY <1>2 DEF IInv, TypeOK, HoldsAJob, Dispatched, LaunchesAreEarly, TallyIsBounded
<1>9. RunsAreRecorded'
  <2>1. \A j \in Job : j # k => /\ outcome'[j] = outcome[j] /\ returncode'[j] = returncode[j]
                                /\ j \in decoded' <=> j \in decoded
    BY <1>1 DEF IInv, TypeOK
  <2>2. outcome'[k] = status /\ returncode'[k] = ReturnCode(status, decodes) /\ status # NotRun
    BY <1>1 DEF IInv, TypeOK, ExitStatus, NotRun, Crash
  <2> QED
    BY <1>2, <1>4, <1>5, <2>1, <2>2 DEF IInv, RunsAreRecorded
<1>10. \A j \in 1..jobs : j \in Job /\ j \in 1..jobs' /\ (Gone(j)' <=> Gone(j))
  BY <1>3, GoneMoves DEF IInv
<1>11. FilesAreSettled'
  <2>1. \A j \in Job : j # k => /\ file'[j] = file[j] /\ returncode'[j] = returncode[j]
                                /\ j \in decoded' <=> j \in decoded
    BY <1>1 DEF IInv, TypeOK
  <2>2. file'[k] = "partial" /\ k \in decoded' => returncode'[k] = Crash
    BY <1>1, <1>4, <1>5 DEF IInv, TypeOK
  <2>3. \A j \in Job : file'[j] = "partial" /\ j \in decoded' => returncode'[j] = Crash
    BY <2>1, <2>2 DEF IInv, FilesAreSettled
  <2>4. \A j \in appended : j # k /\ j \in 1..jobs /\ j \in Job
    BY <1>4, <1>10 DEF IInv, FilesAreSettled
  <2> QED
    BY <1>2, <1>10, <2>1, <2>3, <2>4 DEF IInv, FilesAreSettled
<1>12. GoodAreCounted'
  <2>1. \A j \in 1..jobs : Gone(j) => (Good(j)' <=> Good(j))
    BY <1>1, <1>4, <1>10 DEF IInv, TypeOK, Good
  <2>2. GoodJobs' = GoodJobs
    BY <1>2, <1>10, <2>1 DEF GoodJobs
  <2> QED
    BY <1>2, <2>2 DEF IInv, GoodAreCounted
<1> QED
  BY <1>6, <1>7, <1>8, <1>9, <1>11, <1>12 DEF IInv

\* A result is counted once, when its job is gone, and its file is settled.
LEMMA CollectStep == IInv /\ Collect => IInv'
<1> SUFFICES ASSUME IInv, Collect PROVE IInv'
  OBVIOUS
<1>. PICK k \in Job : k = Head(outputQueue) /\ Fetched(k)
  BY CollectMoves DEF IInv
<1>1. /\ UNCHANGED <<jobs, breaks, inputQueue, threadExit, pc, job, isBreak, returncode,
                     outcome, file, decoded, lateLaunches>>
      /\ finished = "no" /\ collected < jobs /\ collected' = collected + 1
      /\ outputQueue' = Tail(outputQueue) /\ outputQueue # <<>>
      /\ \/ /\ k \in isBreak
            /\ UNCHANGED <<tally, appended, finished>>
         \/ /\ k \notin isBreak
            /\ tally' = [tally EXCEPT ![StatusOf(k)] = @ + 1]
            /\ appended' = IF CopiesFile(k) /\ file[k] # "missing"
                           THEN appended \cup {k} ELSE appended
            /\ finished' \in {"no", "raised"}
  BY DEF Collect, processes
<1>2. \A j \in Job : Waits(j) \in Nat /\ Reported(j) \in Nat
  BY PlacesType DEF IInv
<1>3. jobs \in Nat /\ collected \in Nat /\ 1..jobs \subseteq Job
  BY TestRunnerAssumption DEF IInv, TypeOK, Job
<1>4. ~Gone(k) /\ Gone(k)' /\ k \in 1..jobs
  <2>1. Reported(k) > 0 /\ Waits(k) + Reported(k) <= 1
    BY DEF Fetched, IInv, OnePlace
  <2>2. Reported(k) = 1 /\ Waits(k) = 0
    BY <1>2, <2>1
  <2>3. ~Gone(k) /\ \A v \in Worker : ~Holds(v, k)
    BY <2>2 DEF Gone, IInv, OnePlace
  <2>4. Gone(k)'
    BY <2>2, <2>3 DEF Gone, Fetched
  <2>5. ~(k > jobs)
    BY <2>3 DEF IInv, OnePlace
  <2> QED
    BY <1>3, <2>3, <2>4, <2>5 DEF Job
<1>5. \A j \in Job : j # k => (Gone(j)' <=> Gone(j))
  BY <1>2 DEF Gone, Fetched
<1>6. /\ StatusOf(k) \in Status
      /\ StatusOf(k) \in {"PASS", "SKIP"} <=> Good(k)
  BY GoodStatus DEF IInv
<1>7. TallyIsBounded'
  <2>1. \A s \in Status : tally[s] <= collected /\ tally[s] \in Nat /\ tally'[s] \in {tally[s], tally[s] + 1}
    BY <1>1 DEF IInv, TypeOK, TallyIsBounded
  <2> QED
    BY <1>1, <1>3, <2>1 DEF TallyIsBounded
<1>8. TypeOK'
  <2>1. outputQueue' \in Seq(Job)
    BY <1>1 DEF IInv, TypeOK
  <2>2. collected' \in 0..jobs
    BY <1>1, <1>3
  <2>3. tally' \in [Status -> 0..NumJobs]
    <3>1. \A s \in Status : tally'[s] <= collected' /\ tally'[s] \in Nat
      BY <1>1, <1>7 DEF IInv, TypeOK, TallyIsBounded
    <3>2. collected' <= NumJobs /\ NumJobs \in Nat /\ collected' \in Nat
      BY <1>3, <2>2, TestRunnerAssumption DEF IInv, TypeOK
    <3>3. tally' = [s \in Status |-> tally'[s]]
      BY <1>1 DEF IInv, TypeOK
    <3> QED
      BY <3>1, <3>2, <3>3
  <2>4. appended' \subseteq Suite
    BY <1>1 DEF IInv, TypeOK, CopiesFile
  <2> QED
    BY <1>1, <2>1, <2>2, <2>3, <2>4 DEF IInv, TypeOK
<1>9. OnePlace'
  BY OnePlaceMoves DEF IInv
<1>10. HoldsAJob' /\ Dispatched' /\ LaunchesAreEarly'
  BY <1>1 DEF IInv, HoldsAJob, Dispatched, LaunchesAreEarly
<1>11. RunsAreRecorded'
  BY <1>1 DEF IInv, RunsAreRecorded, Fetched
<1>12. FilesAreSettled'
  <2>1. k \in appended' => k \in appended \/ file[k] = "complete" \/ k \notin decoded
    BY <1>1 DEF IInv, TypeOK, FilesAreSettled, CopiesFile, Crash
  <2>2. \A j \in appended' : j = k \/ j \in appended
    BY <1>1
  <2>3. k \notin appended
    BY <1>4 DEF IInv, FilesAreSettled
  <2> QED
    BY <1>1, <1>3, <1>4, <1>5, <2>1, <2>2, <2>3 DEF IInv, FilesAreSettled
<1>13. GoodAreCounted'
  <2>1. \A j : Good(j)' <=> Good(j)
    BY <1>1 DEF Good
  <2>2. k \notin GoodJobs
    BY <1>4 DEF GoodJobs
  <2>3. GoodJobs' = IF k \notin isBreak /\ Good(k) THEN GoodJobs \cup {k} ELSE GoodJobs
    BY <1>1, <1>3, <1>4, <1>5, <2>1 DEF GoodJobs
  <2>4. IsFiniteSet(GoodJobs) /\ Cardinality(GoodJobs) \in Nat
    BY GoodJobsFinite, FS_CardinalityType DEF IInv
  <2>5. tally["PASS"] \in Nat /\ tally["SKIP"] \in Nat /\ DOMAIN tally = Status
    BY DEF IInv, TypeOK, Status
  <2>6. CASE k \notin isBreak /\ Good(k)
    <3>1. Cardinality(GoodJobs') = Cardinality(GoodJobs) + 1
      BY <2>2, <2>3, <2>4, <2>6, FS_AddElement
    <3>2. tally'["PASS"] + tally'["SKIP"] = tally["PASS"] + tally["SKIP"] + 1
      BY <1>1, <1>6, <2>5, <2>6 DEF Status
    <3> QED
      BY <3>1, <3>2 DEF IInv, GoodAreCounted
  <2>7. CASE ~(k \notin isBreak /\ Good(k))
    <3>1. tally'["PASS"] = tally["PASS"] /\ tally'["SKIP"] = tally["SKIP"]
      BY <1>1, <1>6, <2>5, <2>7 DEF Status
    <3> QED
      BY <2>3, <2>7, <3>1 DEF IInv, GoodAreCounted
  <2> QED
    BY <2>6, <2>7
<1> QED
  BY <1>7, <1>8, <1>9, <1>10, <1>11, <1>12, <1>13 DEF IInv

\* Every step preserves the invariant.
LEMMA NextInvariant == IInv /\ [Next]_vars => IInv'
<1> SUFFICES ASSUME IInv, [Next]_vars PROVE IInv'
  OBVIOUS
<1>1. CASE UNCHANGED vars
  BY <1>1 DEF IInv, TypeOK, OnePlace, HoldsAJob, Dispatched, TallyIsBounded, RunsAreRecorded,
     LaunchesAreEarly, FilesAreSettled, GoodAreCounted, GoodJobs, Good, Gone, Waits, Reported,
     Holds, vars, main, queues, processes
<1>2. CASE Next
  BY <1>2, DispatchStep, MainSteps, CollectStep, GetStep, CheckStep, LaunchStep, FinishStep
  DEF Next, MainStep, WorkerStep
<1> QED
  BY <1>1, <1>2

-----------------------------------------------------------------------------
(* What the driver promises. *)

\* The inductive invariant holds always, for any workers, tests and interrupts.
THEOREM TestRunnerInvariant == Spec => []IInv
BY InitInvariant, NextInvariant, PTL DEF Spec

\* The state of the driver is well typed: a job's status is one a process ends with.
THEOREM TestRunnerTypeOK == Spec => []TypeOK
<1>1. IInv => TypeOK
  BY DEF IInv
<1> QED
  BY <1>1, TestRunnerInvariant, PTL

\* The driver exits with 0 only if every test ran to its end and passed, or was to
\* be skipped.
THEOREM TestRunnerSuccess == Spec => []SuccessMeansAllPassed
<1>1. IInv => SuccessMeansAllPassed
  <2> SUFFICES ASSUME IInv, Success, NEW j \in Job
               PROVE  j \in Skip \/ outcome[j] = 0
    BY DEF SuccessMeansAllPassed
  <2>1. jobs = NumJobs /\ NumJobs \in Nat /\ Cardinality(GoodJobs) = jobs
    BY TestRunnerAssumption DEF IInv, Dispatched, Success, GoodAreCounted
  <2>2. GoodJobs = 1..jobs
    <3>1. IsFiniteSet(1..jobs) /\ Cardinality(1..jobs) = jobs
      <4>1. IsFiniteSet(1..jobs) /\ Cardinality(1..jobs) = IF 1 > jobs THEN 0 ELSE jobs - 1 + 1
        BY <2>1, FS_Interval
      <4> QED
        BY <2>1, <4>1
    <3>2. GoodJobs \in SUBSET (1..jobs)
      BY DEF GoodJobs
    <3> QED
      BY <2>1, <3>1, <3>2, FS_Subset
  <2>3. Gone(j) /\ j \notin isBreak /\ Good(j) /\ ~(j > jobs)
    BY <2>1, <2>2 DEF GoodJobs, Job
  <2>4. j \notin Skip => outcome[j] # NotRun /\ returncode[j] = 0
    BY <2>3 DEF IInv, RunsAreRecorded, Gone, Good
  <2> QED
    BY <2>4 DEF IInv, RunsAreRecorded
<1> QED
  BY <1>1, TestRunnerInvariant, PTL

\* After an interrupt a worker launches at most one more process.
THEOREM TestRunnerInterrupt == Spec => []InterruptStopsWork
<1>1. IInv => InterruptStopsWork
  BY DEF IInv, LaunchesAreEarly, InterruptStopsWork
<1> QED
  BY <1>1, TestRunnerInvariant, PTL

\* A results file that is copied is whole, unless the output did not decode.
THEOREM TestRunnerCopies == Spec => []CopiedFilesAreWhole
<1>1. IInv => CopiedFilesAreWhole
  BY DEF IInv, FilesAreSettled, CopiedFilesAreWhole
<1> QED
  BY <1>1, TestRunnerInvariant, PTL

-----------------------------------------------------------------------------
(* The count of the jobs. *)

\* A worker that takes a job is at work, and one that reports it is not any more.
LEMMA WorkerMoves ==
    ASSUME TypeOK, NEW w \in Worker, NEW next, pc' = [pc EXCEPT ![w] = next]
    PROVE  /\ Cardinality(AtWork) \in Nat
           /\ w \notin AtWork /\ next = "check" =>
                Cardinality(AtWork') = Cardinality(AtWork) + 1
           /\ w \in AtWork /\ next = "get" =>
                Cardinality(AtWork') = Cardinality(AtWork) - 1
           /\ w \notin AtWork /\ next = "exited" => AtWork' = AtWork
           /\ w \in AtWork /\ next \in {"launch", "wait"} => AtWork' = AtWork
<1>1. pc \in [Worker -> {"get", "check", "launch", "wait", "exited"}]
  BY DEF TypeOK
<1>2. IsFiniteSet(AtWork)
  BY TestRunnerAssumption, FS_Subset DEF AtWork
<1>3. AtWork' = IF next \in {"check", "launch", "wait"} THEN AtWork \cup {w}
                ELSE AtWork \ {w}
  BY <1>1 DEF AtWork
<1>4. Cardinality(AtWork) \in Nat
  BY <1>2, FS_CardinalityType
<1>5. w \notin AtWork => Cardinality(AtWork \cup {w}) = Cardinality(AtWork) + 1
  BY <1>2, FS_AddElement
<1>6. w \in AtWork => Cardinality(AtWork \ {w}) = Cardinality(AtWork) - 1
  BY <1>2, FS_RemoveElement
<1>7. /\ w \notin AtWork /\ next = "exited" => AtWork' = AtWork
      /\ w \in AtWork /\ next \in {"launch", "wait"} => AtWork' = AtWork
  BY <1>3
<1> QED
  BY <1>2, <1>3, <1>4, <1>5, <1>6, <1>7

\* The jobs of input_queue: all of it but its break jobs.
LEMMA QueueMoves ==
    ASSUME TypeOK
    PROVE  /\ Len(inputQueue) \in Nat /\ Count(inputQueue, BreakJob) \in Nat
           /\ Len(outputQueue) \in Nat
           /\ \A e \in Job \cup {BreakJob} :
                /\ Len(Append(inputQueue, e)) = Len(inputQueue) + 1
                /\ Count(Append(inputQueue, e), BreakJob) =
                     Count(inputQueue, BreakJob) + (IF e = BreakJob THEN 1 ELSE 0)
           /\ inputQueue # <<>> =>
                /\ Len(Tail(inputQueue)) = Len(inputQueue) - 1
                /\ Count(Tail(inputQueue), BreakJob) =
                     Count(inputQueue, BreakJob) - (IF Head(inputQueue) = BreakJob THEN 1 ELSE 0)
           /\ \A j \in Job : Len(Append(outputQueue, j)) = Len(outputQueue) + 1
           /\ outputQueue # <<>> => Len(Tail(outputQueue)) = Len(outputQueue) - 1
<1>1. PICK q \in Seq(Job \cup {BreakJob}) : q = inputQueue
  BY DEF TypeOK
<1>2. PICK o \in Seq(Job) : o = outputQueue
  BY DEF TypeOK
<1>3. Len(q) \in Nat /\ Len(o) \in Nat /\ Count(q, BreakJob) \in Nat
  BY LenProperties, CountType
<1>4. \A e \in Job \cup {BreakJob} :
        /\ Len(Append(q, e)) = Len(q) + 1
        /\ Count(Append(q, e), BreakJob) =
             Count(q, BreakJob) + (IF e = BreakJob THEN 1 ELSE 0)
  BY AppendProperties, CountAppend
<1>5. q # <<>> =>
        /\ Len(Tail(q)) = Len(q) - 1
        /\ Count(Tail(q), BreakJob) =
             Count(q, BreakJob) - (IF Head(q) = BreakJob THEN 1 ELSE 0)
  BY HeadTailProperties, CountTail
<1>6. \A j \in Job : Len(Append(o, j)) = Len(o) + 1
  BY AppendProperties
<1>7. o # <<>> => Len(Tail(o)) = Len(o) - 1
  BY HeadTailProperties
<1> QED
  BY <1>1, <1>2, <1>3, <1>4, <1>5, <1>6, <1>7

LEMMA MainKeepsJobs ==
    ASSUME TypeOK, NoJobLost, MainStep \/ Interrupt \/ UNCHANGED vars
    PROVE  NoJobLost'
<1>0. jobs \in Nat /\ collected \in Nat /\ Cardinality(AtWork) \in Nat
  <2>1. IsFiniteSet(AtWork)
    BY TestRunnerAssumption, FS_Subset DEF AtWork
  <2> QED
    BY <2>1, TestRunnerAssumption, FS_CardinalityType DEF TypeOK
<1>1. CASE pc' = pc
  <2>1. AtWork' = AtWork
    BY <1>1 DEF AtWork
  <2>2. CASE Dispatch
    <3>1. jobs + 1 \in Job /\ jobs + 1 # BreakJob
      BY <1>0, <2>2, TestRunnerAssumption DEF Dispatch, Job, BreakJob, TypeOK
    <3>2. /\ jobs' = jobs + 1 /\ collected' = collected /\ outputQueue' = outputQueue
          /\ inputQueue' = Append(inputQueue, jobs + 1)
      BY <2>2 DEF Dispatch
    <3> QED
      BY <1>0, <2>1, <3>1, <3>2, QueueMoves DEF NoJobLost
  <2>3. CASE DispatchBreak
    <3>1. /\ jobs' = jobs /\ collected' = collected /\ outputQueue' = outputQueue
          /\ inputQueue' = Append(inputQueue, BreakJob)
      BY <2>3 DEF DispatchBreak
    <3> QED
      BY <1>0, <2>1, <3>1, QueueMoves DEF NoJobLost
  <2>4. CASE Collect
    <3>1. /\ jobs' = jobs /\ collected' = collected + 1 /\ outputQueue # <<>>
          /\ outputQueue' = Tail(outputQueue) /\ inputQueue' = inputQueue
      BY <2>4 DEF Collect
    <3> QED
      BY <1>0, <2>1, <3>1, QueueMoves DEF NoJobLost
  <2>5. CASE Join \/ Interrupt \/ UNCHANGED vars
    BY <2>1, <2>5 DEF Join, Interrupt, vars, main, queues, NoJobLost
  <2> QED
    BY <2>2, <2>3, <2>4, <2>5 DEF MainStep
<1>2. pc' = pc
  BY DEF MainStep, Dispatch, DispatchBreak, Collect, Join, Interrupt, vars
<1> QED
  BY <1>1, <1>2

LEMMA WorkerKeepsJobs ==
    ASSUME TypeOK, HoldsAJob, NoJobLost, NEW w \in Worker, WorkerStep(w)
    PROVE  NoJobLost'
<1>0. jobs \in Nat /\ collected \in Nat /\ pc[w] \in {"get", "check", "launch", "wait"}
      /\ jobs' = jobs /\ collected' = collected
  <2>1. jobs \in Nat /\ collected \in Nat
    BY TestRunnerAssumption DEF TypeOK
  <2>2. pc[w] \in {"get", "check", "launch", "wait"}
    BY DEF WorkerStep, Get, Check, Launch, Finish
  <2>3. jobs' = jobs /\ collected' = collected
    BY DEF WorkerStep, Get, Check, Launch, Finish, main
  <2> QED
    BY <2>1, <2>2, <2>3
<1>1. w \in AtWork <=> pc[w] # "get"
  BY <1>0 DEF AtWork
<1>2. CASE Get(w)
  <2>1. /\ inputQueue # <<>> /\ inputQueue' = Tail(inputQueue) /\ outputQueue' = outputQueue
        /\ pc[w] = "get"
    BY <1>2 DEF Get
  <2>2. CASE Head(inputQueue) = BreakJob
    <3>1. pc' = [pc EXCEPT ![w] = "exited"]
      BY <1>2, <2>2 DEF Get
    <3>2. AtWork' = AtWork /\ Cardinality(AtWork) \in Nat
      BY <1>1, <2>1, <3>1, WorkerMoves
    <3> QED
      BY <1>0, <2>1, <2>2, <3>2, QueueMoves DEF NoJobLost
  <2>3. CASE Head(inputQueue) # BreakJob
    <3>1. pc' = [pc EXCEPT ![w] = "check"]
      BY <1>2, <2>3 DEF Get
    <3>2. Cardinality(AtWork') = Cardinality(AtWork) + 1 /\ Cardinality(AtWork) \in Nat
      BY <1>1, <2>1, <3>1, WorkerMoves
    <3> QED
      BY <1>0, <2>1, <2>3, <3>2, QueueMoves DEF NoJobLost
  <2> QED
    BY <2>2, <2>3
\* Bounce, a job to skip, and Finish: the worker reports its job.
<1>3. CASE Report(w) /\ pc' = [pc EXCEPT ![w] = "get"] /\ pc[w] # "get"
           /\ inputQueue' = inputQueue
  <2>1. job[w] \in Job
    BY <1>0, <1>3 DEF HoldsAJob
  <2>2. outputQueue' = Append(outputQueue, job[w])
    BY <1>3 DEF Report
  <2>3. Cardinality(AtWork') = Cardinality(AtWork) - 1 /\ Cardinality(AtWork) \in Nat
    BY <1>1, <1>3, WorkerMoves
  <2> QED
    BY <1>0, <1>3, <2>1, <2>2, <2>3, QueueMoves DEF NoJobLost
<1>4. CASE /\ UNCHANGED <<inputQueue, outputQueue>> /\ pc[w] # "get"
           /\ (pc' = [pc EXCEPT ![w] = "launch"] \/ pc' = [pc EXCEPT ![w] = "wait"])
  <2>1. AtWork' = AtWork
    BY <1>1, <1>4, WorkerMoves
  <2> QED
    BY <1>0, <1>4, <2>1 DEF NoJobLost
<1>5. CASE Check(w)
  BY <1>3, <1>4, <1>5 DEF Check, Bounce
<1>6. CASE Launch(w)
  BY <1>4, <1>6 DEF Launch, queues
<1>7. CASE Finish(w)
  BY <1>3, <1>7 DEF Finish
<1> QED
  BY <1>2, <1>5, <1>6, <1>7 DEF WorkerStep

\* No job is lost or reported twice, for any number of workers and jobs and whenever
\* the interrupt comes: a dispatched job is queued, with a worker, or collected.
THEOREM TestRunnerNoJobLost == Spec => []NoJobLost
<1>1. Init => NoJobLost
  <2> SUFFICES ASSUME Init PROVE NoJobLost
    OBVIOUS
  <2>1. /\ jobs = 0 /\ collected = 0 /\ Len(inputQueue) = 0 /\ Len(outputQueue) = 0
        /\ Count(inputQueue, BreakJob) = 0
    BY CountEmpty DEF Init
  <2>2. AtWork = {}
    BY DEF Init, AtWork
  <2>3. Cardinality(AtWork) = 0
    BY <2>2, FS_EmptySet
  <2> QED
    BY <2>1, <2>3 DEF NoJobLost
<1>2. IInv /\ NoJobLost /\ [Next]_vars => NoJobLost'
  BY MainKeepsJobs, WorkerKeepsJobs DEF IInv, Next
<1> QED
  BY <1>1, <1>2, TestRunnerInvariant, PTL DEF Spec
=============================================================================
