----------------------------- MODULE TestRunner -----------------------------
(***************************************************************************)
(* The parallel part of the test driver (test.py): run_tests puts one job  *)
(* per test and one break job per worker in input_queue, the workers run   *)
(* the jobs and put them in output_queue, run_tests counts the results and *)
(* joins the workers, and an interrupt sets thread_exit at any time.       *)
(*                                                                         *)
(* Jobs are numbered in the order of dispatch.  A process that is launched *)
(* ends with an exit status, an output that may not decode as text, and,   *)
(* for a suite, a results file that is missing, partial or complete.       *)
(***************************************************************************)
EXTENDS Integers, Sequences, FiniteSets, Counting

CONSTANTS Worker,   \* the worker threads, one per processor
          NumJobs,  \* tests that are dispatched
          Example,  \* jobs that are examples: they have no results file
          Skip,     \* jobs with is_skip
          Garbled   \* jobs whose output may not decode

Job == 1..NumJobs
Suite == Job \ Example
Crash == 139        \* any status other than 0, 1 (failed) and 2 (valgrind)
ExitStatus == {0, 1, 2, Crash}

ASSUME TestRunnerAssumption ==
    /\ IsFiniteSet(Worker) /\ Worker # {}
    /\ NumJobs \in Nat
    /\ Example \cup Skip \cup Garbled \subseteq Job

BreakJob == 0       \* a job that run_tests dispatches with is_break
NotRun == -1

VARIABLES
    jobs,         \* jobs dispatched so far
    breaks,       \* break jobs dispatched so far
    inputQueue, outputQueue,
    threadExit,   \* thread_exit
    pc,           \* where each worker is
    job,          \* the job each worker holds
    isBreak,      \* jobs that a worker marked with is_break
    returncode,   \* of each job, 0 as long as it is False
    collected,    \* iterations of the loop that collects results
    tally,        \* passed_tests, failed_tests and so on
    appended,     \* suites whose file went into the results
    finished,     \* "no", or run_tests has "returned" or "raised"
    outcome,      \* history: how the process of each job really ended
    file,         \* history: the results file of each job
    decoded,      \* history: jobs whose output decoded
    lateLaunches  \* history: launches of each worker since the interrupt

queues == <<inputQueue, outputQueue>>
main == <<jobs, breaks, collected, tally, appended, finished>>
processes == <<outcome, file, decoded>>
vars == <<main, queues, threadExit, pc, job, isBreak, returncode, processes, lateLaunches>>

Status == {"SKIP", "PASS", "FAIL", "VALGR", "CRASH"}

Init ==
    /\ jobs = 0 /\ breaks = 0 /\ collected = 0
    /\ inputQueue = <<>> /\ outputQueue = <<>>
    /\ threadExit = FALSE
    /\ pc = [w \in Worker |-> "get"]
    /\ job = [w \in Worker |-> BreakJob]
    /\ isBreak = {}
    /\ returncode = [j \in Job |-> 0]
    /\ tally = [s \in Status |-> 0]
    /\ appended = {}
    /\ finished = "no"
    /\ outcome = [j \in Job |-> NotRun]
    /\ file = [j \in Job |-> "missing"]
    /\ decoded = {}
    /\ lateLaunches = [w \in Worker |-> 0]

-----------------------------------------------------------------------------
(* The worker threads: worker_thread.run. *)

Get(w) ==
    /\ pc[w] = "get" /\ inputQueue # <<>>
    /\ job' = [job EXCEPT ![w] = Head(inputQueue)]
    /\ inputQueue' = Tail(inputQueue)
    /\ pc' = [pc EXCEPT ![w] = IF Head(inputQueue) = BreakJob THEN "exited" ELSE "check"]
    /\ UNCHANGED <<main, outputQueue, threadExit, isBreak, returncode, processes, lateLaunches>>

Report(w) == outputQueue' = Append(outputQueue, job[w])

\* Mutant: a job that is thrown back is not marked.
BounceUnmarked(w) ==
    /\ Report(w)
    /\ pc' = [pc EXCEPT ![w] = "get"]
    /\ UNCHANGED isBreak

\* Mutant: the worker goes on to run a job that it threw back.
BounceAndRun(w) ==
    /\ Report(w)
    /\ isBreak' = isBreak \cup {job[w]}
    /\ pc' = [pc EXCEPT ![w] = IF job[w] \in Skip THEN "get" ELSE "launch"]

\* Mutant: a worker that sees the interrupt leaves.
BounceAndLeave(w) ==
    /\ Report(w)
    /\ isBreak' = isBreak \cup {job[w]}
    /\ pc' = [pc EXCEPT ![w] = "exited"]

\* After an interrupt the job goes back, marked with is_break.
Bounce(w) ==
    /\ Report(w)
    /\ isBreak' = isBreak \cup {job[w]}
    /\ pc' = [pc EXCEPT ![w] = "get"]

\* Mutant: thread_exit is not looked at.
NeverInterrupted == FALSE

Interrupted == threadExit

Check(w) ==
    /\ pc[w] = "check"
    /\ \/ /\ Interrupted
          /\ Bounce(w)
       \/ /\ ~Interrupted
          /\ job[w] \in Skip
          /\ Report(w)
          /\ pc' = [pc EXCEPT ![w] = "get"]
          /\ UNCHANGED isBreak
       \/ /\ ~Interrupted
          /\ job[w] \notin Skip
          /\ pc' = [pc EXCEPT ![w] = "launch"]
          /\ UNCHANGED <<isBreak, outputQueue>>
    /\ UNCHANGED <<main, inputQueue, threadExit, job, returncode, processes, lateLaunches>>

\* run_job_synchronously starts the process of the job.
Launch(w) ==
    /\ pc[w] = "launch"
    /\ pc' = [pc EXCEPT ![w] = "wait"]
    /\ lateLaunches' = [lateLaunches EXCEPT ![w] = IF threadExit THEN @ + 1 ELSE @]
    /\ UNCHANGED <<main, queues, threadExit, job, isBreak, returncode, processes>>

\* A suite that ends with status 0, 1 or 2 has written its results file.
FilesLeft(j, status) ==
    IF j \in Example THEN {"missing"}
    ELSE IF status = Crash THEN {"missing", "partial"} ELSE {"complete"}

\* Mutant: the status of every process that did not pass is that of a failure.
AnyFailure(status, decodes) == IF status = 0 /\ decodes THEN 0 ELSE 1

\* Output that does not decode replaces the status by 1.
ReturnCode(status, decodes) == IF decodes THEN status ELSE 1

\* The process of the job ends and the worker reports the job.
Finish(w) ==
    LET j == job[w] IN
    /\ pc[w] = "wait"
    /\ \E status \in ExitStatus, decodes \in IF j \in Garbled THEN BOOLEAN ELSE {TRUE} :
          /\ outcome' = [outcome EXCEPT ![j] = status]
          /\ returncode' = [returncode EXCEPT ![j] = ReturnCode(status, decodes)]
          /\ decoded' = IF decodes THEN decoded \cup {j} ELSE decoded
          /\ \E f \in FilesLeft(j, status) : file' = [file EXCEPT ![j] = f]
    /\ Report(w)
    /\ pc' = [pc EXCEPT ![w] = "get"]
    /\ UNCHANGED <<main, inputQueue, threadExit, job, isBreak, lateLaunches>>

-----------------------------------------------------------------------------
(* The main thread: run_tests, and the handler of SIGINT. *)

Dispatch ==
    /\ finished = "no" /\ jobs < NumJobs
    /\ inputQueue' = Append(inputQueue, jobs + 1)
    /\ jobs' = jobs + 1
    /\ UNCHANGED <<breaks, collected, tally, appended, finished, outputQueue, threadExit,
                   pc, job, isBreak, returncode, processes, lateLaunches>>

DispatchBreak ==
    /\ finished = "no" /\ jobs = NumJobs /\ breaks < Cardinality(Worker)
    /\ inputQueue' = Append(inputQueue, BreakJob)
    /\ breaks' = breaks + 1
    /\ UNCHANGED <<jobs, collected, tally, appended, finished, outputQueue, threadExit,
                   pc, job, isBreak, returncode, processes, lateLaunches>>

StatusOf(j) ==
    IF j \in Skip THEN "SKIP"
    ELSE CASE returncode[j] = 0 -> "PASS"
           [] returncode[j] = 1 -> "FAIL"
           [] returncode[j] = 2 -> "VALGR"
           [] OTHER -> "CRASH"

\* The results file of the job is copied, not made up.
CopiesFile(j) == j \in Suite \ Skip /\ returncode[j] \in {0, 1, 2}

Collect ==
    /\ finished = "no" /\ breaks = Cardinality(Worker)
    /\ collected < jobs /\ outputQueue # <<>>
    /\ LET j == Head(outputQueue) IN
       \/ /\ j \in isBreak
          /\ UNCHANGED <<tally, appended, finished>>
       \/ /\ j \notin isBreak
          /\ tally' = [tally EXCEPT ![StatusOf(j)] = @ + 1]
          /\ appended' = IF CopiesFile(j) /\ file[j] # "missing"
                         THEN appended \cup {j} ELSE appended
          /\ finished' = IF CopiesFile(j) /\ file[j] = "missing" THEN "raised" ELSE "no"
    /\ outputQueue' = Tail(outputQueue)
    /\ collected' = collected + 1
    /\ UNCHANGED <<jobs, breaks, inputQueue, threadExit, pc, job, isBreak, returncode,
                   processes, lateLaunches>>

Join ==
    /\ finished = "no" /\ breaks = Cardinality(Worker) /\ collected = jobs
    /\ \A w \in Worker : pc[w] = "exited"
    /\ finished' = "returned"
    /\ UNCHANGED <<jobs, breaks, collected, tally, appended, queues, threadExit, pc, job,
                   isBreak, returncode, processes, lateLaunches>>

\* sigint_hook
Interrupt ==
    /\ finished = "no" /\ ~threadExit
    /\ threadExit' = TRUE
    /\ UNCHANGED <<main, queues, pc, job, isBreak, returncode, processes, lateLaunches>>

\* The status of the program: 1 also when run_tests raised.
Success == finished = "returned" /\ tally["PASS"] + tally["SKIP"] = jobs

-----------------------------------------------------------------------------
MainStep == Dispatch \/ DispatchBreak \/ Collect \/ Join
WorkerStep(w) == Get(w) \/ Check(w) \/ Launch(w) \/ Finish(w)

Next == MainStep \/ Interrupt \/ \E w \in Worker : WorkerStep(w)

\* Threads are scheduled and every process that is launched ends.
Fairness == WF_vars(MainStep) /\ \A w \in Worker : WF_vars(WorkerStep(w))

Spec == Init /\ [][Next]_vars /\ Fairness
-----------------------------------------------------------------------------
(* Properties *)

TypeOK ==
    /\ jobs \in 0..NumJobs /\ collected \in 0..jobs
    /\ breaks \in 0..Cardinality(Worker)
    /\ inputQueue \in Seq(Job \cup {BreakJob}) /\ outputQueue \in Seq(Job)
    /\ threadExit \in BOOLEAN
    /\ pc \in [Worker -> {"get", "check", "launch", "wait", "exited"}]
    /\ job \in [Worker -> Job \cup {BreakJob}]
    /\ isBreak \subseteq Job
    /\ returncode \in [Job -> ExitStatus]
    /\ tally \in [Status -> 0..NumJobs]
    /\ appended \subseteq Suite
    /\ finished \in {"no", "returned", "raised"}
    /\ outcome \in [Job -> ExitStatus \cup {NotRun}]
    /\ file \in [Job -> {"missing", "partial", "complete"}]
    /\ decoded \subseteq Job
    /\ lateLaunches \in [Worker -> Nat]

\* Workers that hold a job and owe its result.
AtWork == {w \in Worker : pc[w] \in {"check", "launch", "wait"}}

\* No job is lost or reported twice, whenever the interrupt comes (the loops of
\* worker_thread.run and run_tests): each dispatched job is in one queue, with
\* one worker, or among the results that were collected.
NoJobLost ==
    jobs - collected = (Len(inputQueue) - Count(inputQueue, BreakJob))
                       + Len(outputQueue) + Cardinality(AtWork)

\* The exit status 0 of the driver means that every test was run to its end and
\* passed, or was to be skipped: an interrupted run never looks like a success,
\* although the returncode of a job that was not run compares equal to 0.
SuccessMeansAllPassed ==
    Success => \A j \in Job : j \in Skip \/ outcome[j] = 0

\* After an interrupt each worker launches at most the one job for which it had
\* already looked at thread_exit.
InterruptStopsWork == \A w \in Worker : lateLaunches[w] <= 1

\* The results file of a suite is copied into the results only when the suite
\* wrote it whole, as the comment in run_tests says, except when the output of
\* the suite did not decode: then its status was replaced by that of a failure.
CopiedFilesAreWhole ==
    \A j \in appended : file[j] = "complete" \/ j \notin decoded

\* The run ends: every job comes back and every worker sees a break job, with or
\* without an interrupt.
RunEnds == <>(finished # "no" /\ \A w \in Worker : pc[w] = "exited")
=============================================================================
