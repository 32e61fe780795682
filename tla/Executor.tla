------------------------------ MODULE Executor ------------------------------
(***************************************************************************)
(* One suite run by resmoke: TestSuiteExecutor.run (testing/executor.py)   *)
(* on the main thread, one Job thread (testing/job.py) per fixture, and    *)
(* the multi-consumer queue of tests they share (utils/queue.py).          *)
(*                                                                         *)
(* A step of a thread performs at most one access to what other threads    *)
(* may touch at the same time (the queue, its count of unfinished tasks,   *)
(* interrupt_flag), with the thread's own work around it.  The test        *)
(* reports of the jobs appear as what run() reads of their combination:    *)
(* how many results there are and whether one of them is not a pass.       *)
(***************************************************************************)
EXTENDS Integers, Sequences, FiniteSets, QueueElement, TestOutcome

CONSTANTS
    NumJobs,          \* options.num_jobs
    NumSuiteTests,    \* len(suite.tests)
    NumRepeatTests,   \* options.num_repeat_tests
    NumRepeatSuites,  \* options.num_repeat_suites
    FailFast,         \* options.fail_fast
    MaxInterrupts     \* bound: how often the user presses Ctrl-C

ASSUME ExecutorAssumption ==
    /\ NumJobs \in Nat \ {0}
    /\ NumSuiteTests \in Nat \ {0}
    /\ NumRepeatTests \in Nat \ {0}
    /\ NumRepeatSuites \in Nat
    /\ FailFast \in BOOLEAN
    /\ MaxInterrupts \in Nat

NumTests == NumSuiteTests * NumRepeatTests

NumJobsToStart == IF NumTests < NumJobs THEN NumTests ELSE NumJobs

Jobs == 1 .. NumJobsToStart

\* Element i of the queue runs test ((i - 1) % NumSuiteTests) + 1 of the suite.
Elems == 1 .. NumTests

NoElem == 0

VARIABLES
    queue,          \* the elements waiting, oldest first
    unfinished,     \* Queue.unfinished_tasks
    elems,          \* the state of each queue element
    interruptFlag,  \* interrupt_flag.is_set()
    setupFlag,      \* "None", "clear" or "set"
    teardownFlag,   \* "None", "clear" or "set"
    report,         \* the combined report of the current repetition
    pc,             \* where each Job thread is
    held,           \* the element in each thread's local queue_elem
    setups,         \* whether each job's fixture was ever set up
    teardowns,      \* how often each fixture's teardown was attempted
    main,           \* the main thread: its place and its locals
    hist            \* history, for the properties

queueVars == <<queue, unfinished, elems>>
flagVars == <<interruptFlag, setupFlag, teardownFlag>>
fixtureVars == <<setups, teardowns>>
vars == <<queueVars, flagVars, report, pc, held, fixtureVars, main, hist>>

Flag == {"None", "clear", "set"}

\* "none" before the thread starts, "done" after it has returned.
JobStates == {"none", "setup", "before_suite", "empty", "flag", "get", "exec",
              "requeue", "put", "after_suite", "interrupt", "drain_empty",
              "drain_get", "drain_done", "teardown", "done"}

\* A thread that took an element and has not called task_done() for it.
Holding == {"exec", "drain_done"}

Holders == {j \in Jobs : pc[j] \in Holding}

\* A thread whose queue_elem may yet be executed or put back.
Owning == {"exec", "requeue", "put"}

Exceptions == {"none", "UserInterrupt", "KeyboardInterrupt", "ResmokeError",
               "LoggerRuntimeConfigError"}

Main == [
    pc : {"repeat", "start", "join", "thr_join", "finally", "teardown", "done"},
    next : 1 .. NumJobsToStart + 1,  \* index of the loops over self._jobs
    reps : Nat,                      \* num_repeat_suites, counted down
    interrupts : Nat,                \* Ctrl-C presses so far
    user_interrupted : BOOLEAN,      \* second component of _run_tests()'s result
    return_code : 0 .. 2,
    exc : Exceptions,                \* the exception leaving run()
    exit_code : Int,                 \* suite.return_code after _execute_suite
    stopped : BOOLEAN]               \* what _execute_suite returned

History == [
    ran : SUBSET Elems,    \* elements whose test was run in this repetition
    failed : BOOLEAN,      \* some repetition had a result that is not a pass
    skipped : BOOLEAN,     \* some repetition ended with a test that never ran
    abandoned : BOOLEAN]   \* the main thread stopped waiting for the jobs

\* Every variable keeps to its range; in particular task_done() is never called
\* more often than put(), which would raise in Queue.
TypeOK ==
    /\ queue \in Seq(Elems)
    /\ unfinished \in Nat
    /\ elems \in [Elems -> QueueElem]
    /\ interruptFlag \in BOOLEAN
    /\ setupFlag \in Flag
    /\ teardownFlag \in Flag
    /\ report \in [results : Nat, failed : BOOLEAN]
    /\ pc \in [Jobs -> JobStates]
    /\ held \in [Jobs -> Elems \cup {NoElem}]
    /\ setups \in [Jobs -> BOOLEAN]
    /\ teardowns \in [Jobs -> Nat]
    /\ main \in Main
    /\ hist \in History

Init ==
    /\ queue = <<>>
    /\ unfinished = 0
    /\ elems = [e \in Elems |-> NewQueueElem]
    /\ interruptFlag = FALSE
    /\ setupFlag = "clear"
    /\ teardownFlag = "None"
    /\ report = [results |-> 0, failed |-> FALSE]
    /\ pc = [j \in Jobs |-> "none"]
    /\ held = [j \in Jobs |-> NoElem]
    /\ setups = [j \in Jobs |-> FALSE]
    /\ teardowns = [j \in Jobs |-> 0]
    /\ main = [pc |-> "repeat", next |-> 1, reps |-> NumRepeatSuites, interrupts |-> 0,
               user_interrupted |-> FALSE, return_code |-> 0, exc |-> "none",
               exit_code |-> -1, stopped |-> FALSE]
    /\ hist = [ran |-> {}, failed |-> FALSE, skipped |-> FALSE, abandoned |-> FALSE]

-----------------------------------------------------------------------------
(* The Job threads. *)

GoTo(j, from, to) == pc[j] = from /\ pc' = [pc EXCEPT ![j] = to]

Record(infos, bad) ==
    report' = [results |-> report.results + infos, failed |-> report.failed \/ bad]

\* A fixture's setup or teardown runs as a test case of its own: it passes,
\* fails, or raises after its result was started.
FixtureOutcomes == {"pass", "fail", "raise"}

\* Where __call__ goes after its setup and run blocks.
AfterRun == IF teardownFlag = "None" THEN "done" ELSE "teardown"

SetupFixture(j) ==
    /\ pc[j] = "setup"
    /\ \E o \in FixtureOutcomes :
        /\ Record(1, o # "pass")
        /\ pc' = [pc EXCEPT ![j] = IF o = "pass" THEN "before_suite" ELSE "drain_empty"]
        /\ setupFlag' = IF o = "pass" THEN setupFlag ELSE "set"
        /\ interruptFlag' = (interruptFlag \/ o # "pass")
    /\ setups' = [setups EXCEPT ![j] = TRUE]
    /\ UNCHANGED <<queueVars, teardownFlag, held, teardowns, main, hist>>

\* The hooks' before_suite and after_suite methods: they return, or raise.
BeforeSuite(j) ==
    /\ GoTo(j, "before_suite", "empty") \/ GoTo(j, "before_suite", "interrupt")
    /\ UNCHANGED <<queueVars, flagVars, report, held, fixtureVars, main, hist>>

AfterSuite(j) ==
    /\ GoTo(j, "after_suite", AfterRun) \/ GoTo(j, "after_suite", "interrupt")
    /\ UNCHANGED <<queueVars, flagVars, report, held, fixtureVars, main, hist>>

\* The condition of _run's loop reads the queue, then the flag.
CheckEmpty(j) ==
    /\ GoTo(j, "empty", IF queue = <<>> THEN "after_suite" ELSE "flag")
    /\ UNCHANGED <<queueVars, flagVars, report, held, fixtureVars, main, hist>>

CheckFlag(j) ==
    /\ GoTo(j, "flag", IF interruptFlag THEN "after_suite" ELSE "get")
    /\ UNCHANGED <<queueVars, flagVars, report, held, fixtureVars, main, hist>>

\* get_nowait() raises Empty when another thread was faster, and __call__
\* handles that as an unknown error.
GetNowait(j) ==
    /\ \/ /\ queue # <<>>
          /\ GoTo(j, "get", "exec")
          /\ held' = [held EXCEPT ![j] = Head(queue)]
          /\ queue' = Tail(queue)
       \/ /\ queue = <<>>
          /\ GoTo(j, "get", "interrupt")
          /\ UNCHANGED <<queue, held>>
    /\ UNCHANGED <<unfinished, elems, flagVars, report, fixtureVars, main, hist>>

TaskDone(raised) == unfinished' = unfinished - 1

\* _execute_test, then the finally clause: job_completed() and task_done().
ExecuteTest(j) ==
    /\ pc[j] = "exec"
    /\ \E o \in ExecOutcomes(FailFast), job_time \in 0 .. MaxTestTime :
        /\ Record(o.infos, o.bad)
        /\ pc' = [pc EXCEPT ![j] = IF o.stop THEN "interrupt" ELSE "requeue"]
        /\ held' = [held EXCEPT ![j] = IF o.stop THEN NoElem ELSE @]
        /\ elems' = [elems EXCEPT ![held[j]] = JobCompleted(@, job_time)]
        /\ hist' = [hist EXCEPT !.ran = IF o.ran THEN @ \cup {held[j]} ELSE @]
        /\ TaskDone(o.stop)
    /\ UNCHANGED <<queue, flagVars, fixtureVars, main>>

\* Slip: a test is only repeated up to its minimum number of runs.
MustPutBackMinimum(j) == StillNeedMinimumRuns(elems[held[j]]) /\ ~interruptFlag

MustPutBack(j) == ShouldRequeue(elems[held[j]]) /\ ~interruptFlag

\* _requeue_test reads the flag, and puts the element back only later.
RequeueTest(j) ==
    /\ pc[j] = "requeue"
    /\ \/ /\ MustPutBack(j)
          /\ GoTo(j, "requeue", "put")
          /\ UNCHANGED held
       \/ /\ ~MustPutBack(j)
          /\ GoTo(j, "requeue", "empty")
          /\ held' = [held EXCEPT ![j] = NoElem]
    /\ UNCHANGED <<queueVars, flagVars, report, fixtureVars, main, hist>>

PutBack(j) ==
    /\ GoTo(j, "put", "empty")
    /\ queue' = Append(queue, held[j])
    /\ unfinished' = unfinished + 1
    /\ held' = [held EXCEPT ![j] = NoElem]
    /\ UNCHANGED <<elems, flagVars, report, fixtureVars, main, hist>>

\* Slip: the flag is set and the queue is left as it is.
InterruptWithoutDrain(j) ==
    /\ GoTo(j, "interrupt", AfterRun)
    /\ interruptFlag' = TRUE
    /\ UNCHANGED <<queueVars, setupFlag, teardownFlag, report, held, fixtureVars, main, hist>>

\* _interrupt_all_jobs sets the flag, then drains the queue.
InterruptAllJobs(j) ==
    /\ GoTo(j, "interrupt", "drain_empty")
    /\ interruptFlag' = TRUE
    /\ UNCHANGED <<queueVars, setupFlag, teardownFlag, report, held, fixtureVars, main, hist>>

DrainCheck(j) ==
    /\ GoTo(j, "drain_empty", IF queue = <<>> THEN AfterRun ELSE "drain_get")
    /\ UNCHANGED <<queueVars, flagVars, report, held, fixtureVars, main, hist>>

\* Empty is ignored here: other threads may be draining too.
DrainGet(j) ==
    /\ \/ queue # <<>> /\ GoTo(j, "drain_get", "drain_done") /\ queue' = Tail(queue)
       \/ queue = <<>> /\ GoTo(j, "drain_get", AfterRun) /\ UNCHANGED queue
    /\ UNCHANGED <<unfinished, elems, flagVars, report, held, fixtureVars, main, hist>>

\* Slip: a drained element is not reported as done.
DrainWithoutTaskDone(j) ==
    /\ GoTo(j, "drain_done", "drain_empty")
    /\ UNCHANGED <<queueVars, flagVars, report, held, fixtureVars, main, hist>>

DrainDone(j) ==
    /\ GoTo(j, "drain_done", "drain_empty")
    /\ unfinished' = unfinished - 1
    /\ UNCHANGED <<queue, elems, flagVars, report, held, fixtureVars, main, hist>>

TeardownFixture(j) ==
    /\ GoTo(j, "teardown", "done")
    /\ \E o \in FixtureOutcomes :
        /\ Record(1, o # "pass")
        /\ teardownFlag' = IF o = "pass" THEN teardownFlag ELSE "set"
    /\ teardowns' = [teardowns EXCEPT ![j] = @ + 1]
    /\ UNCHANGED <<queueVars, interruptFlag, setupFlag, held, setups, main, hist>>

Job(j) ==
    \/ SetupFixture(j) \/ BeforeSuite(j) \/ CheckEmpty(j) \/ CheckFlag(j) \/ GetNowait(j)
    \/ ExecuteTest(j) \/ RequeueTest(j) \/ PutBack(j) \/ AfterSuite(j)
    \/ InterruptAllJobs(j) \/ DrainCheck(j) \/ DrainGet(j) \/ DrainDone(j)
    \/ TeardownFixture(j)

-----------------------------------------------------------------------------
(* The main thread. *)

\* Slip: an element object is put into the queue a second time.
MakeSharedTestQueue == [i \in 1 .. 2 * NumTests |-> ((i - 1) % NumTests) + 1]

MakeTestQueue == [i \in Elems |-> i]

\* Slip: the threads tear down in the first repetition, not in the last.
FirstTeardownFlag == IF main.reps = NumRepeatSuites THEN "clear" ELSE "None"

NewTeardownFlag == IF main.reps = 1 THEN "clear" ELSE "None"

\* The top of run()'s loop and of _run_tests: a fresh queue and fresh events.
BeginRepetition ==
    /\ main.pc = "repeat" /\ main.reps > 0
    /\ queue' = MakeTestQueue
    /\ unfinished' = Len(MakeTestQueue)
    /\ elems' = [e \in Elems |-> NewQueueElem]
    /\ interruptFlag' = FALSE
    /\ teardownFlag' = NewTeardownFlag
    /\ pc' = [j \in Jobs |-> "none"]
    /\ main' = [main EXCEPT !.pc = "start", !.next = 1, !.user_interrupted = FALSE]
    /\ hist' = [hist EXCEPT !.ran = {}]
    /\ UNCHANGED <<setupFlag, report, held, fixtureVars>>

LoopDone ==
    /\ main.pc = "repeat" /\ main.reps = 0
    /\ main' = [main EXCEPT !.pc = "finally"]
    /\ UNCHANGED <<queueVars, flagVars, report, pc, held, fixtureVars, hist>>

IsLastThread == main.next = NumJobsToStart

StartThread ==
    /\ main.pc = "start"
    /\ pc' = [pc EXCEPT ![main.next] = IF setupFlag = "None" THEN "before_suite" ELSE "setup"]
    /\ main' = [main EXCEPT !.next = @ + 1,
                            !.pc = IF IsLastThread THEN "join" ELSE @]
    /\ UNCHANGED <<queueVars, flagVars, report, held, fixtureVars, hist>>

\* Queue.join() returns once no task is unfinished.
JoinQueue ==
    /\ main.pc = "join" /\ unfinished = 0
    /\ main' = [main EXCEPT !.pc = "thr_join"]
    /\ UNCHANGED <<queueVars, flagVars, report, pc, held, fixtureVars, hist>>

\* thr.join() has returned for every thread that was started.
ThreadsJoined == main.pc = "thr_join" /\ \A j \in Jobs : pc[j] \in {"none", "done"}

RecordTestEnd ==
    hist' = [hist EXCEPT !.failed = @ \/ report.failed, !.skipped = @ \/ hist.ran # Elems]

SetupFailed ==
    /\ ThreadsJoined /\ setupFlag = "set"
    /\ RecordTestEnd
    /\ main' = [main EXCEPT !.pc = "finally", !.return_code = 2]
    /\ UNCHANGED <<queueVars, flagVars, report, pc, held, fixtureVars>>

RaiseUserInterrupt ==
    /\ ThreadsJoined /\ setupFlag # "set" /\ main.user_interrupted
    /\ RecordTestEnd
    /\ setupFlag' = "None"
    /\ main' = [main EXCEPT !.pc = "finally", !.exc = "UserInterrupt"]
    /\ UNCHANGED <<queueVars, interruptFlag, teardownFlag, report, pc, held, fixtureVars>>

\* Slip: the verdict of a repetition replaces the one before.
VerdictOfLast == IF report.failed THEN 1 ELSE IF teardownFlag = "set" THEN 2 ELSE 0

\* return_code after a repetition: a failed report overwrites a failed teardown.
Verdict == IF report.failed THEN 1 ELSE IF teardownFlag = "set" THEN 2 ELSE main.return_code

\* The end of run()'s loop: the break of fail_fast, the count of results that
\* guards against lost tests, or the next repetition with fresh reports.
EndRepetition ==
    /\ ThreadsJoined /\ setupFlag # "set" /\ ~main.user_interrupted
    /\ RecordTestEnd
    /\ setupFlag' = "None"
    /\ \/ /\ report.failed /\ FailFast
          /\ main' = [main EXCEPT !.pc = "finally", !.return_code = Verdict]
          /\ UNCHANGED report
       \/ /\ ~(report.failed /\ FailFast) /\ report.results < NumTests
          /\ main' = [main EXCEPT !.pc = "finally", !.return_code = Verdict,
                                  !.exc = "ResmokeError"]
          /\ UNCHANGED report
       \/ /\ ~(report.failed /\ FailFast) /\ report.results >= NumTests
          /\ main' = [main EXCEPT !.pc = "repeat", !.return_code = Verdict, !.reps = @ - 1]
          /\ report' = [results |-> 0, failed |-> FALSE]
    /\ UNCHANGED <<queueVars, interruptFlag, teardownFlag, pc, held, fixtureVars>>

\* resmoke.py's _execute_suite turns an exception into an exit code.
ExitCode(exc, return_code) ==
    CASE exc = "none" -> return_code
      [] exc = "UserInterrupt" -> 130
      [] exc = "LoggerRuntimeConfigError" -> 75
      [] OTHER -> 2

\* The main thread's locals once _execute_suite has returned.
Returned(m) ==
    [m EXCEPT !.pc = "done", !.exit_code = ExitCode(m.exc, m.return_code),
              !.stopped = m.exc \in {"UserInterrupt", "LoggerRuntimeConfigError"}]

\* Slips: the finally clause tears down never, or always.
NeverTearsDown == FALSE
AlwaysTearsDown == TRUE

MainTearsDown == teardownFlag = "None"

\* run()'s finally clause.
Finally ==
    /\ main.pc = "finally"
    /\ main' = IF MainTearsDown THEN [main EXCEPT !.pc = "teardown", !.next = 1]
                                ELSE Returned(main)
    /\ UNCHANGED <<queueVars, flagVars, report, pc, held, fixtureVars, hist>>

\* One turn of _teardown_fixtures's loop: the fixture's teardown passes, fails,
\* or raises out of run() because its result could not be started.
TeardownNext ==
    /\ main.pc = "teardown" /\ main.next <= NumJobsToStart
    /\ teardowns' = [teardowns EXCEPT ![main.next] = @ + 1]
    /\ \E o \in FixtureOutcomes :
        /\ main' = CASE o = "pass" -> [main EXCEPT !.next = @ + 1]
                     [] o = "fail" -> [main EXCEPT !.next = @ + 1, !.return_code = 2]
                     [] o = "raise" ->
                            Returned([main EXCEPT !.exc = "LoggerRuntimeConfigError"])
        /\ hist' = [hist EXCEPT !.failed = @ \/ o # "pass"]
    /\ UNCHANGED <<queueVars, flagVars, report, pc, held, setups>>

TeardownDone ==
    /\ main.pc = "teardown" /\ main.next > NumJobsToStart
    /\ main' = Returned(main)
    /\ UNCHANGED <<queueVars, flagVars, report, pc, held, fixtureVars, hist>>

MainThread ==
    \/ BeginRepetition \/ LoopDone \/ StartThread \/ JoinQueue
    \/ SetupFailed \/ RaiseUserInterrupt \/ EndRepetition
    \/ Finally \/ TeardownNext \/ TeardownDone

\* Ctrl-C while _run_tests starts the threads or waits for the queue.
UserInterrupt ==
    /\ main.pc \in {"start", "join"} /\ main.interrupts < MaxInterrupts
    /\ interruptFlag' = TRUE
    /\ main' = [main EXCEPT !.pc = "thr_join", !.interrupts = @ + 1, !.user_interrupted = TRUE]
    /\ UNCHANGED <<queueVars, setupFlag, teardownFlag, report, pc, held, fixtureVars, hist>>

\* Ctrl-C while _run_tests waits for the threads leaves run() at once.
InterruptThreadJoin ==
    /\ main.pc = "thr_join" /\ main.interrupts < MaxInterrupts
    /\ main' = [main EXCEPT !.pc = "finally", !.interrupts = @ + 1, !.exc = "KeyboardInterrupt"]
    /\ hist' = [hist EXCEPT !.abandoned = TRUE]
    /\ UNCHANGED <<queueVars, flagVars, report, pc, held, fixtureVars>>

\* Ctrl-C while the main thread tears a fixture down.
InterruptTeardown ==
    /\ main.pc = "teardown" /\ main.next <= NumJobsToStart /\ main.interrupts < MaxInterrupts
    /\ teardowns' = [teardowns EXCEPT ![main.next] = @ + 1]
    /\ main' = Returned([main EXCEPT !.interrupts = @ + 1, !.exc = "KeyboardInterrupt"])
    /\ hist' = [hist EXCEPT !.failed = TRUE]
    /\ UNCHANGED <<queueVars, flagVars, report, pc, held, setups>>

CtrlC == UserInterrupt \/ InterruptThreadJoin \/ InterruptTeardown

Next == MainThread \/ CtrlC \/ \E j \in Jobs : Job(j)

Spec == Init /\ [][Next]_vars

\* Every thread keeps running (tests end); nobody has to press Ctrl-C.
FairSpec == Spec /\ WF_vars(MainThread) /\ \A j \in Jobs : WF_vars(Job(j))

-----------------------------------------------------------------------------
(* Correctness. *)

\* The queue's count of unfinished tasks is exact: every element put is either
\* waiting or taken by a thread that still owes its task_done().  So join()
\* (utils/queue.py) never returns over a test in progress, whichever threads
\* run, drain or requeue.
TaskAccounting == unfinished = Len(queue) + Cardinality(Holders)

\* No test is run by two jobs at once, and none is queued while a job may still
\* run or requeue it: taking from and putting back to the queue (_run and
\* _requeue_test in job.py) hand an element from one owner to the next.
ElementOwnedOnce ==
    /\ \A i, k \in DOMAIN queue : i # k => queue[i] # queue[k]
    /\ \A j \in Jobs : pc[j] \in Owning => \A i \in DOMAIN queue : queue[i] # held[j]
    /\ \A j, k \in Jobs : j # k /\ pc[j] \in Owning /\ pc[k] \in Owning => held[j] # held[k]

\* When _run_tests has joined the threads and no job raised the interrupt flag,
\* nothing is left in the queue, every test was run, and every element is
\* satisfied with its repetitions, although a job leaves its loop as soon as it
\* finds the queue empty and others may requeue later.
CompleteUnlessInterrupted ==
    ThreadsJoined /\ ~interruptFlag =>
        /\ queue = <<>> /\ unfinished = 0
        /\ \A e \in Elems : e \in hist.ran /\ ~ShouldRequeue(elems[e])

\* A test runs at most as often as its queue element allows: once, or
\* num_repeat_tests_max times when a maximum is set (queue_element.py).
RunsBounded ==
    \A e \in Elems :
        /\ ~IsRepeatTime => elems[e].repeat_num <= 1
        /\ IsRepeatTime /\ NumRepeatTestsMax > 0 => elems[e].repeat_num <= NumRepeatTestsMax

\* A job's fixture is torn down at most once in a whole run, be it by the job's
\* thread in the last repetition or by run()'s finally clause.
TeardownAtMostOnce == \A j \in Jobs : teardowns[j] <= 1

\* When run() is over and was not cut short by an exception from the teardown
\* itself or by a Ctrl-C during a wait for the threads, every fixture was torn
\* down, save those whose thread the last repetition never started.
TornDownAtEnd ==
    main.pc = "done" /\ main.exc \in {"none", "UserInterrupt", "ResmokeError"} =>
        \A j \in Jobs : teardowns[j] = 1 \/ pc[j] = "none"

\* No job sets up a fixture, runs a hook or a test once its fixture is torn down,
\* unless a Ctrl-C made the main thread stop waiting for the threads.
RunsOnLiveFixture ==
    ~hist.abandoned => \A j \in Jobs : pc[j] \notin {"none", "done"} => teardowns[j] = 0

\* resmoke.py's exit code for the suite is 0 only if no test, hook or fixture
\* result of any repetition was a failure.
VerdictSound == main.pc = "done" /\ main.exit_code = 0 => ~hist.failed

\* The run ends: neither the wait for the queue nor the wait for the threads in
\* _run_tests blocks for ever.
Termination == <>(main.pc = "done")

(* What comments and docstrings say, and the code does not do. *)

\* job.py, _interrupt_all_jobs: "Drain the queue to unblock the main thread."
\* When every job has returned, the main thread is not left waiting in join().
DrainUnblocksMain ==
    main.pc = "join" /\ (\A j \in Jobs : pc[j] = "done") => unfinished = 0

\* executor.py, run: "There should be at least as many tests results as expected
\* number of tests."  A suite that exits with 0 has run all of its tests.
PassMeansAllRan == main.pc = "done" /\ main.exit_code = 0 => ~hist.skipped

\* executor.py, run: "Have the Job threads destroy their fixture during the final
\* repetition".  A fixture that was set up is destroyed when run() ends with the
\* UserInterrupt it raises itself.
FixturesDestroyed ==
    main.pc = "done" /\ main.exc = "UserInterrupt" =>
        \A j \in Jobs : setups[j] => teardowns[j] = 1

\* resmoke.py, _execute_suite: "Execute a suite and return True if interrupted,
\* False otherwise."
InterruptReported == main.pc = "done" /\ main.interrupts > 0 => main.stopped
=============================================================================
