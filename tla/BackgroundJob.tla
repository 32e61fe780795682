---------------------------- MODULE BackgroundJob ----------------------------
(***************************************************************************)
(* A hook that runs a script over and over while a test runs: the thread   *)
(* _BackgroundJob (hooks/background_job.py) and the job thread that calls  *)
(* it through the methods of ValidateCollectionsInBackground and           *)
(* CheckReplDBHashInBackground, which are alike.                           *)
(*                                                                         *)
(* The two threads share fields of which only three are guarded by the     *)
(* lock.  A step is one critical section, or one access to a field that is *)
(* not guarded.  Test case t belongs to test t of the suite.               *)
(***************************************************************************)
EXTENDS Naturals

CONSTANTS
    NumTests,  \* how many tests the job runs
    MaySkip    \* whether a hook before this one may make the job skip after_test

ASSUME BackgroundJobAssumption == NumTests \in Nat \ {0} /\ MaySkip \in BOOLEAN

Tests == 1 .. NumTests

None == 0

VARIABLES
    shouldStop, shouldResume, isIdle,  \* guarded by _lock
    testCase,   \* _hook_test_case
    excInfo,    \* exc_info: "none", "TestFailure" or "other"
    signalled,  \* the test cases whose _should_stop event is set
    thread,     \* where the background thread is
    current,    \* the test case it executes
    job,        \* where the job thread is
    test,       \* the test the job is at
    hist        \* history, for the properties

locked == <<shouldStop, shouldResume, isIdle>>
vars == <<locked, testCase, excInfo, signalled, thread, current, job, test, hist>>

ThreadStates == {"none", "wait", "call", "loop", "script", "idle", "exited"}

JobStates == {"before_suite", "before_test", "clear_exc", "resume", "test", "signal", "pause",
              "check_exc", "stop", "stop_case", "stop_resume", "join", "left", "done"}

TypeOK ==
    /\ shouldStop \in BOOLEAN /\ shouldResume \in BOOLEAN /\ isIdle \in BOOLEAN
    /\ testCase \in Tests \cup {None}
    /\ excInfo \in {"none", "TestFailure", "other"}
    /\ signalled \subseteq Tests
    /\ thread \in ThreadStates
    /\ current \in Tests \cup {None}
    /\ job \in JobStates
    /\ test \in Tests
    /\ hist \in [calls : [Tests -> Nat],       \* run_dynamic_test() per test case
                 failed : SUBSET Tests,        \* test cases whose script failed
                 returned : SUBSET Tests,      \* tests whose after_test returned
                 skipped : BOOLEAN]            \* whether an after_test was skipped

Init ==
    /\ shouldStop = FALSE /\ shouldResume = FALSE /\ isIdle = TRUE
    /\ testCase = None
    /\ excInfo = "none"
    /\ signalled = {}
    /\ thread = "none"
    /\ current = None
    /\ job = "before_suite"
    /\ test = 1
    /\ hist = [calls |-> [t \in Tests |-> 0], failed |-> {}, returned |-> {}, skipped |-> FALSE]

-----------------------------------------------------------------------------
(* The background thread: run(). *)

\* Slip: the thread becomes busy only after it has released the lock.
WakeUpIdle ==
    /\ thread = "wait" /\ shouldResume
    /\ shouldResume' = FALSE
    /\ thread' = IF shouldStop THEN "exited" ELSE "call"
    /\ UNCHANGED <<shouldStop, isIdle, testCase, excInfo, signalled, current, job, test, hist>>

\* resume() notifies under the lock, so a wake-up is never lost.
WakeUp ==
    /\ thread = "wait" /\ shouldResume
    /\ shouldResume' = FALSE
    /\ \/ shouldStop /\ thread' = "exited" /\ UNCHANGED isIdle
       \/ ~shouldStop /\ thread' = "call" /\ isIdle' = FALSE
    /\ UNCHANGED <<shouldStop, testCase, excInfo, signalled, current, job, test, hist>>

\* self._hook_test_case.run_dynamic_test(), which reads the field without the lock;
\* a result that cannot be started raises, and so does None.
CallTestCase ==
    /\ thread = "call"
    /\ current' = testCase
    /\ \/ /\ testCase # None
          /\ thread' = "loop"
          /\ hist' = [hist EXCEPT !.calls[testCase] = @ + 1]
          /\ UNCHANGED excInfo
       \/ /\ thread' = "idle"
          /\ excInfo' = "other"
          /\ UNCHANGED hist
    /\ UNCHANGED <<locked, testCase, signalled, job, test>>

\* _ContinuousDynamicJSTestCase.run_test(): until it is told to stop.
RunTest ==
    /\ thread = "loop"
    /\ thread' = IF current \in signalled THEN "idle" ELSE "script"
    /\ UNCHANGED <<locked, testCase, excInfo, signalled, current, job, test, hist>>

\* The script passes, or fails with a non-zero return code, or raises something else.
EndScript ==
    /\ thread = "script"
    /\ \/ thread' = "loop" /\ UNCHANGED <<excInfo, hist>>
       \/ /\ thread' = "idle"
          /\ excInfo' \in {"TestFailure", "other"}
          /\ hist' = [hist EXCEPT !.failed = @ \cup {current}]
    /\ UNCHANGED <<locked, testCase, signalled, current, job, test>>

\* The finally clause.
MarkIdle ==
    /\ thread = "idle"
    /\ thread' = "wait"
    /\ isIdle' = TRUE
    /\ UNCHANGED <<shouldStop, shouldResume, testCase, excInfo, signalled, current, job, test, hist>>

Thread == WakeUp \/ CallTestCase \/ RunTest \/ EndScript \/ MarkIdle

-----------------------------------------------------------------------------
(* The job thread. *)

BeforeSuite ==
    /\ job = "before_suite" /\ job' = "before_test"
    /\ thread' = "wait"
    /\ UNCHANGED <<locked, testCase, excInfo, signalled, current, test, hist>>

\* before_test() makes a new test case and calls resume(), which writes two fields
\* without the lock before it takes the lock.
BeforeTest ==
    /\ job = "before_test" /\ job' = "clear_exc"
    /\ testCase' = test
    /\ UNCHANGED <<locked, excInfo, signalled, thread, current, test, hist>>

ClearExc ==
    /\ job = "clear_exc" /\ job' = "resume"
    /\ excInfo' = "none"
    /\ UNCHANGED <<locked, testCase, signalled, thread, current, test, hist>>

Resume ==
    /\ job = "resume" /\ job' = "test"
    /\ shouldResume' = TRUE
    /\ UNCHANGED <<shouldStop, isIdle, testCase, excInfo, signalled, thread, current, test, hist>>

AfterLastTest == IF test = NumTests THEN "stop" ELSE "before_test"

\* The test ends.  The job calls after_test, or another hook's failure makes it skip
\* that, or it stops without calling the hooks of the suite any more.
EndTest ==
    /\ job = "test"
    /\ \/ job' \in {"signal", "left"} /\ UNCHANGED <<test, hist>>
       \/ /\ MaySkip
          /\ job' = AfterLastTest
          /\ test' = IF test = NumTests THEN test ELSE test + 1
          /\ hist' = [hist EXCEPT !.skipped = TRUE]
    /\ UNCHANGED <<locked, testCase, excInfo, signalled, thread, current>>

\* pause(): signal_stop_test(), then wait until the thread is idle.
SignalStopTest ==
    /\ job = "signal" /\ job' = "pause"
    /\ signalled' = signalled \cup {testCase}
    /\ UNCHANGED <<locked, testCase, excInfo, thread, current, test, hist>>

Pause ==
    /\ job = "pause" /\ isIdle /\ job' = "check_exc"
    /\ UNCHANGED <<locked, testCase, excInfo, signalled, thread, current, test, hist>>

\* The rest of after_test(): an exception of the thread is raised, which stops the job.
CheckExc ==
    /\ job = "check_exc"
    /\ \/ excInfo # "none" /\ job' = "left" /\ UNCHANGED <<test, hist>>
       \/ /\ excInfo = "none"
          /\ job' = AfterLastTest
          /\ test' = IF test = NumTests THEN test ELSE test + 1
          /\ hist' = [hist EXCEPT !.returned = @ \cup {test}]
    /\ UNCHANGED <<locked, testCase, excInfo, signalled, thread, current>>

\* Slip: stop() does not wake the thread up.
StopWithoutResume ==
    /\ job = "stop" /\ job' = "join"
    /\ shouldStop' = TRUE
    /\ UNCHANGED <<shouldResume, isIdle, testCase, excInfo, signalled, thread, current, test, hist>>

\* after_suite() calls stop(), which sets the flag, resumes the thread with no test
\* case, and joins it.
Stop ==
    /\ job = "stop" /\ job' = "stop_case"
    /\ shouldStop' = TRUE
    /\ UNCHANGED <<shouldResume, isIdle, testCase, excInfo, signalled, thread, current, test, hist>>

StopCase ==
    /\ job = "stop_case" /\ job' = "stop_resume"
    /\ testCase' = None /\ excInfo' = "none"
    /\ UNCHANGED <<locked, signalled, thread, current, test, hist>>

StopResume ==
    /\ job = "stop_resume" /\ job' = "join"
    /\ shouldResume' = TRUE
    /\ UNCHANGED <<shouldStop, isIdle, testCase, excInfo, signalled, thread, current, test, hist>>

Join ==
    /\ job = "join" /\ thread = "exited" /\ job' = "done"
    /\ UNCHANGED <<locked, testCase, excInfo, signalled, thread, current, test, hist>>

Job ==
    \/ BeforeSuite \/ BeforeTest \/ ClearExc \/ Resume \/ EndTest \/ SignalStopTest \/ Pause
    \/ CheckExc \/ Stop \/ StopCase \/ StopResume \/ Join

Next == Job \/ Thread

Spec == Init /\ [][Next]_vars

\* Both threads keep running: tests and scripts end.
FairSpec == Spec /\ WF_vars(Job) /\ WF_vars(Thread)

-----------------------------------------------------------------------------
(* Correctness. *)

\* Once after_test has returned for a test, the script of its test case does not
\* run any more, so never beside the hooks that follow nor beside the next test,
\* even if the thread wakes up late (pause(), run() and signal_stop_test()).
NoScriptAfterTest == thread = "script" => current \notin hist.returned

\* after_suite returns, or the job left before: as long as no after_test is skipped,
\* neither the wait of pause() nor the join of stop() blocks the job for ever.
Termination == <>(job \in {"left", "done"} \/ hist.skipped)

(* What comments and docstrings say, and the code does not do. *)

\* background_job.py, run(): "We have the background thread set 'self._should_resume'
\* back to false to ensure that 'self._hook_test_case.run_dynamic_test()' is only
\* called once before the resume() method is called again."
CalledOnce == \A t \in Tests : hist.calls[t] <= 1

\* validate_background.py, after_test(): "If the mongo shell process running the
\* JavaScript file exited with a non-zero return code, then we raise an
\* errors.ServerFailure exception to cause resmoke.py's test execution to stop."
FailureRaised == hist.returned \cap hist.failed = {}

\* background_job.py, pause(): "Signal the background thread that it should stop
\* executing 'self._hook_test_case', and wait until the current execution has
\* finished."
PauseReturns == job = "pause" ~> job # "pause"
=============================================================================
