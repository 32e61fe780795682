------------------------- MODULE BackgroundJobProofs -------------------------
(***************************************************************************)
(* The script of a background hook stays out of what follows its test, for *)
(* any number of tests.                                                    *)
(***************************************************************************)
EXTENDS BackgroundJob, TLAPS

\* The flag under the lock is false while the thread is busy, from its wake-up
\* to the finally clause.
IdleIsIdle == isIdle => thread \in {"none", "wait", "exited"}

\* The test case that the job signals is the one of its test.
CaseOfTest ==
    /\ job \in {"clear_exc", "resume", "test", "signal", "pause", "check_exc"} => testCase = test
    /\ job \in {"pause", "check_exc"} => test \in signalled
    /\ hist.returned \subseteq signalled

\* After pause() a thread that wakes up late finds its test case signalled.
LateThread ==
    job = "check_exc" =>
        thread # "script" /\ (thread = "loop" => current = test)

Types == DOMAIN hist = {"calls", "failed", "returned", "skipped"}

IInv == Types /\ IdleIsIdle /\ CaseOfTest /\ LateThread /\ NoScriptAfterTest

(* A step of the background thread: only a test case that is not signalled *)
(* has its script run.                                                     *)
LEMMA ThreadPreserves == ASSUME IInv, Thread PROVE IInv'
<1>1. Types'
  BY DEF Thread, WakeUp, CallTestCase, RunTest, EndScript, MarkIdle, IInv, Types
<1>2. hist'.returned = hist.returned /\ job' = job /\ test' = test /\ testCase' = testCase
      /\ signalled' = signalled
  BY DEF Thread, WakeUp, CallTestCase, RunTest, EndScript, MarkIdle, locked, IInv, Types
<1>3. IdleIsIdle'
  BY DEF Thread, WakeUp, CallTestCase, RunTest, EndScript, MarkIdle, locked, IInv, Types, IdleIsIdle
<1>4. CaseOfTest' BY <1>2 DEF IInv, CaseOfTest
<1>5. LateThread'
  BY <1>2 DEF Thread, WakeUp, CallTestCase, RunTest, EndScript, MarkIdle, IInv, CaseOfTest, LateThread
<1>6. NoScriptAfterTest'
  BY <1>2 DEF Thread, WakeUp, CallTestCase, RunTest, EndScript, MarkIdle, IInv, CaseOfTest,
              NoScriptAfterTest
<1> QED BY <1>1, <1>3, <1>4, <1>5, <1>6 DEF IInv

(* A step of the job thread: when after_test returns, the thread has been  *)
(* idle since the test case was signalled.                                 *)
LEMMA JobPreserves == ASSUME IInv, Job PROVE IInv'
<1>1. Types'
  BY DEF Job, BeforeSuite, BeforeTest, ClearExc, Resume, EndTest, SignalStopTest, Pause,
         CheckExc, Stop, StopCase, StopResume, Join, IInv, Types
<1> USE DEF IInv, Types
<1>2. CASE BeforeSuite \/ BeforeTest \/ ClearExc \/ Resume \/ Stop \/ StopCase \/ StopResume \/ Join
  BY <1>1, <1>2 DEF BeforeSuite, BeforeTest, ClearExc, Resume, Stop, StopCase, StopResume, Join,
                    locked, IdleIsIdle, CaseOfTest, LateThread, NoScriptAfterTest
<1>3. CASE EndTest
  BY <1>1, <1>3 DEF EndTest, AfterLastTest, locked, IdleIsIdle, CaseOfTest, LateThread, NoScriptAfterTest
<1>4. CASE SignalStopTest
  BY <1>1, <1>4 DEF SignalStopTest, locked, IdleIsIdle, CaseOfTest, LateThread, NoScriptAfterTest
<1>5. CASE Pause
  BY <1>1, <1>5 DEF Pause, locked, IdleIsIdle, CaseOfTest, LateThread, NoScriptAfterTest
<1>6. CASE CheckExc
  BY <1>1, <1>6 DEF CheckExc, AfterLastTest, locked, IdleIsIdle, CaseOfTest, LateThread, NoScriptAfterTest
<1> QED BY <1>2, <1>3, <1>4, <1>5, <1>6 DEF Job

(* Once after_test has returned, the script of its test case does not run  *)
(* any more, although the thread may still wake up for it: the order of    *)
(* signal_stop_test() and the wait in pause() sees to that.                *)
THEOREM NoScriptAfterTestHolds == Spec => []NoScriptAfterTest
<1>1. Init => IInv
  BY DEF Init, IInv, Types, IdleIsIdle, CaseOfTest,
         LateThread, NoScriptAfterTest
<1>2. IInv /\ [Next]_vars => IInv'
  <2>1. IInv /\ UNCHANGED vars => IInv'
    BY DEF vars, locked, IInv, Types, IdleIsIdle, CaseOfTest, LateThread, NoScriptAfterTest
  <2> QED BY <2>1, ThreadPreserves, JobPreserves DEF Next
<1>3. IInv => NoScriptAfterTest BY DEF IInv
<1> QED BY <1>1, <1>2, <1>3, PTL DEF Spec
=============================================================================
