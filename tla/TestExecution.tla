---------------------------- MODULE TestExecution ----------------------------
(***************************************************************************)
(* How one Job runs its tests (testing/job.py): before_suite on each hook, *)
(* then for every test before_test on each hook, the test, the checks that *)
(* may stop the job, and after_test on each hook, then after_suite.  Each  *)
(* part may raise, and what it raises decides what the report says and     *)
(* whether the job goes on.  Threads that hooks run in the background add  *)
(* results of their own meanwhile (hooks/background_job.py), each when its *)
(* test case ends.                                                         *)
(*                                                                         *)
(* The queue and the other jobs are Executor's; this module shows that an  *)
(* execution has only the outcomes that Executor allows for.               *)
(***************************************************************************)
EXTENDS Naturals, Sequences, TestOutcome

CONSTANTS
    NumHooks,      \* len(job.hooks)
    Background,    \* the hooks that run a thread of their own
    CheckFixture,  \* job._check_if_fixture_running
    MaxTests       \* bound: how many tests the job takes from the queue

ASSUME TestExecutionAssumption ==
    /\ NumHooks \in Nat \ {0}
    /\ Background \subseteq 1 .. NumHooks
    /\ CheckFixture \in BOOLEAN
    /\ MaxTests \in Nat
    \* A hook adds at most one result itself.  Its thread adds one for each time
    \* it was told to run: by this test, by the one before and by one before that.
    /\ NumHookTests >= 3 * NumHooks

Hooks == 1 .. NumHooks

TheTest == 0

VARIABLES
    failFast,   \* suite_options.fail_fast, either value
    pc,         \* where the job is
    hook,       \* index of the loops over job.hooks
    tests,      \* how many tests were started
    infos,      \* report.test_infos, those of the current execution
    fixtureUp,  \* fixture.is_running()
    thread,     \* the background thread of each hook
    archived,   \* calls of archive(): what was archived, and as a success or not
    checked,    \* history: hooks whose after_test returned
    outcome,    \* history: how the last execution ended
    suite       \* history: the hooks whose before_suite and after_suite returned

vars == <<failFast, pc, hook, tests, infos, fixtureUp, thread, archived, checked, outcome, suite>>

\* status is None until TestReport.addXX() is called.
Info == [of : Hooks \cup {TheTest}, status : {"None", "pass", "fail", "error"}]

Result(of, status) == [of |-> of, status |-> status]

\* What a method of a hook may raise.  LoggerRuntimeConfigError, a StopExecution,
\* comes only out of startTest() and leaves its result without a status.
Errors == {"TestFailure", "ServerFailure", "Exception"}

\* The _BackgroundJob of a hook.  The test case it holds and the one it runs are the
\* same ("current") until the job gives it another one.  A thread that calls has
\* woken up, and has not read yet which test case it holds.
Thread == [testCase : {"None", "live", "signalled"},  \* _hook_test_case
           shouldResume : BOOLEAN,
           runs : {"nothing", "call", "current", "old", "oldSignalled"},
           excInfo : {"None", "error", "StopExecution"}]

NoThread == [testCase |-> "None", shouldResume |-> FALSE, runs |-> "nothing", excInfo |-> "None"]

NoOutcome == [infos |-> 0, bad |-> FALSE, failed |-> FALSE, stop |-> TRUE, ran |-> FALSE]

TypeOK ==
    /\ failFast \in BOOLEAN
    /\ pc \in {"before_suite", "next", "before", "resume", "start", "running", "check", "after",
               "pause", "after_suite", "stopped", "done"}
    /\ hook \in Hooks
    /\ tests \in 0 .. MaxTests
    /\ infos \in Seq(Info)
    /\ fixtureUp \in BOOLEAN
    /\ thread \in [Hooks -> Thread]
    /\ archived \in Seq([of : Hooks \cup {TheTest}, success : BOOLEAN])
    /\ checked \subseteq Hooks
    /\ outcome \in ExecOutcome
    /\ suite \in [before : SUBSET Hooks, after : SUBSET Hooks]

Init ==
    /\ failFast \in BOOLEAN
    /\ pc = "before_suite"
    /\ hook = 1
    /\ tests = 0
    /\ infos = <<>>
    /\ fixtureUp = TRUE
    /\ thread = [h \in Hooks |-> NoThread]
    /\ archived = <<>>
    /\ checked = {}
    /\ outcome = NoOutcome
    /\ suite = [before |-> {}, after |-> {}]

-----------------------------------------------------------------------------
(* The report. *)

IsOwn(i) == infos[i].of = TheTest

\* find_test_info searches the list backwards.
FindTestInfo == CHOOSE i \in DOMAIN infos :
    IsOwn(i) /\ \A k \in DOMAIN infos : IsOwn(k) => k <= i

TestStatus == infos[FindTestInfo].status

\* setFailure and setError, after the results that were added meanwhile.
SetStatus(status, added) == [infos EXCEPT ![FindTestInfo].status = status] \o added

Archive(of, success) == archived' = Append(archived, [of |-> of, success |-> success])

IsBad(info) == info.status # "pass"

\* _execute_test returns, or raises and so ends the loop of _run.
Finish(results, stop) ==
    /\ infos' = results
    /\ pc' = IF stop THEN "stopped" ELSE "next"
    /\ outcome' = [infos |-> Len(results),
                   bad |-> \E i \in DOMAIN results : IsBad(results[i]),
                   failed |-> \E i \in DOMAIN results : results[i].of = TheTest /\ IsBad(results[i]),
                   stop |-> stop,
                   ran |-> pc \in {"check", "after", "pause"}]
    /\ hook' = 1

-----------------------------------------------------------------------------
(* The hooks around the suite. *)

NextHook(loop, next) ==
    IF hook < NumHooks THEN hook' = hook + 1 /\ pc' = loop ELSE hook' = 1 /\ pc' = next

BeforeSuite ==
    /\ pc = "before_suite"
    /\ \/ /\ NextHook("before_suite", "next")
          /\ suite' = [suite EXCEPT !.before = @ \cup {hook}]
       \/ /\ pc' = "stopped"
          /\ UNCHANGED <<hook, suite>>
    /\ UNCHANGED <<tests, infos, fixtureUp, thread, archived, checked, outcome>>

\* stop() joins the thread, which finishes what it was told to run before.
AfterSuite ==
    /\ pc = "after_suite"
    /\ thread[hook].runs \in {"nothing", "call"}
    /\ \/ /\ NextHook("after_suite", "done")
          /\ thread' = [thread EXCEPT ![hook] = NoThread]
          /\ suite' = [suite EXCEPT !.after = @ \cup {hook}]
       \/ /\ pc' = "stopped"
          /\ UNCHANGED <<hook, thread, suite>>
    /\ UNCHANGED <<tests, infos, fixtureUp, archived, checked, outcome>>

\* The loop of _run takes another test, and configures it, or finds none.
NextTest ==
    /\ pc = "next"
    /\ \/ /\ tests < MaxTests
          /\ tests' = tests + 1
          /\ infos' = <<>> /\ archived' = <<>> /\ checked' = {}
          /\ \/ pc' = "before" /\ UNCHANGED outcome
             \/ pc' = "stopped" /\ outcome' = NoOutcome
       \/ /\ pc' = "after_suite"
          /\ UNCHANGED <<tests, infos, archived, checked, outcome>>
    /\ UNCHANGED <<hook, fixtureUp, thread, suite>>

-----------------------------------------------------------------------------
(* _execute_test. *)

\* Slip: after a failed before_test the job goes on with the next test.
BeforeTestSkips(e) == Finish(Append(infos, Result(TheTest, "fail")), FALSE)

\* The handlers of _run_hooks_before_tests; the result they start may raise too.
BeforeTestRaised(e) ==
    \/ Finish(Append(infos, Result(TheTest, "None")), TRUE)
    \/ /\ e = "Exception"
       /\ Finish(Append(infos, Result(TheTest, "error")), TRUE)
    \/ /\ e = "ServerFailure" \/ (e = "TestFailure" /\ failFast)
       /\ Finish(Append(infos, Result(TheTest, "fail")), TRUE)
    \/ /\ e = "TestFailure" /\ ~failFast
       /\ infos' = Append(infos, Result(TheTest, "fail"))
       /\ pc' = "start" /\ hook' = 1 /\ UNCHANGED outcome

BeforeTest ==
    /\ pc = "before"
    /\ \/ /\ hook \notin Background
          /\ Archive(hook, TRUE) /\ NextHook("before", "start")
          /\ UNCHANGED <<infos, outcome>>
       \/ /\ Archive(hook, FALSE)
          /\ \E e \in Errors : BeforeTestRaised(e)
    /\ UNCHANGED <<tests, fixtureUp, thread, checked, suite>>

\* The test case that the thread runs when it is given another one.
NoLongerCurrent(t) ==
    CASE t.runs # "current" -> t.runs
      [] t.testCase = "signalled" -> "oldSignalled"
      [] OTHER -> "old"

\* resume() gives the thread a test case.  A thread that was told to run the one before
\* may wake up now and run this one.
ResumeSet ==
    /\ pc = "before" /\ hook \in Background
    /\ thread' = [thread EXCEPT ![hook].testCase = "live", ![hook].runs = NoLongerCurrent(thread[hook])]
    /\ pc' = "resume"
    /\ UNCHANGED <<hook, tests, infos, fixtureUp, archived, checked, outcome, suite>>

\* It forgets how the last run ended, and tells the thread to run.
Resume ==
    /\ pc = "resume"
    /\ thread' = [thread EXCEPT ![hook].excInfo = "None", ![hook].shouldResume = TRUE]
    /\ Archive(hook, TRUE) /\ NextHook("before", "start")
    /\ UNCHANGED <<tests, infos, fixtureUp, checked, outcome, suite>>

\* test(self.report) starts the result of the test, runs it and records how it went.
StartTest ==
    /\ pc = "start"
    /\ \/ Finish(Append(infos, Result(TheTest, "None")), TRUE)
       \/ /\ infos' = Append(infos, Result(TheTest, "None"))
          /\ pc' = "running"
          /\ UNCHANGED <<hook, outcome>>
    /\ UNCHANGED <<tests, fixtureUp, thread, archived, checked, suite>>

EndTest ==
    /\ pc = "running"
    /\ \E status \in {"pass", "fail", "error"} : infos' = SetStatus(status, <<>>)
    /\ pc' = "check"
    /\ UNCHANGED <<hook, tests, fixtureUp, thread, archived, checked, outcome, suite>>

FixtureCrash ==
    /\ pc = "running" /\ fixtureUp
    /\ fixtureUp' = FALSE
    /\ UNCHANGED <<pc, hook, tests, infos, thread, archived, checked, outcome, suite>>

TestFailed == TestStatus # "pass"

\* Slip: the archival follows the checks, outside of the finally clause.
CheckWithoutFinally ==
    /\ pc = "check"
    /\ \/ /\ failFast /\ TestFailed
          /\ Finish(infos, TRUE)
          /\ UNCHANGED archived
       \/ /\ ~(failFast /\ TestFailed)
          /\ pc' = "after"
          /\ Archive(TheTest, ~TestFailed)
          /\ UNCHANGED <<infos, hook, outcome>>
    /\ UNCHANGED <<tests, fixtureUp, thread, checked, suite>>

\* The try block after the test, with its finally clause.
CheckTest ==
    /\ pc = "check"
    /\ \/ /\ failFast /\ TestFailed
          /\ Archive(TheTest, FALSE)
          /\ Finish(infos, TRUE)
       \/ /\ ~(failFast /\ TestFailed) /\ CheckFixture /\ ~fixtureUp
          /\ Archive(TheTest, FALSE)
          /\ Finish(SetStatus("fail", <<>>), TRUE)
       \/ /\ ~(failFast /\ TestFailed) /\ ~(CheckFixture /\ ~fixtureUp)
          /\ Archive(TheTest, TestStatus = "pass")
          /\ pc' = "after"
          /\ UNCHANGED <<infos, hook, outcome>>
    /\ UNCHANGED <<tests, fixtureUp, thread, checked, suite>>

\* Slip: a hook's failure stops the job but does not change the test's outcome.
AfterTestUnrecorded(e, added) ==
    /\ Archive(hook, FALSE)
    /\ Finish(infos \o added, TRUE)
    /\ UNCHANGED checked

\* The handlers of _run_hooks_after_tests, after the hook added some results.
AfterTestRaised(e, added) ==
    /\ Archive(hook, FALSE)
    /\ \/ e = "Exception" /\ Finish(SetStatus("error", added), TRUE)
       \/ e = "ServerFailure" /\ Finish(SetStatus("fail", added), TRUE)
       \/ e = "TestFailure" /\ Finish(SetStatus("fail", added), failFast)
    /\ UNCHANGED checked

AfterTestReturned(added) ==
    /\ Archive(hook, TRUE)
    /\ checked' = checked \cup {hook}
    /\ IF hook < NumHooks
         THEN infos' = infos \o added /\ hook' = hook + 1 /\ UNCHANGED <<pc, outcome>>
         ELSE Finish(infos \o added, FALSE)

\* A hook that runs a test of its own with run_dynamic_test, or none.
AfterTest ==
    /\ pc = "after" /\ hook \notin Background
    /\ \/ \E added \in {<<>>, <<Result(hook, "pass")>>} :
            AfterTestReturned(added) \/ \E e \in Errors : AfterTestRaised(e, added)
       \/ \E e \in Errors : AfterTestRaised(e, <<Result(hook, "fail")>>)
       \/ /\ Archive(hook, FALSE)
          /\ Finish(Append(infos, Result(hook, "None")), TRUE)
          /\ UNCHANGED checked
    /\ UNCHANGED <<tests, fixtureUp, thread, suite>>

\* pause() signals the test case that the hook holds; there is none if before_test was
\* never called because the one of another hook failed.
PauseSignal ==
    /\ pc = "after" /\ hook \in Background
    /\ IF thread[hook].testCase = "None"
       THEN AfterTestRaised("Exception", <<>>) /\ UNCHANGED thread
       ELSE /\ thread' = [thread EXCEPT ![hook].testCase = "signalled"]
            /\ pc' = "pause"
            /\ UNCHANGED <<hook, infos, archived, checked, outcome>>
    /\ UNCHANGED <<tests, fixtureUp, suite>>

\* It returns when the thread is idle, also if that has not woken up yet.  What the
\* thread ended with is raised.
AfterTestBackground ==
    /\ pc = "pause" /\ thread[hook].runs = "nothing"
    /\ CASE thread[hook].excInfo = "None" -> AfterTestReturned(<<>>)
         [] thread[hook].excInfo = "error" ->
               \E e \in {"ServerFailure", "Exception"} : AfterTestRaised(e, <<>>)
         [] thread[hook].excInfo = "StopExecution" ->
               Archive(hook, FALSE) /\ Finish(infos, TRUE) /\ UNCHANGED checked
    /\ UNCHANGED <<tests, fixtureUp, thread, suite>>

\* The loop of the thread: it wakes up when it was told to run ...
ThreadWake(h) ==
    /\ thread[h].shouldResume /\ thread[h].runs = "nothing"
    /\ thread' = [thread EXCEPT ![h].shouldResume = FALSE, ![h].runs = "call"]
    /\ UNCHANGED infos

\* ... and runs the test case that the hook holds now.  Its startTest() may raise; and
\* a test case that was signalled before it started has nothing to do.
ThreadCall(h) ==
    /\ thread[h].runs = "call"
    /\ \/ /\ thread' = [thread EXCEPT ![h].runs = "nothing", ![h].excInfo = "StopExecution"]
          /\ infos' = Append(infos, Result(h, "None"))
       \/ /\ thread[h].testCase = "signalled"
          /\ thread' = [thread EXCEPT ![h].runs = "nothing"]
          /\ infos' = Append(infos, Result(h, "pass"))
       \/ /\ thread[h].testCase = "live"
          /\ thread' = [thread EXCEPT ![h].runs = "current"]
          /\ UNCHANGED infos

\* The test case runs its file again and again, until it fails or was signalled.
ThreadResult(h) ==
    /\ thread[h].runs \in {"current", "old", "oldSignalled"}
    /\ \/ /\ thread' = [thread EXCEPT ![h].runs = "nothing", ![h].excInfo = "error"]
          /\ infos' = Append(infos, Result(h, "fail"))
       \/ /\ thread[h].runs = "oldSignalled"
             \/ (thread[h].runs = "current" /\ thread[h].testCase = "signalled")
          /\ thread' = [thread EXCEPT ![h].runs = "nothing"]
          /\ infos' = Append(infos, Result(h, "pass"))

BackgroundThread(h) ==
    /\ ThreadWake(h) \/ ThreadCall(h) \/ ThreadResult(h)
    /\ UNCHANGED <<pc, hook, tests, fixtureUp, archived, checked, outcome, suite>>

JobStep ==
    \/ BeforeSuite \/ NextTest \/ BeforeTest \/ ResumeSet \/ Resume \/ StartTest \/ EndTest
    \/ CheckTest \/ AfterTest \/ PauseSignal \/ AfterTestBackground \/ AfterSuite

Next ==
    /\ JobStep \/ FixtureCrash \/ \E h \in Background : BackgroundThread(h)
    /\ UNCHANGED failFast

Spec == Init /\ [][Next]_vars

-----------------------------------------------------------------------------
(* Correctness. *)

\* An execution of a test ends as Executor assumes (Job._execute_test): only a
\* test that was run lets the job go on, a failure recorded for the test stops a
\* fail_fast job, and each result is accounted for, also those of threads that
\* run late, twice or a test case of an earlier test.
OutcomePromised == outcome \in ExecOutcomes(failFast)

Ended == pc \in {"next", "stopped"} /\ tests > 0 /\ outcome # NoOutcome

\* A startTest() has raised, of this test or of the run that a thread has ended with.
LogFailed ==
    \/ \E i \in DOMAIN infos : infos[i].status = "None"
    \/ \E h \in Background : thread[h].excInfo = "StopExecution"

\* A test that the report calls passed was checked by the after_test of every
\* hook, and none of them raised, whatever background threads added meanwhile;
\* only a log that could not be set up cuts the hooks short, and that stops the
\* job (_execute_test).
PassMeansChecked ==
    Ended /\ outcome.ran /\ TestStatus = "pass" => checked = Hooks \/ (outcome.stop /\ LogFailed)

\* The data files are kept for every failure: when the test or one of its hooks
\* failed, archive() was called for it as a failure before the job went on or
\* tears its fixture down (the finally clauses of _execute_test and _run_hook).
FailureArchived ==
    Ended /\ (\E i \in DOMAIN infos : infos[i].of = TheTest /\ infos[i].status \in {"fail", "error"}) =>
        \E i \in DOMAIN archived : ~archived[i].success

(* What a docstring says, and the code does not do. *)

\* hooks/interface.py, after_suite: "Invoke by test runner calls this exactly once
\* after all tests have finished executing."
AfterSuiteCalled == pc \in {"stopped", "done"} /\ tests > 0 => suite.after = suite.before
=============================================================================
