------------------------------ MODULE Stepdown ------------------------------
(***************************************************************************)
(* The ContinuousStepdown hook (hooks/stepdown.py): the stepdown thread,   *)
(* the job thread that pauses and resumes it around every test, and, when  *)
(* the two communicate through files, the mongo shell that runs the        *)
(* concurrency workload (fsm_libs/resmoke_runner.js).                      *)
(*                                                                         *)
(* A step is one access to an event, to the flags behind the lifecycle's   *)
(* lock, or to one file.  What a round of stepdowns does to the replica    *)
(* sets is left out, but for its beginning, its end and its exceptions.    *)
(***************************************************************************)
EXTENDS Naturals

CONSTANTS
    NumTests,     \* how many tests the job runs
    MayRaise,     \* whether the servers may fail
    ShellMayFail  \* whether the shell may fail, crash or time out

ASSUME StepdownAssumption ==
    /\ NumTests \in Nat \ {0}
    /\ MayRaise \in BOOLEAN /\ ShellMayFail \in BOOLEAN

VARIABLES
    useFiles,               \* whether the hook was given a file for its permission
    testState, shouldStop,  \* the lifecycle's fields
    files,                  \* the files that exist
    idle,                   \* _is_idle_evt
    thread,                 \* where the stepdown thread is
    shell,                  \* where the workload is
    job, hook, test,        \* where the job thread is, in which hook method, of which test
    late,                   \* history: rounds begun since the last test was paused
    unacked                 \* history: whether a workload ended without its acknowledgement

threadVars == <<thread, idle, late>>
shellVars == <<shell, unacked>>
jobVars == <<job, hook, test>>
flags == <<useFiles, testState, shouldStop>>
vars == <<flags, files, threadVars, shellVars, jobVars>>

StepdownFiles == {"permitted", "idle_request", "idle_ack"}

ThreadStates == {"none", "set_idle", "wait", "clear", "round", "stepping", "poll",
                 "ack", "revoke", "interval", "exited", "dead"}

ShellStates == {"off", "setup", "threads", "wait_ack", "teardown", "acked_teardown", "ended"}

JobStates == {"before_suite", "check", "mark", "mark_request", "mark_ack", "await_idle",
              "await_primaries", "resume", "test", "stop", "stop_resume", "join",
              "left", "done"}

TypeOK ==
    /\ useFiles \in BOOLEAN
    /\ testState \in {"start", "finished"} /\ shouldStop \in BOOLEAN
    /\ files \subseteq StepdownFiles
    /\ idle \in BOOLEAN
    /\ thread \in ThreadStates
    /\ shell \in ShellStates
    /\ job \in JobStates /\ hook \in {"before_test", "after_test"} /\ test \in 1 .. NumTests
    /\ late \in Nat /\ unacked \in BOOLEAN

Init ==
    /\ useFiles \in BOOLEAN
    /\ testState = "finished" /\ shouldStop = FALSE
    /\ files = {}
    /\ idle = TRUE
    /\ thread = "none"
    /\ shell = "off"
    /\ job = "before_suite" /\ hook = "before_test" /\ test = 1
    /\ late = 0 /\ unacked = FALSE

-----------------------------------------------------------------------------
(* The stepdown thread: run(). *)

Goto(from, to) == thread = from /\ thread' = to

\* The job has been through the wait of pause() and has not called resume() yet.
Paused ==
    \/ job = "await_primaries"
    \/ /\ hook = "before_test"
       /\ job \in {"check", "mark", "mark_request", "mark_ack", "await_idle", "resume"}

SetIdle ==
    /\ Goto("set_idle", "wait")
    /\ idle' = TRUE
    /\ UNCHANGED <<flags, files, late, shellVars, jobVars>>

\* Slip: the wait goes on although stop() was called.
WaitDespiteStop ==
    /\ IF useFiles THEN "permitted" \in files ELSE testState = "start"
    /\ Goto("wait", "clear")
    /\ UNCHANGED <<flags, files, idle, late, shellVars, jobVars>>

\* wait_for_stepdown_permitted() of either lifecycle.
WaitForStepdownPermitted ==
    /\ \/ shouldStop /\ Goto("wait", "exited")
       \/ /\ ~shouldStop
          /\ IF useFiles THEN "permitted" \in files ELSE testState = "start"
          /\ Goto("wait", "clear")
    /\ UNCHANGED <<flags, files, idle, late, shellVars, jobVars>>

ClearIdle ==
    /\ Goto("clear", "round")
    /\ idle' = FALSE
    /\ UNCHANGED <<flags, files, late, shellVars, jobVars>>

\* The interval since the last round has passed, or it has not.
BeginRound ==
    /\ \/ Goto("round", "stepping") /\ late' = late + (IF Paused THEN 1 ELSE 0)
       \/ Goto("round", "poll") /\ UNCHANGED late
    /\ UNCHANGED <<flags, files, idle, shellVars, jobVars>>

\* _step_down_all() and _await_primaries() return or raise; run() does not set
\* the event when it catches the exception.
EndRound ==
    /\ Goto("stepping", "poll") \/ (MayRaise /\ Goto("stepping", "dead"))
    /\ UNCHANGED <<flags, files, idle, late, shellVars, jobVars>>

\* poll_for_idle_request() of either lifecycle.
PollForIdleRequest ==
    LET requested == IF useFiles THEN "idle_request" \in files ELSE testState = "finished"
    IN  /\ thread = "poll"
        /\ thread' = IF ~requested THEN "interval" ELSE IF useFiles THEN "ack" ELSE "set_idle"
        /\ UNCHANGED <<flags, files, idle, late, shellVars, jobVars>>

\* send_idle_acknowledgement(): first the file ...
WriteAck ==
    /\ Goto("ack", "revoke")
    /\ files' = files \cup {"idle_ack"}
    /\ UNCHANGED <<flags, idle, late, shellVars, jobVars>>

\* Slip: the permission is not revoked.
KeepPermitted ==
    /\ Goto("revoke", "set_idle")
    /\ UNCHANGED <<flags, files, idle, late, shellVars, jobVars>>

\* ... then os.remove(), which raises when the file is gone.
RemovePermitted ==
    /\ IF "permitted" \in files THEN Goto("revoke", "set_idle") ELSE Goto("revoke", "dead")
    /\ files' = files \ {"permitted"}
    /\ UNCHANGED <<flags, idle, late, shellVars, jobVars>>

\* wait_for_stepdown_interval(), until the time is over or a notification.
WaitInterval ==
    /\ Goto("interval", "set_idle")
    /\ UNCHANGED <<flags, files, idle, late, shellVars, jobVars>>

Thread ==
    \/ SetIdle \/ WaitForStepdownPermitted \/ ClearIdle \/ BeginRound \/ EndRound
    \/ PollForIdleRequest \/ WriteAck \/ RemovePermitted \/ WaitInterval

-----------------------------------------------------------------------------
(* The workload's half of the file protocol: runWorkloads().  Its two outer *)
(* finally blocks call $config.teardown() whatever happened.                *)

ShellGoto(from, to) == shell = from /\ shell' = to

Setup ==
    /\ \/ ShellGoto("setup", "threads") /\ files' = files \cup {"permitted"}
       \/ ShellMayFail /\ ShellGoto("setup", "teardown") /\ UNCHANGED files
    /\ UNCHANGED <<flags, threadVars, unacked, jobVars>>

\* joinAll() has returned, with or without errors of the worker threads.
RequestIdle ==
    /\ ShellGoto("threads", "wait_ack")
    /\ files' = files \cup {"idle_request"}
    /\ UNCHANGED <<flags, threadVars, unacked, jobVars>>

\* assert.soonNoExcept() finds the file, or throws when its time is over.
AwaitAck ==
    /\ \/ "idle_ack" \in files /\ ShellGoto("wait_ack", "acked_teardown") /\ UNCHANGED unacked
       \/ ShellMayFail /\ ShellGoto("wait_ack", "teardown") /\ unacked' = TRUE
    /\ UNCHANGED <<flags, files, threadVars, jobVars>>

Teardown ==
    /\ ShellGoto("teardown", "ended") \/ ShellGoto("acked_teardown", "ended")
    /\ UNCHANGED <<flags, files, threadVars, unacked, jobVars>>

Shell == Setup \/ RequestIdle \/ AwaitAck \/ Teardown

ShellCrashes ==
    /\ ShellMayFail /\ shell \notin {"off", "ended"} /\ shell' = "ended"
    /\ unacked' = TRUE
    /\ UNCHANGED <<flags, files, threadVars, jobVars>>

-----------------------------------------------------------------------------
(* The job thread: the hook's methods around each test. *)

JobGoto(from, to) == job = from /\ job' = to

BeforeSuite ==
    /\ JobGoto("before_suite", "check")
    /\ thread' = "set_idle"
    /\ UNCHANGED <<flags, files, idle, late, shellVars, hook, test>>

\* _check_thread(), first of before_test() and of after_test().
CheckThread ==
    /\ IF thread \in {"exited", "dead"} THEN JobGoto("check", "left") ELSE JobGoto("check", "mark")
    /\ UNCHANGED <<flags, files, threadVars, shellVars, hook, test>>

\* Slip: the state stays "start" after the test.
MarkTestFinishedNot ==
    /\ ~useFiles
    /\ JobGoto("mark", "await_idle")
    /\ UNCHANGED <<flags, files, threadVars, shellVars, hook, test>>

\* pause(): mark_test_finished() sets a flag ...
MarkTestFinished ==
    /\ ~useFiles
    /\ JobGoto("mark", "await_idle")
    /\ testState' = "finished"
    /\ UNCHANGED <<useFiles, shouldStop, files, threadVars, shellVars, hook, test>>

\* ... or removes the files one by one if they exist.
RemoveFiles ==
    /\ useFiles
    /\ \/ JobGoto("mark", "mark_request") /\ files' = files \ {"permitted"}
       \/ JobGoto("mark_request", "mark_ack") /\ files' = files \ {"idle_request"}
       \/ JobGoto("mark_ack", "await_idle") /\ files' = files \ {"idle_ack"}
    /\ UNCHANGED <<flags, threadVars, shellVars, hook, test>>

AwaitIdle ==
    /\ idle /\ JobGoto("await_idle", "await_primaries")
    /\ UNCHANGED <<flags, files, threadVars, shellVars, hook, test>>

\* _await_primaries() and _do_wait_for_mongos_retarget() end pause(); either may
\* raise, and the job stops.
AwaitPrimaries ==
    /\ \/ MayRaise /\ JobGoto("await_primaries", "left") /\ UNCHANGED <<hook, test>>
       \/ hook = "before_test" /\ JobGoto("await_primaries", "resume") /\ UNCHANGED <<hook, test>>
       \/ /\ hook = "after_test"
          /\ IF test < NumTests
             THEN JobGoto("await_primaries", "check") /\ hook' = "before_test" /\ test' = test + 1
             ELSE JobGoto("await_primaries", "stop") /\ UNCHANGED <<hook, test>>
    /\ UNCHANGED <<flags, files, threadVars, shellVars>>

\* Slip: mark_test_started() gives the permission before the workload is set up.
ResumePermits ==
    /\ JobGoto("resume", "test")
    /\ testState' = "start"
    /\ files' = IF useFiles THEN files \cup {"permitted"} ELSE files
    /\ shell' = IF useFiles THEN "setup" ELSE shell
    /\ late' = 0
    /\ UNCHANGED <<useFiles, shouldStop, thread, idle, unacked, hook, test>>

\* resume(), and then the test begins.
Resume ==
    /\ JobGoto("resume", "test")
    /\ testState' = IF useFiles THEN testState ELSE "start"
    /\ shell' = IF useFiles THEN "setup" ELSE shell
    /\ late' = 0
    /\ UNCHANGED <<useFiles, shouldStop, files, thread, idle, unacked, hook, test>>

TestEnds ==
    /\ useFiles => shell = "ended"
    /\ JobGoto("test", "check") /\ hook' = "after_test"
    /\ UNCHANGED <<flags, files, threadVars, shellVars, test>>

\* after_suite(): stop(), the resume() in it and the join().
Stop ==
    /\ JobGoto("stop", "stop_resume")
    /\ shouldStop' = TRUE
    /\ UNCHANGED <<useFiles, testState, files, threadVars, shellVars, hook, test>>

StopResume ==
    /\ JobGoto("stop_resume", "join")
    /\ testState' = IF useFiles THEN testState ELSE "start"
    /\ UNCHANGED <<useFiles, shouldStop, files, threadVars, shellVars, hook, test>>

Join ==
    /\ thread \in {"exited", "dead"} /\ JobGoto("join", "done")
    /\ UNCHANGED <<flags, files, threadVars, shellVars, hook, test>>

Job ==
    \/ BeforeSuite \/ CheckThread \/ MarkTestFinished \/ RemoveFiles \/ AwaitIdle
    \/ AwaitPrimaries \/ Resume \/ TestEnds \/ Stop \/ StopResume \/ Join

Next == Thread \/ Shell \/ ShellCrashes \/ Job

Spec == Init /\ [][Next]_vars

\* A round ends, tests end, and a waiting thread is woken up.
FairSpec == Spec /\ WF_vars(Thread) /\ WF_vars(Shell) /\ WF_vars(Job)

-----------------------------------------------------------------------------
\* A stepdown that escapes the pause of a test is the only one before the next
\* test: the thread asks again for permission before each round (run()).
AtMostOneLateRound == late <= 1

\* $config.teardown() never runs beside a stepdown once the shell has seen the
\* acknowledgement, which is never one left behind by an earlier test
\* (send_idle_acknowledgement() and mark_test_finished()).
AckedTeardownUndisturbed == shell = "acked_teardown" => thread \notin {"round", "stepping"}

\* $config.setup() never runs beside a stepdown, as long as every shell waited
\* for its acknowledgement: the permission of a test ends with the test.
SetupUndisturbed == shell = "setup" /\ ~unacked => thread # "stepping"

\* The suite ends: unless the stepdown thread dies of an exception, every pause()
\* and the join of after_suite return, also when workloads fail or crash.
Termination == <>(job \in {"left", "done"} \/ thread = "dead")

(* What comments and docstrings say, and the code does not do. *)

\* No stepdown is performed while the job is between a mark_test_finished() whose
\* pause() has waited and the next mark_test_started() (the class comment of
\* FlagBasedStepdownLifecycle).
NoStepdownWhilePaused == Paused => thread # "stepping"

\* The job gets past the wait of pause() (the comment on _is_idle_evt says that
\* the event is set when the thread performs no stepdowns).
PauseReturns == job = "await_idle" ~> job # "await_idle"

\* $config.teardown() never runs beside a stepdown (the comment above the
\* request in resmoke_runner.js).
TeardownUndisturbed == shell \in {"teardown", "acked_teardown"} => thread # "stepping"

=============================================================================
