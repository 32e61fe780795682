--------------------------- MODULE FixtureProofs ----------------------------
(***************************************************************************)
(* Proofs about Executor: who tears fixtures down, and what the exit code  *)
(* says, for any number of jobs, tests, repetitions and Ctrl-C.            *)
(***************************************************************************)
EXTENDS ExecutorProofs

\* The threads tear down in the last repetition only.
LastRepetition ==
    teardownFlag # "None" =>
        (Running => main.reps = 1) /\ (main.pc = "repeat" => main.reps = 0)

\* Unless the main thread stopped waiting, no thread outlives its repetition.
ThreadsGone ==
    main.pc = "repeat" \/ (~Running /\ ~hist.abandoned) =>
        \A j \in Jobs : pc[j] \in {"none", "done"}

\* Exceptions after which run() has not waited for its threads.
Abandonment ==
    hist.abandoned =>
        main.pc \in {"finally", "teardown", "done"}
        /\ main.exc \in {"KeyboardInterrupt", "LoggerRuntimeConfigError"}

\* Who tears down which fixture: the threads in the last repetition, otherwise
\* the main thread, one fixture after the other.
TeardownDuty ==
    /\ \A j \in Jobs : pc[j] = "teardown" => teardownFlag # "None"
    /\ teardownFlag # "None" =>
        /\ main.pc # "teardown"
        /\ \A j \in Jobs : teardowns[j] = IF pc[j] = "done" THEN 1 ELSE 0
    /\ teardownFlag = "None" =>
        \A j \in Jobs :
            CASE main.pc = "teardown" -> teardowns[j] = IF j < main.next THEN 1 ELSE 0
              [] main.pc = "done" ->
                    \/ teardowns[j] = 1
                    \/ /\ teardowns[j] = 0
                       /\ main.exc \in {"KeyboardInterrupt", "LoggerRuntimeConfigError"}
              [] OTHER -> teardowns[j] = 0

Fixtures == LastRepetition /\ ThreadsGone /\ Abandonment /\ TeardownDuty

\* A failure that was seen shows in the return code or leaves run() as an exception.
FailureNoted ==
    /\ main.exc = "none" /\ main.return_code = 0 => ~hist.failed
    /\ main.pc = "done" => main.exit_code = ExitCode(main.exc, main.return_code)

-----------------------------------------------------------------------------
(* The teardown of fixtures. *)

\* What a step of a Job thread means for the main thread and for its fixture:
\* it is torn down by the thread exactly when the thread has a teardown flag.
LEMMA JobFrame ==
    ASSUME Counting, NEW j \in Jobs, Job(j)
    PROVE  /\ main' = main
           /\ hist'.abandoned = hist.abandoned /\ hist'.failed = hist.failed
           /\ pc[j] \notin {"none", "done"}
           /\ \E s \in JobStates \ {"none"} : pc' = [pc EXCEPT ![j] = s]
           /\ teardownFlag # "None" => teardownFlag' # "None"
           /\ pc[j] = "teardown" =>
                pc'[j] = "done" /\ teardowns' = [teardowns EXCEPT ![j] = @ + 1]
           /\ pc[j] # "teardown" =>
                /\ teardowns' = teardowns /\ teardownFlag' = teardownFlag
                /\ pc'[j] = "done" => teardownFlag = "None"
                /\ pc'[j] = "teardown" => teardownFlag # "None"
<1> USE DEF Counting, TypeOK, flagVars, fixtureVars
<1>1. CASE SetupFixture(j)
  BY <1>1 DEF SetupFixture, JobStates
<1>2. CASE BeforeSuite(j) \/ AfterSuite(j) \/ CheckEmpty(j) \/ CheckFlag(j)
  BY <1>2 DEF BeforeSuite, AfterSuite, CheckEmpty, CheckFlag, GoTo, AfterRun, JobStates
<1>3. CASE GetNowait(j)
  BY <1>3 DEF GetNowait, GoTo, JobStates
<1>4. CASE ExecuteTest(j)
  <2>1. PICK r : hist' = [hist EXCEPT !.ran = r]
    BY <1>4 DEF ExecuteTest
  <2>2. hist'.abandoned = hist.abandoned /\ hist'.failed = hist.failed
    BY <2>1 DEF History
  <2> QED
    BY <1>4, <2>2 DEF ExecuteTest, JobStates
<1>5. CASE RequeueTest(j) \/ PutBack(j)
  <2>1. /\ pc[j] \in {"requeue", "put"}
        /\ pc' = [pc EXCEPT ![j] = "put"] \/ pc' = [pc EXCEPT ![j] = "empty"]
        /\ UNCHANGED <<flagVars, fixtureVars, main, hist>>
    BY <1>5 DEF RequeueTest, PutBack, GoTo
  <2> QED
    BY <2>1 DEF JobStates
<1>6. CASE InterruptAllJobs(j)
  BY <1>6 DEF InterruptAllJobs, GoTo, JobStates
<1>10. CASE DrainDone(j)
  BY <1>10 DEF DrainDone, GoTo, JobStates
<1>7. CASE DrainCheck(j)
  BY <1>7 DEF DrainCheck, GoTo, AfterRun, JobStates
<1>8. CASE DrainGet(j)
  BY <1>8 DEF DrainGet, GoTo, AfterRun, JobStates
<1>9. CASE TeardownFixture(j)
  BY <1>9 DEF TeardownFixture, GoTo, JobStates
<1> QED
  BY <1>1, <1>2, <1>3, <1>4, <1>5, <1>6, <1>7, <1>8, <1>9, <1>10 DEF Job

\* A Job thread keeps to its duty of tearing down.
LEMMA FixturesJob ==
    ASSUME Counting, Fixtures, NEW j \in Jobs, Job(j)
    PROVE  Fixtures'
<1> USE DEF Counting, TypeOK, Fixtures
<1>1. PICK s \in JobStates \ {"none"} : pc' = [pc EXCEPT ![j] = s]
  BY JobFrame
<1>2. /\ main' = main /\ hist'.abandoned = hist.abandoned
      /\ pc[j] \notin {"none", "done"}
      /\ teardownFlag # "None" => teardownFlag' # "None"
      /\ pc[j] = "teardown" =>
           pc'[j] = "done" /\ teardowns' = [teardowns EXCEPT ![j] = @ + 1]
      /\ pc[j] # "teardown" =>
           /\ teardowns' = teardowns /\ teardownFlag' = teardownFlag
           /\ pc'[j] = "done" => teardownFlag = "None"
           /\ pc'[j] = "teardown" => teardownFlag # "None"
  BY JobFrame
<1>3. LastRepetition' /\ Abandonment'
  BY <1>2 DEF LastRepetition, Abandonment, Running, TeardownDuty
<1>4. ThreadsGone'
  BY <1>2 DEF ThreadsGone, Running
<1>5. TeardownDuty'
  <2>1. CASE pc[j] = "teardown"
    BY <1>1, <1>2, <2>1 DEF TeardownDuty
  <2>2. CASE pc[j] # "teardown"
    BY <1>1, <1>2, <2>2 DEF TeardownDuty
  <2> QED
    BY <2>1, <2>2
<1> QED
  BY <1>3, <1>4, <1>5

\* The main thread keeps to its duty of tearing down: it tears down only what the
\* threads of the last repetition will not.
LEMMA FixturesMain ==
    ASSUME Counting, Fixtures, MainThread \/ CtrlC
    PROVE  Fixtures'
<1> USE DEF Counting, TypeOK, Fixtures, queueVars, flagVars, fixtureVars
<1>a. NumJobsToStart \in Nat \ {0}
  BY JobsExist
<1>1. CASE BeginRepetition
  <2>1. /\ main.pc = "repeat" /\ main.reps > 0 /\ main'.pc = "start" /\ main'.reps = main.reps
        /\ main'.exc = main.exc /\ hist'.abandoned = hist.abandoned
    BY <1>1 DEF BeginRepetition, Main, History
  <2>2. teardownFlag = "None"
    BY <2>1 DEF LastRepetition
  <2>3. \A j \in Jobs : teardowns[j] = 0 /\ pc'[j] = "none" /\ teardowns'[j] = 0
    BY <1>1, <2>1, <2>2 DEF TeardownDuty, BeginRepetition
  <2>4. LastRepetition'
    BY <1>1, <2>1 DEF BeginRepetition, NewTeardownFlag, LastRepetition, Running, Main
  <2>5. ThreadsGone' /\ Abandonment'
    BY <2>1 DEF ThreadsGone, Abandonment, Running
  <2>6. TeardownDuty'
    BY <2>1, <2>3 DEF TeardownDuty
  <2> QED
    BY <2>4, <2>5, <2>6
<1>2. CASE LoopDone
  <2>1. main.pc = "repeat" /\ main' = [main EXCEPT !.pc = "finally"]
    BY <1>2 DEF LoopDone
  <2> QED
    BY <1>2, <2>1
       DEF LoopDone, Main, LastRepetition, ThreadsGone, Abandonment, TeardownDuty, Running
<1>3. CASE StartThread
  <2>1. /\ main.pc = "start" /\ main'.pc \in {"start", "join"} /\ main'.reps = main.reps
        /\ main'.exc = main.exc
    BY <1>3 DEF StartThread, Main
  <2>2. main.next \in Jobs /\ pc[main.next] = "none"
    BY <2>1 DEF StartOrder, Jobs
  <2>3. PICK s \in {"before_suite", "setup"} : pc' = [pc EXCEPT ![main.next] = s]
    BY <1>3 DEF StartThread
  <2>4. LastRepetition' /\ ThreadsGone' /\ Abandonment'
    BY <1>3, <2>1 DEF StartThread, LastRepetition, ThreadsGone, Abandonment, Running
  <2>5. TeardownDuty'
    BY <1>3, <2>1, <2>2, <2>3 DEF StartThread, TeardownDuty
  <2> QED
    BY <2>4, <2>5
<1>b. ASSUME NEW m \in {"join", "thr_join", "finally", "repeat"},
             Running, main'.pc = m, main'.exc = main.exc \/ m = "finally",
             main'.reps = main.reps \/ m \in {"repeat", "finally"},
             m = "repeat" => main'.reps = main.reps - 1,
             m \in {"finally", "repeat"} =>
                hist'.abandoned \/ \A j \in Jobs : pc[j] \in {"none", "done"},
             m = "repeat" => \A j \in Jobs : pc[j] \in {"none", "done"},
             hist'.abandoned => m = "finally" /\ main'.exc = "KeyboardInterrupt",
             UNCHANGED <<pc, teardownFlag, teardowns>>
      PROVE  Fixtures'
  <2>1. LastRepetition'
    BY <1>b DEF LastRepetition, Running, Main
  <2>2. ThreadsGone' /\ Abandonment'
    BY <1>b DEF ThreadsGone, Abandonment, Running
  <2>3. TeardownDuty'
    BY <1>b DEF TeardownDuty, Running
  <2> QED
    BY <2>1, <2>2, <2>3
<1>c. ASSUME Running PROVE ~hist.abandoned
  BY <1>c DEF Abandonment, Running
<1>4. CASE JoinQueue
  <2>1. Running /\ main'.pc = "thr_join" /\ main'.exc = main.exc /\ main'.reps = main.reps
    BY <1>4 DEF JoinQueue, Main, Running
  <2> QED
    BY <1>4, <1>b, <1>c, <2>1 DEF JoinQueue
<1>5. CASE SetupFailed \/ RaiseUserInterrupt
  <2>1. Running /\ main'.pc = "finally" /\ hist'.abandoned = hist.abandoned
    BY <1>5
       DEF SetupFailed, RaiseUserInterrupt, RecordTestEnd, ThreadsJoined, Main, History, Running
  <2> QED
    BY <1>5, <1>b, <1>c, <2>1 DEF SetupFailed, RaiseUserInterrupt, ThreadsJoined
<1>6. CASE EndRepetition
  <2>1. Running /\ hist'.abandoned = hist.abandoned
    BY <1>6 DEF EndRepetition, RecordTestEnd, ThreadsJoined, History, Running
  <2>2. \/ main'.pc = "finally"
        \/ main'.pc = "repeat" /\ main'.reps = main.reps - 1 /\ main'.exc = main.exc
    BY <1>6 DEF EndRepetition, Main
  <2> QED
    BY <1>6, <1>b, <1>c, <2>1, <2>2 DEF EndRepetition, ThreadsJoined
<1>7. CASE UserInterrupt
  <2>1. Running /\ main'.pc = "thr_join" /\ main'.exc = main.exc /\ main'.reps = main.reps
    BY <1>7 DEF UserInterrupt, Main, Running
  <2> QED
    BY <1>7, <1>b, <1>c, <2>1 DEF UserInterrupt
<1>8. CASE InterruptThreadJoin
  <2>1. /\ Running /\ main'.pc = "finally" /\ main'.exc = "KeyboardInterrupt"
        /\ hist'.abandoned
    BY <1>8 DEF InterruptThreadJoin, Main, History, Running
  <2> QED
    BY <1>8, <1>b, <2>1 DEF InterruptThreadJoin
<1>9. CASE Finally
  <2>1. CASE teardownFlag = "None"
    <3>1. main.pc = "finally" /\ main'.pc = "teardown" /\ main'.next = 1 /\ main'.exc = main.exc
      BY <1>9, <2>1 DEF Finally, MainTearsDown, Main
    <3> QED
      BY <1>9, <2>1, <3>1
         DEF Finally, LastRepetition, ThreadsGone, Abandonment, TeardownDuty, Running, Jobs
  <2>2. CASE teardownFlag # "None"
    <3>1. main.pc = "finally" /\ main'.pc = "done" /\ main'.exc = main.exc
      BY <1>9, <2>2 DEF Finally, MainTearsDown, Returned, Main
    <3> QED
      BY <1>9, <2>2, <3>1
         DEF Finally, LastRepetition, ThreadsGone, Abandonment, TeardownDuty, Running
  <2> QED
    BY <2>1, <2>2
<1>d. ASSUME main.pc = "teardown", main.next <= NumJobsToStart,
             teardowns' = [teardowns EXCEPT ![main.next] = @ + 1],
             hist'.abandoned = hist.abandoned, UNCHANGED <<pc, teardownFlag>>,
             \/ main'.pc = "teardown" /\ main'.next = main.next + 1 /\ main'.exc = main.exc
             \/ /\ main'.pc = "done"
                /\ main'.exc \in {"KeyboardInterrupt", "LoggerRuntimeConfigError"}
      PROVE  Fixtures'
  <2>1. main.next \in Jobs /\ teardownFlag = "None"
    BY <1>d DEF Main, Jobs, TeardownDuty
  <2>2. LastRepetition' /\ ThreadsGone' /\ Abandonment'
    BY <1>d DEF LastRepetition, ThreadsGone, Abandonment, Running
  <2>3. \A j \in Jobs :
          teardowns'[j] = IF j < main.next THEN 1 ELSE IF j = main.next THEN 1 ELSE 0
    BY <1>d, <2>1 DEF TeardownDuty, Jobs
  <2>4. TeardownDuty'
    BY <1>d, <2>1, <2>3 DEF TeardownDuty, Jobs
  <2> QED
    BY <2>2, <2>4
<1>10. CASE TeardownNext
  <2>1. PICK o \in FixtureOutcomes :
          /\ main' = CASE o = "pass" -> [main EXCEPT !.next = @ + 1]
                       [] o = "fail" -> [main EXCEPT !.next = @ + 1, !.return_code = 2]
                       [] o = "raise" ->
                              Returned([main EXCEPT !.exc = "LoggerRuntimeConfigError"])
          /\ hist' = [hist EXCEPT !.failed = @ \/ o # "pass"]
    BY <1>10 DEF TeardownNext
  <2>2. main.pc = "teardown" /\ hist'.abandoned = hist.abandoned
    BY <1>10, <2>1 DEF TeardownNext, History
  <2>3. \/ main'.pc = "teardown" /\ main'.next = main.next + 1 /\ main'.exc = main.exc
        \/ main'.pc = "done" /\ main'.exc = "LoggerRuntimeConfigError"
    BY <2>1, <2>2 DEF FixtureOutcomes, Returned, Main
  <2> QED
    BY <1>10, <1>d, <2>2, <2>3 DEF TeardownNext
<1>11. CASE TeardownDone
  <2>1. /\ main.pc = "teardown" /\ main.next > NumJobsToStart
        /\ main'.pc = "done" /\ main'.exc = main.exc
    BY <1>11 DEF TeardownDone, Returned, Main
  <2>2. \A j \in Jobs : j < main.next
    BY <2>1, <1>a DEF Jobs, Main
  <2> QED
    BY <1>11, <2>1, <2>2
       DEF TeardownDone, LastRepetition, ThreadsGone, Abandonment, TeardownDuty, Running
<1>12. CASE InterruptTeardown
  <2>1. /\ main'.pc = "done" /\ main'.exc = "KeyboardInterrupt"
        /\ hist'.abandoned = hist.abandoned
    BY <1>12 DEF InterruptTeardown, Returned, Main, History
  <2> QED
    BY <1>12, <1>d, <2>1 DEF InterruptTeardown
<1> QED
  BY <1>1, <1>2, <1>3, <1>4, <1>5, <1>6, <1>7, <1>8, <1>9, <1>10, <1>11, <1>12
     DEF MainThread, CtrlC

\* Fixtures is an invariant of the executor.
THEOREM FixturesInvariant == Spec => []Fixtures
<1>1. Init => Fixtures
  BY DEF Init, Fixtures, LastRepetition, ThreadsGone, Abandonment, TeardownDuty, Running
<1>2. Counting /\ Fixtures /\ [Next]_vars => Fixtures'
  <2> SUFFICES ASSUME Counting, Fixtures, [Next]_vars PROVE Fixtures'
    OBVIOUS
  <2>1. CASE UNCHANGED vars
    BY <2>1 DEF Fixtures, LastRepetition, ThreadsGone, Abandonment, TeardownDuty, Running,
                vars, flagVars, fixtureVars
  <2> QED
    BY <2>1, FixturesJob, FixturesMain DEF Next
<1> QED
  BY <1>1, <1>2, CountingInvariant, PTL DEF Spec

\* A fixture's teardown is attempted at most once, by its thread in the last
\* repetition or by run()'s finally clause.
THEOREM TeardownAtMostOnceHolds == Spec => []TeardownAtMostOnce
<1>1. Counting /\ Fixtures => TeardownAtMostOnce
  <2> SUFFICES ASSUME Counting, Fixtures, NEW j \in Jobs PROVE teardowns[j] <= 1
    BY DEF TeardownAtMostOnce
  <2>1. teardowns[j] = 0 \/ teardowns[j] = 1
    BY DEF Fixtures, TeardownDuty
  <2> QED
    BY <2>1
<1> QED
  BY <1>1, CountingInvariant, FixturesInvariant, PTL

\* No thread works on a fixture that was torn down, unless a second Ctrl-C made
\* the main thread stop waiting.
THEOREM RunsOnLiveFixtureHolds == Spec => []RunsOnLiveFixture
<1>1. Fixtures => RunsOnLiveFixture
  <2> SUFFICES ASSUME Fixtures, ~hist.abandoned,
                      NEW j \in Jobs, pc[j] \notin {"none", "done"}
               PROVE  teardowns[j] = 0
    BY DEF RunsOnLiveFixture
  <2>1. Running
    BY DEF Fixtures, ThreadsGone
  <2> QED
    BY <2>1 DEF Fixtures, TeardownDuty, Running
<1> QED
  BY <1>1, FixturesInvariant, PTL

\* A run that ends by itself, by its own ResmokeError or by the UserInterrupt has
\* attempted every teardown, save of threads it never started.
THEOREM TornDownAtEndHolds == Spec => []TornDownAtEnd
<1>1. Fixtures => TornDownAtEnd
  <2> SUFFICES ASSUME Fixtures, main.pc = "done",
                      main.exc \in {"none", "UserInterrupt", "ResmokeError"},
                      NEW j \in Jobs
               PROVE  teardowns[j] = 1 \/ pc[j] = "none"
    BY DEF TornDownAtEnd
  <2>1. pc[j] \in {"none", "done"}
    BY DEF Fixtures, Abandonment, ThreadsGone, Running
  <2> QED
    BY <2>1 DEF Fixtures, TeardownDuty
<1> QED
  BY <1>1, FixturesInvariant, PTL

-----------------------------------------------------------------------------
(* The exit code. *)

\* FailureNoted is an invariant of the executor.
THEOREM FailureNotedInvariant == Spec => []FailureNoted
<1> USE DEF Counting, TypeOK, FailureNoted
<1>1. Init => FailureNoted
  BY DEF Init
<1>2. ASSUME Counting, FailureNoted, [Next]_vars PROVE FailureNoted'
  <2>a. ASSUME main' = Returned(main) PROVE
          /\ main'.exc = main.exc /\ main'.return_code = main.return_code
          /\ main'.exit_code = ExitCode(main'.exc, main'.return_code)
    BY <1>2, <2>a DEF Returned, Main
  <2>1. CASE UNCHANGED vars
    BY <1>2, <2>1 DEF vars
  <2>2. ASSUME NEW j \in Jobs, Job(j) PROVE FailureNoted'
    BY <1>2, <2>2, JobFrame
  <2>3. CASE BeginRepetition \/ LoopDone \/ StartThread \/ JoinQueue \/ UserInterrupt
    <3>1. /\ main'.exc = main.exc /\ main'.return_code = main.return_code
          /\ main'.pc # "done" /\ hist'.failed = hist.failed
      <4>1. CASE BeginRepetition BY <1>2, <4>1 DEF BeginRepetition, Main, History
      <4>2. CASE StartThread BY <1>2, <4>2 DEF StartThread, Main
      <4>3. CASE LoopDone \/ JoinQueue BY <1>2, <4>3 DEF LoopDone, JoinQueue, Main
      <4>4. CASE UserInterrupt BY <1>2, <4>4 DEF UserInterrupt, Main
      <4> QED BY <2>3, <4>1, <4>2, <4>3, <4>4
    <3> QED
      BY <1>2, <3>1
  <2>4. CASE SetupFailed
    <3>1. main'.return_code = 2 /\ main'.pc = "finally"
      BY <1>2, <2>4 DEF SetupFailed, Main
    <3> QED
      BY <3>1
  <2>5. CASE RaiseUserInterrupt \/ InterruptThreadJoin
    <3>1. main'.exc # "none" /\ main'.pc = "finally"
      BY <1>2, <2>5 DEF RaiseUserInterrupt, InterruptThreadJoin, Main
    <3> QED
      BY <3>1
  <2>6. CASE EndRepetition
    <3>1. \/ main' = [main EXCEPT !.pc = "finally", !.return_code = Verdict]
          \/ main' = [main EXCEPT !.pc = "finally", !.return_code = Verdict,
                                  !.exc = "ResmokeError"]
          \/ main' = [main EXCEPT !.pc = "repeat", !.return_code = Verdict, !.reps = @ - 1]
      BY <2>6 DEF EndRepetition
    <3>3. /\ main'.return_code = Verdict /\ main'.pc # "done"
          /\ main'.exc = main.exc \/ main'.exc = "ResmokeError"
      BY <1>2, <3>1 DEF Main
    <3>2. hist'.failed = (hist.failed \/ report.failed)
      BY <1>2, <2>6 DEF EndRepetition, RecordTestEnd, History
    <3> QED
      BY <1>2, <3>2, <3>3 DEF Verdict
  <2>7. CASE Finally
    <3>1. /\ hist' = hist /\ main'.exc = main.exc /\ main'.return_code = main.return_code
          /\ main'.pc = "done" => main'.exit_code = ExitCode(main'.exc, main'.return_code)
      BY <1>2, <2>a, <2>7 DEF Finally, Main
    <3> QED
      BY <1>2, <3>1
  <2>8. CASE TeardownNext
    <3>1. PICK o \in FixtureOutcomes :
            /\ main' = CASE o = "pass" -> [main EXCEPT !.next = @ + 1]
                         [] o = "fail" -> [main EXCEPT !.next = @ + 1, !.return_code = 2]
                         [] o = "raise" ->
                                Returned([main EXCEPT !.exc = "LoggerRuntimeConfigError"])
            /\ hist' = [hist EXCEPT !.failed = @ \/ o # "pass"]
      BY <2>8 DEF TeardownNext
    <3>2. main.pc = "teardown"
      BY <2>8 DEF TeardownNext
    <3>3. CASE o = "pass"
      <4>1. /\ main'.pc = main.pc /\ main'.exc = main.exc
            /\ main'.return_code = main.return_code
        BY <1>2, <3>1, <3>3 DEF Main
      <4>2. hist'.failed = hist.failed
        BY <1>2, <3>1, <3>3 DEF History
      <4> QED
        BY <1>2, <3>2, <4>1, <4>2
    <3>4. CASE o = "fail"
      <4>1. main'.pc = "teardown" /\ main'.return_code = 2
        BY <1>2, <3>1, <3>2, <3>4 DEF Main
      <4> QED
        BY <4>1
    <3>5. CASE o = "raise"
      <4>1. /\ main'.exc = "LoggerRuntimeConfigError"
            /\ main'.exit_code = ExitCode(main'.exc, main'.return_code)
        BY <1>2, <3>1, <3>5 DEF Main, Returned
      <4> QED
        BY <4>1
    <3> QED
      BY <3>3, <3>4, <3>5 DEF FixtureOutcomes
  <2>9. CASE TeardownDone
    BY <1>2, <2>a, <2>9 DEF TeardownDone
  <2>10. CASE InterruptTeardown
    BY <1>2, <2>10 DEF InterruptTeardown, Main, Returned
  <2> QED
    BY <1>2, <2>1, <2>2, <2>3, <2>4, <2>5, <2>6, <2>7, <2>8, <2>9, <2>10
       DEF Next, MainThread, CtrlC
<1> QED
  BY <1>1, <1>2, CountingInvariant, PTL DEF Spec

\* The suite's exit code is 0 only if no result of any repetition and no teardown
\* was a failure.
THEOREM VerdictSoundHolds == Spec => []VerdictSound
<1>1. Counting /\ FailureNoted => VerdictSound
  BY DEF Counting, TypeOK, Main, Exceptions, FailureNoted, VerdictSound, ExitCode
<1> QED
  BY <1>1, CountingInvariant, FailureNotedInvariant, PTL

=============================================================================
