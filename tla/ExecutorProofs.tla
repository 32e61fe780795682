--------------------------- MODULE ExecutorProofs ---------------------------
(***************************************************************************)
(* Proofs about Executor, for any number of jobs, tests, repetitions and   *)
(* Ctrl-C.  The inductive invariant is built in layers; each layer is      *)
(* proved from the ones before it.                                         *)
(***************************************************************************)
EXTENDS Executor, FiniteSetTheorems, TLAPS

\* A thread that may run or put back its element does hold one.
HeldElement == \A j \in Jobs : pc[j] \in Owning => held[j] \in Elems

\* The loop that starts the threads has a thread left to start, and no thread
\* from there on is running.
StartOrder ==
    main.pc = "start" =>
        main.next \in Jobs /\ \A j \in Jobs : j >= main.next => pc[j] = "none"

Running == main.pc \in {"start", "join", "thr_join"}

\* Threads run only in a repetition that is counted in num_repeat_suites.
LoopRuns == Running => main.reps > 0

Counting == TypeOK /\ TaskAccounting /\ HeldElement /\ StartOrder /\ LoopRuns

-----------------------------------------------------------------------------

\* At least one job is started for a suite that has tests (_num_jobs_to_start).
LEMMA JobsExist == NumTests \in Nat \ {0} /\ NumJobsToStart \in Nat \ {0}
<1>1. \A m, n \in Nat \ {0} : m * n \in Nat \ {0}
  OBVIOUS
<1>2. NumTests \in Nat \ {0}
  BY <1>1, ExecutorAssumption DEF NumTests
<1> QED
  BY <1>2, ExecutorAssumption DEF NumJobsToStart

\* The threads that owe a task_done() are finitely many.
LEMMA HoldersFinite == IsFiniteSet(Holders) /\ Cardinality(Holders) \in Nat
<1>1. IsFiniteSet(Jobs)
  BY JobsExist, FS_Interval DEF Jobs
<1>2. Holders \subseteq Jobs
  BY DEF Holders
<1> QED
  BY <1>1, <1>2, FS_Subset, FS_CardinalityType

\* A step that moves one thread into the set of holders adds one to it.
LEMMA HolderEnters ==
    ASSUME NEW j \in Jobs, pc \in [Jobs -> JobStates], NEW s \in Holding,
           pc[j] \notin Holding, pc' = [pc EXCEPT ![j] = s]
    PROVE  Cardinality(Holders') = Cardinality(Holders) + 1
<1>1. Holders' = Holders \cup {j} /\ j \notin Holders
  BY DEF Holders
<1> QED
  BY <1>1, HoldersFinite, FS_AddElement

\* A step that moves one thread out of the set of holders takes one away.
LEMMA HolderLeaves ==
    ASSUME NEW j \in Jobs, pc \in [Jobs -> JobStates], NEW s \in JobStates \ Holding,
           pc[j] \in Holding, pc' = [pc EXCEPT ![j] = s]
    PROVE  Cardinality(Holders') = Cardinality(Holders) - 1
<1>1. Holders' = Holders \ {j} /\ j \in Holders
  BY DEF Holders
<1> QED
  BY <1>1, HoldersFinite, FS_RemoveElement

\* The fresh queue of a repetition holds every element (_make_test_queue).
LEMMA TestQueue == MakeTestQueue \in Seq(Elems) /\ Len(MakeTestQueue) = NumTests
  BY JobsExist DEF MakeTestQueue, Elems

\* Taking the head of a queue shortens it by one.
LEMMA HeadTail ==
    ASSUME NEW q \in Seq(Elems), q # <<>>
    PROVE  /\ Head(q) \in Elems /\ Tail(q) \in Seq(Elems)
           /\ Len(q) \in Nat /\ Len(q) >= 1 /\ Len(Tail(q)) = Len(q) - 1
  OBVIOUS

-----------------------------------------------------------------------------
(* The count of unfinished tasks. *)

\* Counting holds initially.
LEMMA CountingInit == Init => Counting
<1> SUFFICES ASSUME Init PROVE Counting
  OBVIOUS
<1>1. TypeOK
  <2>1. queue \in Seq(Elems) /\ unfinished \in Nat
    BY DEF Init
  <2>2. elems \in [Elems -> QueueElem]
    BY DEF Init, NewQueueElem, QueueElem
  <2>3. main \in Main
    BY JobsExist, ExecutorAssumption DEF Init, Main, Exceptions
  <2>4. report \in [results : Nat, failed : BOOLEAN] /\ hist \in History
    BY DEF Init, History
  <2>5. /\ pc \in [Jobs -> JobStates] /\ held \in [Jobs -> Elems \cup {NoElem}]
        /\ setups \in [Jobs -> BOOLEAN] /\ teardowns \in [Jobs -> Nat]
    BY DEF Init, JobStates
  <2> QED
    BY <2>1, <2>2, <2>3, <2>4, <2>5 DEF Init, TypeOK, Flag
<1>2. Holders = {}
  BY DEF Init, Holders, Holding
<1>3. TaskAccounting
  BY <1>2, FS_EmptySet DEF Init, TaskAccounting
<1> QED
  BY <1>1, <1>3 DEF Init, Counting, HeldElement, StartOrder, LoopRuns, Running, Owning

\* A step of a Job thread keeps Counting: it moves an element between the queue
\* and the thread, or reports it done, and adjusts the count with it.
LEMMA CountingJob ==
    ASSUME Counting, NEW j \in Jobs, Job(j)
    PROVE  Counting'
<1> USE DEF Counting, TypeOK, Running, queueVars, flagVars, fixtureVars
<1>a. /\ Cardinality(Holders) \in Nat
      /\ Len(queue) \in Nat
      /\ AfterRun \in {"teardown", "done"}
  BY HoldersFinite DEF AfterRun
<1>1. CASE SetupFixture(j)
  <2>1. TypeOK'
    BY <1>1 DEF SetupFixture, Record, FixtureOutcomes, Flag, JobStates
  <2>2. Holders' = Holders
    BY <1>1 DEF SetupFixture, Holding, Holders
  <2> QED
    BY <1>1, <2>1, <2>2 DEF SetupFixture, TaskAccounting, HeldElement, StartOrder, LoopRuns, Owning
<1>2. CASE BeforeSuite(j)
  <2>1. TypeOK'
    BY <1>2 DEF BeforeSuite, GoTo, JobStates
  <2>2. Holders' = Holders
    BY <1>2 DEF BeforeSuite, GoTo, Holding, Holders
  <2> QED
    BY <1>2, <2>1, <2>2 DEF BeforeSuite, GoTo, TaskAccounting, HeldElement, StartOrder, LoopRuns, Owning
<1>3. CASE AfterSuite(j)
  <2>1. TypeOK'
    <3>1. pc' \in [Jobs -> JobStates] BY <1>3, <1>a DEF AfterSuite, GoTo, JobStates
    <3> QED BY <1>3, <3>1 DEF AfterSuite
  <2>2. Holders' = Holders
    BY <1>3, <1>a DEF AfterSuite, GoTo, Holding, Holders
  <2> QED
    BY <1>3, <1>a, <2>1, <2>2
       DEF AfterSuite, GoTo, TaskAccounting, HeldElement, StartOrder, LoopRuns, Owning
<1>4. CASE CheckEmpty(j)
  <2>1. TypeOK'
    BY <1>4 DEF CheckEmpty, GoTo, JobStates
  <2>2. Holders' = Holders
    BY <1>4 DEF CheckEmpty, GoTo, Holding, Holders
  <2> QED
    BY <1>4, <2>1, <2>2 DEF CheckEmpty, GoTo, TaskAccounting, HeldElement, StartOrder, LoopRuns, Owning
<1>5. CASE CheckFlag(j)
  <2>1. TypeOK'
    BY <1>5 DEF CheckFlag, GoTo, JobStates
  <2>2. Holders' = Holders
    BY <1>5 DEF CheckFlag, GoTo, Holding, Holders
  <2> QED
    BY <1>5, <2>1, <2>2 DEF CheckFlag, GoTo, TaskAccounting, HeldElement, StartOrder, LoopRuns, Owning
<1>6. CASE GetNowait(j)
  <2>1. CASE queue # <<>>
    <3>0. /\ Head(queue) \in Elems /\ Tail(queue) \in Seq(Elems)
          /\ Len(Tail(queue)) = Len(queue) - 1
      BY <2>1, HeadTail
    <3>1. /\ queue' = Tail(queue)
          /\ held' = [held EXCEPT ![j] = Head(queue)]
          /\ pc[j] = "get" /\ pc' = [pc EXCEPT ![j] = "exec"]
          /\ UNCHANGED <<unfinished, elems, flagVars, report, fixtureVars, main, hist>>
      BY <1>6, <2>1 DEF GetNowait, GoTo
    <3>2. pc' \in [Jobs -> JobStates] /\ held' \in [Jobs -> Elems \cup {NoElem}]
      BY <3>0, <3>1 DEF JobStates
    <3>3. TypeOK'
      BY <3>0, <3>1, <3>2
    <3>4. Cardinality(Holders') = Cardinality(Holders) + 1
      BY <3>1, HolderEnters DEF Holding
    <3>5. TaskAccounting'
      BY <1>a, <3>0, <3>1, <3>4 DEF TaskAccounting
    <3>6. HeldElement' /\ StartOrder' /\ LoopRuns'
      BY <3>0, <3>1 DEF HeldElement, StartOrder, LoopRuns, Owning
    <3> QED
      BY <3>3, <3>5, <3>6
  <2>2. CASE queue = <<>>
    <3>1. TypeOK'
      BY <1>6, <2>2 DEF GetNowait, GoTo, JobStates
    <3>2. Holders' = Holders
      BY <1>6, <2>2 DEF GetNowait, GoTo, Holding, Holders
    <3> QED
      BY <1>6, <2>2, <3>1, <3>2
         DEF GetNowait, GoTo, TaskAccounting, HeldElement, StartOrder, LoopRuns, Owning
  <2> QED
    BY <2>1, <2>2
<1>7. CASE ExecuteTest(j)
  <2>1. PICK o \in ExecOutcomes(FailFast), job_time \in 0 .. MaxTestTime :
          /\ report' = [results |-> report.results + o.infos,
                        failed |-> report.failed \/ o.bad]
          /\ pc' = [pc EXCEPT ![j] = IF o.stop THEN "interrupt" ELSE "requeue"]
          /\ held' = [held EXCEPT ![j] = IF o.stop THEN NoElem ELSE @]
          /\ elems' = [elems EXCEPT ![held[j]] = JobCompleted(@, job_time)]
          /\ hist' = [hist EXCEPT !.ran = IF o.ran THEN @ \cup {held[j]} ELSE @]
    BY <1>7 DEF ExecuteTest, Record
  <2>2. /\ pc[j] = "exec" /\ held[j] \in Elems /\ unfinished' = unfinished - 1
        /\ UNCHANGED <<queue, flagVars, fixtureVars, main>>
    BY <1>7 DEF ExecuteTest, TaskDone, HeldElement, Owning
  <2>3. Cardinality(Holders') = Cardinality(Holders) - 1
    <3>1. (IF o.stop THEN "interrupt" ELSE "requeue") \in JobStates \ Holding
      BY DEF Holding, JobStates
    <3>2. pc[j] \in Holding
      BY <2>2 DEF Holding
    <3> QED
      BY <2>1, <3>1, <3>2, HolderLeaves
  <2>4. Cardinality(Holders') \in Nat
    <3>1. j \in Holders
      BY <2>2 DEF Holders, Holding
    <3> QED
      BY <3>1, <2>3, HoldersFinite, FS_EmptySet
  <2>5. unfinished' \in Nat /\ TaskAccounting'
    BY <1>a, <2>2, <2>3, <2>4 DEF TaskAccounting
  <2>6. o \in ExecOutcome
    BY OutcomeAssumption DEF ExecOutcomes, ExecOutcome
  <2>7. report' \in [results : Nat, failed : BOOLEAN]
    BY <2>1, <2>6 DEF ExecOutcome
  <2>8. pc' \in [Jobs -> JobStates] /\ held' \in [Jobs -> Elems \cup {NoElem}]
    BY <2>1 DEF JobStates
  <2>9. elems' \in [Elems -> QueueElem]
    <3>1. job_time \in Nat
      BY RepeatAssumption
    <3>2. elems[held[j]] \in QueueElem
      BY <2>2
    <3>3. JobCompleted(elems[held[j]], job_time) \in QueueElem
      BY <3>1, <3>2 DEF JobCompleted, QueueElem
    <3> QED
      BY <2>1, <2>2, <3>3
  <2>10. hist' \in History
    BY <2>1, <2>2 DEF History
  <2>11. TypeOK'
    BY <2>2, <2>5, <2>7, <2>8, <2>9, <2>10
  <2>12. HeldElement' /\ StartOrder' /\ LoopRuns'
    BY <2>1, <2>2 DEF HeldElement, StartOrder, LoopRuns, Owning
  <2> QED
    BY <2>5, <2>11, <2>12
<1>8. CASE RequeueTest(j)
  <2>1. TypeOK'
    BY <1>8 DEF RequeueTest, GoTo, JobStates
  <2>2. Holders' = Holders
    BY <1>8 DEF RequeueTest, GoTo, Holding, Holders
  <2> QED
    BY <1>8, <2>1, <2>2 DEF RequeueTest, GoTo, TaskAccounting, HeldElement, StartOrder, LoopRuns, Owning
<1>9. CASE PutBack(j)
  <2>1. held[j] \in Elems
    BY <1>9 DEF PutBack, GoTo, HeldElement, Owning
  <2>2. queue' \in Seq(Elems) /\ Len(queue') = Len(queue) + 1
    BY <1>9, <2>1 DEF PutBack
  <2>3. TypeOK'
    BY <1>9, <2>2 DEF PutBack, GoTo, JobStates
  <2>4. Holders' = Holders
    BY <1>9 DEF PutBack, GoTo, Holding, Holders
  <2> QED
    BY <1>9, <1>a, <2>2, <2>3, <2>4
       DEF PutBack, GoTo, TaskAccounting, HeldElement, StartOrder, LoopRuns, Owning
<1>10. CASE InterruptAllJobs(j)
  <2>1. TypeOK'
    BY <1>10 DEF InterruptAllJobs, GoTo, JobStates
  <2>2. Holders' = Holders
    BY <1>10 DEF InterruptAllJobs, GoTo, Holding, Holders
  <2> QED
    BY <1>10, <2>1, <2>2
       DEF InterruptAllJobs, GoTo, TaskAccounting, HeldElement, StartOrder, LoopRuns, Owning
<1>11. CASE DrainCheck(j)
  <2>1. TypeOK'
    BY <1>11, <1>a DEF DrainCheck, GoTo, JobStates
  <2>2. Holders' = Holders
    BY <1>11, <1>a DEF DrainCheck, GoTo, Holding, Holders
  <2> QED
    BY <1>11, <1>a, <2>1, <2>2
       DEF DrainCheck, GoTo, TaskAccounting, HeldElement, StartOrder, LoopRuns, Owning
<1>12. CASE DrainGet(j)
  <2>1. CASE queue # <<>>
    <3>0. Tail(queue) \in Seq(Elems) /\ Len(Tail(queue)) = Len(queue) - 1
      BY <2>1, HeadTail
    <3>1. /\ queue' = Tail(queue)
          /\ pc[j] = "drain_get" /\ pc' = [pc EXCEPT ![j] = "drain_done"]
          /\ UNCHANGED <<unfinished, elems, flagVars, report, held, fixtureVars, main, hist>>
      BY <1>12, <2>1 DEF DrainGet, GoTo
    <3>2. TypeOK'
      BY <3>0, <3>1 DEF JobStates
    <3>3. Cardinality(Holders') = Cardinality(Holders) + 1
      BY <3>1, HolderEnters DEF Holding
    <3>4. TaskAccounting'
      BY <1>a, <3>0, <3>1, <3>3 DEF TaskAccounting
    <3>5. HeldElement' /\ StartOrder' /\ LoopRuns'
      BY <3>1 DEF HeldElement, StartOrder, LoopRuns, Owning
    <3> QED
      BY <3>2, <3>4, <3>5
  <2>2. CASE queue = <<>>
    <3>1. TypeOK'
      BY <1>12, <1>a, <2>2 DEF DrainGet, GoTo, JobStates
    <3>2. Holders' = Holders
      BY <1>12, <2>2, <1>a DEF DrainGet, GoTo, Holding, Holders
    <3> QED
      BY <1>12, <1>a, <2>2, <3>1, <3>2
         DEF DrainGet, GoTo, TaskAccounting, HeldElement, StartOrder, LoopRuns, Owning
  <2> QED
    BY <2>1, <2>2
<1>13. CASE DrainDone(j)
  <2>0. pc[j] = "drain_done" /\ pc' = [pc EXCEPT ![j] = "drain_empty"]
    BY <1>13 DEF DrainDone, GoTo
  <2>1. Cardinality(Holders') = Cardinality(Holders) - 1
    <3>1. "drain_empty" \in JobStates \ Holding /\ pc[j] \in Holding
      BY <2>0 DEF Holding, JobStates
    <3> QED
      BY <2>0, <3>1, HolderLeaves
  <2>2. Cardinality(Holders') \in Nat
    <3>1. j \in Holders
      BY <1>13 DEF DrainDone, GoTo, Holders, Holding
    <3> QED
      BY <3>1, <2>1, HoldersFinite, FS_EmptySet
  <2>3. unfinished' \in Nat /\ TaskAccounting'
    BY <1>13, <1>a, <2>1, <2>2 DEF DrainDone, TaskAccounting
  <2>4. TypeOK'
    BY <1>13, <2>3 DEF DrainDone, GoTo, JobStates
  <2> QED
    BY <1>13, <2>3, <2>4 DEF DrainDone, GoTo, HeldElement, StartOrder, LoopRuns, Owning
<1>14. CASE TeardownFixture(j)
  <2>1. TypeOK'
    <3>1. PICK o \in FixtureOutcomes :
              /\ Record(1, o # "pass")
              /\ teardownFlag' = IF o = "pass" THEN teardownFlag ELSE "set"
      BY <1>14 DEF TeardownFixture
    <3>2. report' \in [results : Nat, failed : BOOLEAN] BY <3>1 DEF Record
    <3>3. teardownFlag' \in Flag BY <3>1 DEF Flag
    <3>4. pc' \in [Jobs -> JobStates] /\ teardowns' \in [Jobs -> Nat]
      BY <1>14 DEF TeardownFixture, GoTo, JobStates
    <3> QED BY <1>14, <3>2, <3>3, <3>4 DEF TeardownFixture
  <2>2. Holders' = Holders
    BY <1>14 DEF TeardownFixture, GoTo, Holding, Holders
  <2> QED
    BY <1>14, <2>1, <2>2
       DEF TeardownFixture, GoTo, TaskAccounting, HeldElement, StartOrder, LoopRuns, Owning
<1> QED
  BY <1>1, <1>2, <1>3, <1>4, <1>5, <1>6, <1>7, <1>8, <1>9, <1>10, <1>11, <1>12, <1>13, <1>14
     DEF Job

\* A step of the main thread or a Ctrl-C keeps Counting: only the start of a
\* repetition touches the queue, when it makes a new one.
LEMMA CountingMain ==
    ASSUME Counting, MainThread \/ CtrlC
    PROVE  Counting'
<1> USE DEF Counting, TypeOK, Running, queueVars, flagVars, fixtureVars
<1>a. NumJobsToStart \in Nat \ {0} /\ NumTests \in Nat
  BY JobsExist
<1>b. ASSUME UNCHANGED <<pc, queue, unfinished, held>>
      PROVE  TaskAccounting' /\ HeldElement'
  BY <1>b DEF TaskAccounting, HeldElement, Holders
<1>c. /\ main.interrupts + 1 \in Nat /\ main.next \in 1 .. NumJobsToStart + 1
      /\ 1 \in 1 .. NumJobsToStart + 1
      /\ main.reps > 0 => main.reps - 1 \in Nat
      /\ main.next <= NumJobsToStart => main.next + 1 \in 1 .. NumJobsToStart + 1
      /\ 2 \in 0 .. 2
      /\ {"UserInterrupt", "KeyboardInterrupt", "ResmokeError", "LoggerRuntimeConfigError"}
            \subseteq Exceptions
  BY <1>a DEF Main, Exceptions
<1>d. ASSUME RecordTestEnd PROVE hist' \in History
  <2>1. /\ hist' = [hist EXCEPT !.failed = @ \/ report.failed, !.skipped = @ \/ hist.ran # Elems]
        /\ (hist.failed \/ report.failed) \in BOOLEAN
        /\ (hist.skipped \/ hist.ran # Elems) \in BOOLEAN
    BY <1>d DEF RecordTestEnd
  <2> QED
    BY <2>1 DEF History
<1>e. ASSUME NEW m \in Main
      PROVE  Returned(m) \in Main /\ Returned(m).pc = "done"
  <2>1. ExitCode(m.exc, m.return_code) \in Int
    BY DEF ExitCode, Main
  <2>2. (m.exc \in {"UserInterrupt", "LoggerRuntimeConfigError"}) \in BOOLEAN
    OBVIOUS
  <2> QED
    BY <2>1, <2>2 DEF Returned, Main
<1>1. CASE BeginRepetition
  <2>1. queue' \in Seq(Elems) /\ unfinished' = Len(queue') /\ unfinished' \in Nat
    BY <1>1, <1>a, TestQueue DEF BeginRepetition
  <2>2. main' \in Main
    BY <1>1, <1>c DEF BeginRepetition, Main
  <2>3. elems' \in [Elems -> QueueElem] /\ hist' \in History
    BY <1>1 DEF BeginRepetition, NewQueueElem, QueueElem, History
  <2>4. TypeOK'
    BY <1>1, <2>1, <2>2, <2>3 DEF BeginRepetition, NewTeardownFlag, Flag, JobStates
  <2>5. Holders' = {}
    BY <1>1 DEF BeginRepetition, Holders, Holding
  <2>6. TaskAccounting'
    BY <2>1, <2>5, FS_EmptySet DEF TaskAccounting
  <2>7. HeldElement'
    BY <1>1 DEF BeginRepetition, HeldElement, Owning
  <2>8. StartOrder'
    BY <1>1, <1>a DEF BeginRepetition, StartOrder, Main, Jobs
  <2>9. LoopRuns'
    BY <1>1 DEF BeginRepetition, LoopRuns, Main
  <2> QED
    BY <2>4, <2>6, <2>7, <2>8, <2>9
<1>2. CASE LoopDone
  <2>1. main' \in Main /\ main'.pc = "finally"
    BY <1>2 DEF LoopDone, Main
  <2> QED
    BY <1>2, <1>b, <2>1 DEF LoopDone, StartOrder, LoopRuns
<1>3. CASE StartThread
  <2>1. main.next \in Jobs /\ main.pc = "start" /\ pc[main.next] = "none"
    BY <1>3 DEF StartThread, StartOrder, Jobs
  <2>2. main.next + 1 \in 1 .. NumJobsToStart + 1
    BY <1>a, <2>1 DEF Jobs
  <2>3. /\ main' \in Main /\ main'.next = main.next + 1
        /\ main'.pc = IF main.next = NumJobsToStart THEN "join" ELSE "start"
    BY <1>3, <2>1, <2>2 DEF StartThread, IsLastThread, Main
  <2>4. PICK s \in {"before_suite", "setup"} : pc' = [pc EXCEPT ![main.next] = s]
    BY <1>3 DEF StartThread
  <2>5. TypeOK'
    BY <1>3, <2>3, <2>4 DEF StartThread, JobStates
  <2>6. Holders' = Holders
    BY <2>1, <2>4 DEF Holders, Holding
  <2>7. TaskAccounting'
    BY <1>3, <2>6 DEF StartThread, TaskAccounting
  <2>8. HeldElement'
    BY <1>3, <2>1, <2>4 DEF StartThread, HeldElement, Owning
  <2>9. StartOrder'
    BY <1>a, <2>1, <2>3, <2>4 DEF StartOrder, Jobs
  <2>10. LoopRuns'
    BY <1>3, <2>1 DEF StartThread, LoopRuns, Main
  <2> QED
    BY <2>5, <2>7, <2>8, <2>9, <2>10
<1>4. CASE JoinQueue
  <2>1. main' \in Main /\ main'.pc = "thr_join" /\ main'.reps > 0
    BY <1>4 DEF JoinQueue, Main, LoopRuns
  <2> QED
    BY <1>4, <1>b, <2>1 DEF JoinQueue, StartOrder, LoopRuns
<1>5. CASE SetupFailed
  <2>1. main' \in Main /\ main'.pc = "finally"
    BY <1>5, <1>c DEF SetupFailed, Main
  <2> QED
    BY <1>5, <1>b, <1>d, <2>1 DEF SetupFailed, StartOrder, LoopRuns
<1>6. CASE RaiseUserInterrupt
  <2>1. main' \in Main /\ main'.pc = "finally"
    BY <1>6, <1>c DEF RaiseUserInterrupt, Main
  <2> QED
    BY <1>6, <1>b, <1>d, <2>1 DEF RaiseUserInterrupt, StartOrder, LoopRuns, Flag
<1>7. CASE EndRepetition
  <2>1. Verdict \in 0 .. 2
    BY DEF Verdict, Main
  <2>2. main' \in Main /\ main'.pc \notin {"start", "join", "thr_join"}
    <3>0. main.reps - 1 \in Nat
      BY <1>7, <1>c DEF EndRepetition, ThreadsJoined, LoopRuns
    <3>1. CASE main' = [main EXCEPT !.pc = "finally", !.return_code = Verdict]
      BY <2>1, <3>1 DEF Main
    <3>2. CASE main' = [main EXCEPT !.pc = "finally", !.return_code = Verdict,
                                    !.exc = "ResmokeError"]
      BY <1>c, <2>1, <3>2 DEF Main
    <3>3. CASE main' = [main EXCEPT !.pc = "repeat", !.return_code = Verdict, !.reps = @ - 1]
      BY <2>1, <3>0, <3>3 DEF Main
    <3> QED
      BY <1>7, <3>1, <3>2, <3>3 DEF EndRepetition
  <2>3. report' \in [results : Nat, failed : BOOLEAN]
    <3>1. report' = report \/ report' = [results |-> 0, failed |-> FALSE]
      BY <1>7 DEF EndRepetition
    <3>2. [results |-> 0, failed |-> FALSE] \in [results : Nat, failed : BOOLEAN]
      OBVIOUS
    <3> QED
      BY <3>1, <3>2, Zenon
  <2>4. hist' \in History
    BY <1>7, <1>d DEF EndRepetition
  <2> QED
    BY <1>7, <1>b, <2>2, <2>3, <2>4 DEF EndRepetition, Flag, StartOrder, LoopRuns
<1>8. CASE Finally
  <2>1. main' \in Main /\ main'.pc \notin {"start", "join", "thr_join"}
    BY <1>8, <1>c, <1>e DEF Finally, Main
  <2> QED
    BY <1>8, <1>b, <2>1 DEF Finally, StartOrder, LoopRuns
<1>9. CASE TeardownNext
  <2>1. PICK o \in FixtureOutcomes :
          /\ main' = CASE o = "pass" -> [main EXCEPT !.next = @ + 1]
                       [] o = "fail" -> [main EXCEPT !.next = @ + 1, !.return_code = 2]
                       [] o = "raise" ->
                              Returned([main EXCEPT !.exc = "LoggerRuntimeConfigError"])
          /\ hist' = [hist EXCEPT !.failed = @ \/ o # "pass"]
    BY <1>9 DEF TeardownNext
  <2>2. main.next + 1 \in 1 .. NumJobsToStart + 1 /\ main.pc = "teardown"
    BY <1>9, <1>c DEF TeardownNext
  <2>3. main' \in Main /\ main'.pc \notin {"start", "join", "thr_join"}
    <3>1. CASE o = "pass"
      BY <2>1, <2>2, <3>1 DEF Main
    <3>2. CASE o = "fail"
      BY <1>c, <2>1, <2>2, <3>2 DEF Main
    <3>3. CASE o = "raise"
      <4>1. [main EXCEPT !.exc = "LoggerRuntimeConfigError"] \in Main
        BY <1>c DEF Main
      <4> QED
        BY <1>e, <2>1, <3>3, <4>1
    <3> QED
      BY <3>1, <3>2, <3>3 DEF FixtureOutcomes
  <2>4. hist' \in History
    BY <2>1 DEF History
  <2>5. main.next \in Jobs
    BY <1>9, <1>c DEF TeardownNext, Jobs
  <2>6. teardowns' \in [Jobs -> Nat]
    BY <1>9, <2>5 DEF TeardownNext
  <2> QED
    BY <1>9, <1>b, <2>3, <2>4, <2>6 DEF TeardownNext, StartOrder, LoopRuns
<1>10. CASE TeardownDone
  <2>1. main' \in Main /\ main'.pc \notin {"start", "join", "thr_join"}
    BY <1>10, <1>e DEF TeardownDone
  <2> QED
    BY <1>10, <1>b, <2>1 DEF TeardownDone, StartOrder, LoopRuns
<1>11. CASE UserInterrupt
  <2>1. main' \in Main /\ main'.pc = "thr_join" /\ main'.reps > 0
    BY <1>11, <1>c DEF UserInterrupt, Main, LoopRuns
  <2> QED
    BY <1>11, <1>b, <2>1 DEF UserInterrupt, StartOrder, LoopRuns
<1>12. CASE InterruptThreadJoin
  <2>1. main' \in Main /\ main'.pc = "finally"
    BY <1>12, <1>c DEF InterruptThreadJoin, Main
  <2>2. hist' \in History
    BY <1>12 DEF InterruptThreadJoin, History
  <2> QED
    BY <1>12, <1>b, <2>1, <2>2 DEF InterruptThreadJoin, StartOrder, LoopRuns
<1>13. CASE InterruptTeardown
  <2>1. [main EXCEPT !.interrupts = @ + 1, !.exc = "KeyboardInterrupt"] \in Main
    BY <1>c DEF Main
  <2>2. main' \in Main /\ main'.pc = "done"
    BY <1>13, <1>e, <2>1 DEF InterruptTeardown
  <2>3. hist' \in History
    BY <1>13 DEF InterruptTeardown, History
  <2>4. main.next \in Jobs
    BY <1>13, <1>c DEF InterruptTeardown, Jobs
  <2>5. teardowns' \in [Jobs -> Nat]
    BY <1>13, <2>4 DEF InterruptTeardown
  <2> QED
    BY <1>13, <1>b, <2>2, <2>3, <2>5 DEF InterruptTeardown, StartOrder, LoopRuns
<1> QED
  BY <1>1, <1>2, <1>3, <1>4, <1>5, <1>6, <1>7, <1>8, <1>9, <1>10, <1>11, <1>12, <1>13
     DEF MainThread, CtrlC


\* The executor keeps its types and its count of unfinished tasks, whatever the
\* jobs, the main thread and the user do.
THEOREM CountingInvariant == Spec => []Counting
<1>1. Counting /\ [Next]_vars => Counting'
  <2> SUFFICES ASSUME Counting, [Next]_vars PROVE Counting'
    OBVIOUS
  <2>1. CASE UNCHANGED vars
    BY <2>1 DEF Counting, TypeOK, TaskAccounting, HeldElement, StartOrder, LoopRuns, Running, Holders,
                vars, queueVars, flagVars, fixtureVars
  <2> QED
    BY <2>1, CountingJob, CountingMain DEF Next
<1> QED
  BY <1>1, CountingInit, PTL DEF Spec

\* Type correctness; task_done() is never called more often than put().
THEOREM TypeCorrect == Spec => []TypeOK
  BY CountingInvariant, PTL DEF Counting

\* Queue.join() returns only when no test waits and none is in progress.
THEOREM TaskAccountingHolds == Spec => []TaskAccounting
  BY CountingInvariant, PTL DEF Counting

=============================================================================
