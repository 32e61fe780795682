------------------------- MODULE WorkloadGroupProofs -------------------------
(***************************************************************************)
(* Proofs about one group of workloads, for any number of workloads and    *)
(* threads: what the latch, the joins and the finally block ensure.        *)
(***************************************************************************)
EXTENDS WorkloadGroup, FiniteSetTheorems, TLAPS

USE SMTT(30), ZenonT(30)

Types ==
    /\ numThreads \in 0 .. MaxAllowed /\ latch \in Nat
    /\ worker \in [Tids -> WorkerStates]
    /\ handled \subseteq {t \in Tids : worker[t] = "failed"}
    /\ main \in MainStates /\ threw \in BOOLEAN
    /\ setUp \in 0 .. NumWorkloads /\ cleaned \in 0 .. setUp /\ tornDown \subseteq 1 .. cleaned

\* The threads for which the latch was counted down, by themselves or by the
\* main thread.
Counted == {t \in Tids : worker[t] \in {"await", "running", "ok", "error"}} \cup handled

LatchCounts == latch = numThreads - Cardinality(Counted)

\* The threads are started in the order of their numbers, all of them unless
\* a start throws.
StartOrder ==
    /\ \E k \in 0 .. numThreads : Started = 1 .. k
    /\ main \in {"init", "setup"} => Started = {}
    /\ main = "init" => numThreads = 0
    /\ main = "check" => Started = 1 .. numThreads

\* A state machine runs only after the latch was opened.
LatchOpen == \A t \in Tids : worker[t] \in {"running", "ok", "error"} => latch = 0

\* What the main thread knows when nothing was thrown: after the joins, that every
\* thread has returned a value.
NothingThrown ==
    /\ threw = TRUE => main \in {"join", "cleanup", "record", "threw"}
    /\ threw = FALSE /\ main \in (CleaningUp \ {"threw"}) \cup {"join"} =>
        latch = 0 /\ setUp = NumWorkloads
    /\ threw = FALSE /\ main \in CleaningUp => \A t \in Started : worker[t] \in {"ok", "error"}
    /\ main \in {"spawn", "check"} => setUp = NumWorkloads

\* The errors of the worker threads are gathered, and forbid that the data are
\* dropped.
ErrorsGathered ==
    /\ main \in CleaningUp =>
          \A t \in Tids : worker[t] = "error" => threw = TRUE \/ [worker |-> t] \in errors
    /\ dropped => /\ main \in {"consistency", "done", "threw"} /\ errors = {}
                  /\ tornDown = Workloads /\ \A t \in Tids : worker[t] \in {"ok", "unborn"}
    /\ main \in {"consistency", "done"} => dropped

\* Each clean-up calls the teardown or leaves an error, and all of them have returned
\* after the finally block.
CleanedUp ==
    /\ \A w \in 1 .. cleaned : w \in tornDown \/ [cleanup |-> w] \in errors
    /\ main \in CleaningUp \ {"cleanup"} => cleaned = setUp

IInv ==
    /\ Types /\ LatchCounts /\ StartOrder /\ LatchOpen /\ NothingThrown
    /\ ErrorsGathered /\ CleanedUp /\ NoWorkerDuringTeardown

-----------------------------------------------------------------------------
(* The threads that are counted are among those started, and both are      *)
(* among the first numThreads.                                             *)
LEMMA Sizes ==
    ASSUME Types, StartOrder
    PROVE  /\ Counted \subseteq Started /\ Started \subseteq 1 .. numThreads
           /\ IsFiniteSet(Counted) /\ Cardinality(Counted) \in 0 .. numThreads
           /\ IsFiniteSet(handled) /\ Cardinality(handled) \in Nat
<1>1. numThreads \in Nat BY WorkloadGroupAssumption DEF Types
<1>2. Counted \subseteq Started BY DEF Counted, Started, Types
<1>3. Started \subseteq 1 .. numThreads BY <1>1 DEF StartOrder
<1>4. IsFiniteSet(1 .. numThreads) /\ Cardinality(1 .. numThreads) = numThreads
  BY <1>1, FS_Interval
<1>5. IsFiniteSet(Counted) /\ Cardinality(Counted) <= numThreads
  <2>1. Counted \in SUBSET (1 .. numThreads) BY <1>2, <1>3
  <2> QED BY <1>4, <2>1, FS_Subset
<1>6. IsFiniteSet(handled)
  <2>1. handled \in SUBSET Counted BY DEF Counted
  <2> QED BY <1>5, <2>1, FS_Subset
<1> QED BY <1>1, <1>2, <1>3, <1>5, <1>6, FS_CardinalityType

(* When the latch is open, every thread was started, and is counted.       *)
LEMMA OpenMeansAll ==
    ASSUME Types, StartOrder, LatchCounts, latch = 0
    PROVE  Counted = 1 .. numThreads /\ Started = 1 .. numThreads
<1>1. numThreads \in Nat BY WorkloadGroupAssumption DEF Types
<1>2. IsFiniteSet(1 .. numThreads) /\ Cardinality(1 .. numThreads) = numThreads
  BY <1>1, FS_Interval
<1>3. Cardinality(Counted) = numThreads BY <1>1, Sizes DEF LatchCounts
<1>4. Counted \in SUBSET (1 .. numThreads) BY Sizes
<1>5. Counted = 1 .. numThreads BY <1>2, <1>3, <1>4, FS_Subset
<1> QED BY <1>5, Sizes

(* A thread that was not counted makes the latch go down by one.           *)
LEMMA CountOne ==
    ASSUME Types, StartOrder, LatchCounts, CountDown, NEW t \in Started, t \notin Counted,
           Counted' = Counted \cup {t}, numThreads' = numThreads
    PROVE  LatchCounts' /\ latch' \in Nat /\ latch # 0
<1>1. numThreads \in Nat /\ Cardinality(Counted) \in Nat
  BY Sizes, WorkloadGroupAssumption DEF Types
<1>2. Cardinality(Counted') = Cardinality(Counted) + 1 BY Sizes, FS_AddElement
<1>3. latch # 0 BY OpenMeansAll, Sizes
<1>4. latch' = latch - 1 BY <1>3 DEF CountDown
<1> QED BY <1>1, <1>2, <1>3, <1>4 DEF LatchCounts, Types

(* The steps of the worker threads keep the invariant.                     *)
LEMMA WorkerPreserves == ASSUME IInv, NEW t \in Tids, Worker(t) PROVE IInv'
<1> USE DEF IInv
<1>1. /\ UNCHANGED <<counts, handled, main, threw, group>>
      /\ worker[t] \notin Ended \cup {"unborn"}
  BY DEF Worker, Load, PassLatch, RunFSM, Ended
<1>2. main \in CleaningUp => threw = TRUE /\ \E u \in 1 .. t - 1 : worker[u] = "failed"
  BY <1>1 DEF NoWorkerDuringTeardown, Types
<1>3. PICK s \in {"await", "failed", "running", "ok", "error"} : worker' = [worker EXCEPT ![t] = s]
  BY DEF Worker, Load, PassLatch, RunFSM
<1>4. worker[t] \in {"loading", "await", "running"} /\ worker[t] # "failed"
  BY DEF Worker, Load, PassLatch, RunFSM
<1>5. t \notin handled BY <1>4 DEF Types
<1>6. Started' = Started BY <1>3, <1>4 DEF Started, Types
<1>7. latch' \in Nat /\ LatchCounts' /\ LatchOpen'
  <2>1. CASE worker[t] = "loading" /\ worker' = [worker EXCEPT ![t] = "await"] /\ CountDown
    <3>1. Counted' = Counted \cup {t} /\ t \notin Counted /\ t \in Started
      BY <1>1, <1>5, <2>1 DEF Counted, Started, Types
    <3>2. LatchCounts' /\ latch' \in Nat /\ latch # 0 BY <1>1, <2>1, <3>1, CountOne DEF counts
    <3>3. LatchOpen' BY <2>1, <3>2 DEF LatchOpen, Types
    <3> QED BY <3>2, <3>3
  <2>2. CASE worker[t] = "loading" /\ worker' = [worker EXCEPT ![t] = "failed"] /\ UNCHANGED latch
    <3>1. Counted' = Counted BY <1>1, <2>2 DEF Counted, Types
    <3> QED BY <1>1, <2>2, <3>1 DEF LatchCounts, LatchOpen, Types, counts
  <2>3. CASE PassLatch(t) \/ RunFSM(t)
    <3>1. Counted' = Counted BY <1>1, <2>3 DEF Counted, Types, PassLatch, RunFSM
    <3> QED BY <1>1, <2>3, <3>1 DEF LatchCounts, LatchOpen, Types, counts, PassLatch, RunFSM
  <2> QED BY <2>1, <2>2, <2>3 DEF Worker, Load
<1>8. Types' BY <1>1, <1>3, <1>5, <1>7 DEF Types, WorkerStates, counts, group
<1>9. StartOrder' BY <1>1, <1>6 DEF StartOrder, counts
<1>10. NothingThrown'
  <2>1. latch = 0 => latch' = 0 BY DEF Worker, Load, PassLatch, RunFSM, CountDown
  <2> QED BY <1>1, <1>2, <2>1 DEF NothingThrown, counts, group
<1>11. ErrorsGathered'
  <2>1. ~dropped BY <1>4 DEF ErrorsGathered
  <2> QED BY <1>1, <1>2, <2>1 DEF ErrorsGathered, group
<1>12. CleanedUp' BY <1>1 DEF CleanedUp, group
<1>13. NoWorkerDuringTeardown'
  <2> SUFFICES ASSUME main \in CleaningUp, NEW v \in Tids, worker'[v] \notin Ended \cup {"unborn"}
               PROVE  threw /\ \E u \in 1 .. v - 1 : worker'[u] = "failed"
    BY <1>1 DEF NoWorkerDuringTeardown
  <2>1. worker[v] \notin Ended \cup {"unborn"} BY <1>1, <1>3 DEF Types
  <2>2. PICK u \in 1 .. v - 1 : threw /\ worker[u] = "failed" BY <2>1 DEF NoWorkerDuringTeardown
  <2>3. u \in Tids BY WorkloadGroupAssumption DEF Tids
  <2>4. worker'[u] = "failed" BY <1>3, <1>4, <2>2, <2>3 DEF Types
  <2> QED BY <2>2, <2>4
<1> QED BY <1>7, <1>8, <1>9, <1>10, <1>11, <1>12, <1>13

(* So do the steps of the main thread up to the start of the threads.      *)
LEMMA SetUpPreserves == ASSUME IInv, InitThreads \/ SetUp PROVE IInv'
<1> USE DEF IInv
<1>1. main \in {"init", "setup"} BY DEF InitThreads, SetUp
<1>2. worker' = worker /\ handled' = handled /\ cleaned' = cleaned /\ tornDown' = tornDown
      /\ errors' = errors /\ dropped' = dropped
  BY DEF InitThreads, SetUp, group
<1>3. \A t \in Tids : worker[t] = "unborn" BY <1>1 DEF StartOrder, Started
<1>4. handled = {} /\ Counted = {} /\ Counted' = {} /\ Started' = {}
  BY <1>2, <1>3 DEF Types, Counted, Started
<1>5. Cardinality({}) = 0 BY FS_EmptySet
<1>6. threw = FALSE BY <1>1 DEF NothingThrown, Types
<1>7. /\ numThreads' \in 0 .. MaxAllowed /\ latch' = numThreads'
      /\ setUp' \in 0 .. NumWorkloads /\ setUp <= setUp'
      /\ main' \in {"setup", "spawn", "cleanup"}
      /\ threw' = IF main' = "cleanup" THEN TRUE ELSE FALSE
      /\ main' = "spawn" => setUp' = NumWorkloads
  <2>1. CASE InitThreads
    <3>1. numThreads = 0 /\ latch = 0
      BY <1>4, <1>5, <2>1 DEF InitThreads, StartOrder, LatchCounts, Types
    <3>2. \/ main' = "setup" /\ threw' = threw /\ numThreads' \in 1 .. MaxAllowed
          \/ main' = "cleanup" /\ threw' = TRUE /\ numThreads' = numThreads
      BY <2>1 DEF InitThreads, Throw
    <3>3. latch' = numThreads' /\ setUp' = setUp BY <2>1, <3>1 DEF InitThreads, group
    <3>4. threw' = (IF main' = "cleanup" THEN TRUE ELSE FALSE)
      BY <1>6, <3>2
    <3>5. /\ numThreads' \in 0 .. MaxAllowed /\ latch' = numThreads'
          /\ setUp' \in 0 .. NumWorkloads /\ setUp <= setUp'
          /\ main' \in {"setup", "spawn", "cleanup"}
          /\ main' = "spawn" => setUp' = NumWorkloads
      BY <3>1, <3>2, <3>3, WorkloadGroupAssumption DEF Types
    <3> QED BY <3>4, <3>5
  <2>2. CASE SetUp
    <3>1. latch = numThreads
      BY <1>4, <1>5, WorkloadGroupAssumption DEF LatchCounts, Types
    <3>2. \/ main' = "spawn" /\ threw' = threw /\ setUp' = setUp /\ setUp = NumWorkloads
          \/ main' = main /\ threw' = threw /\ setUp' = setUp + 1 /\ setUp # NumWorkloads
          \/ main' = "cleanup" /\ threw' = TRUE /\ setUp' = setUp
      BY <2>2 DEF SetUp, Throw
    <3>3. main = "setup" /\ latch' = latch /\ numThreads' = numThreads BY <2>2 DEF SetUp, counts
    <3>4. threw' = (IF main' = "cleanup" THEN TRUE ELSE FALSE)
      BY <1>6, <3>2, <3>3
    <3>5. /\ numThreads' \in 0 .. MaxAllowed /\ latch' = numThreads'
          /\ setUp' \in 0 .. NumWorkloads /\ setUp <= setUp'
          /\ main' \in {"setup", "spawn", "cleanup"}
          /\ main' = "spawn" => setUp' = NumWorkloads
      BY <3>1, <3>2, <3>3, WorkloadGroupAssumption DEF Types
    <3> QED BY <3>4, <3>5
  <2> QED BY <2>1, <2>2
<1>8. Types'
  BY <1>2, <1>3, <1>4, <1>7, WorkloadGroupAssumption DEF Types, MainStates
<1>9. LatchCounts'
  BY <1>4, <1>5, <1>7, WorkloadGroupAssumption DEF LatchCounts
<1>10. StartOrder'
  <2>1. 0 \in 0 .. numThreads' /\ Started' = 1 .. 0 BY <1>4, <1>7, WorkloadGroupAssumption
  <2> QED BY <1>4, <1>7, <2>1 DEF StartOrder
<1>11. LatchOpen' /\ NoWorkerDuringTeardown'
  BY <1>2, <1>3 DEF LatchOpen, NoWorkerDuringTeardown
<1>12. NothingThrown' BY <1>7 DEF NothingThrown, CleaningUp
<1>13. ErrorsGathered' BY <1>1, <1>2, <1>3, <1>7 DEF ErrorsGathered
<1>14. CleanedUp' BY <1>2, <1>7 DEF CleanedUp, CleaningUp
<1> QED BY <1>8, <1>9, <1>10, <1>11, <1>12, <1>13, <1>14

(* spawnAll() starts the thread with the next number.                      *)
LEMMA SpawnPreserves == ASSUME IInv, Spawn PROVE IInv'
<1> USE DEF IInv
<1>1. /\ main = "spawn" /\ UNCHANGED <<counts, latch, handled, group>>
      /\ main' \in {"spawn", "check", "join"}
      /\ threw' = IF main' = "join" THEN TRUE ELSE FALSE
  <2>1. /\ main = "spawn" /\ UNCHANGED <<counts, latch, handled, group>>
        /\ \/ main' \in {"spawn", "check"} /\ threw' = threw
           \/ main' = "join" /\ threw' = TRUE
    BY DEF Spawn
  <2>2. threw = FALSE BY <2>1 DEF NothingThrown, Types
  <2>3. threw' = IF main' = "join" THEN TRUE ELSE FALSE
    BY <2>1, <2>2
  <2> QED BY <2>1, <2>3
<1>2. PICK k \in 0 .. numThreads : Started = 1 .. k BY DEF StartOrder
<1>3. k \in Nat /\ numThreads \in Nat /\ numThreads <= MaxAllowed /\ MaxAllowed \in Nat
  BY <1>2, WorkloadGroupAssumption DEF Types
<1>4. Cardinality(Started) = k BY <1>2, <1>3, FS_Interval
<1>5. CASE k + 1 <= numThreads /\ worker' = [worker EXCEPT ![k + 1] = "loading"] /\ main' = "spawn"
  <2>1. k + 1 \in Tids /\ worker[k + 1] = "unborn" BY <1>2, <1>3, <1>5 DEF Tids, Started
  <2>2. Started' = 1 .. k + 1
    <3>1. Started' = Started \cup {k + 1} BY <1>5, <2>1 DEF Started, Types
    <3> QED BY <1>2, <1>3, <3>1
  <2>3. Counted' = Counted BY <1>1, <1>5, <2>1 DEF Counted, Types
  <2>4. Types' BY <1>1, <1>5, <2>1 DEF Types, WorkerStates, MainStates, counts, group
  <2>5. StartOrder' BY <1>1, <1>3, <1>5, <2>2 DEF StartOrder, counts
  <2>6. LatchCounts' BY <1>1, <2>3 DEF LatchCounts, counts
  <2>7. LatchOpen' BY <1>1, <1>5, <2>1 DEF LatchOpen, Types
  <2>8. NothingThrown' /\ ErrorsGathered' /\ CleanedUp' /\ NoWorkerDuringTeardown'
    BY <1>1, <1>5 DEF NothingThrown, ErrorsGathered, CleanedUp, NoWorkerDuringTeardown, CleaningUp, counts, group
  <2> QED BY <2>4, <2>5, <2>6, <2>7, <2>8
<1>6. CASE worker' = worker /\ (main' = "check" => k + 1 > numThreads)
  <2>1. main' = "check" => Started = 1 .. numThreads BY <1>2, <1>3, <1>6
  <2>2. Types' BY <1>1, <1>6 DEF Types, MainStates, counts, group
  <2>3. StartOrder' BY <1>1, <1>2, <1>6, <2>1 DEF StartOrder, Started, counts
  <2>4. LatchCounts' /\ LatchOpen' BY <1>1, <1>6 DEF LatchCounts, LatchOpen, Counted, counts
  <2>5. NothingThrown' /\ ErrorsGathered' /\ CleanedUp' /\ NoWorkerDuringTeardown'
    BY <1>1, <1>6 DEF NothingThrown, ErrorsGathered, CleanedUp, NoWorkerDuringTeardown, CleaningUp, counts, group
  <2> QED BY <2>2, <2>3, <2>4, <2>5
<1> QED BY <1>1, <1>4, <1>5, <1>6 DEF Spawn

(* checkFailed() counts down for a thread that failed to load.             *)
LEMMA HandlePreserves == ASSUME IInv, NEW t \in Tids, HandleFailedThread(t) PROVE IInv'
<1> USE DEF IInv
<1>1. /\ main = "check" /\ worker[t] = "failed" /\ t \notin handled /\ CountDown
      /\ handled' = handled \cup {t} /\ UNCHANGED <<counts, worker, main, threw, group>>
  BY DEF HandleFailedThread
<1>2. Counted' = Counted \cup {t} /\ t \notin Counted /\ t \in Started /\ Started' = Started
  BY <1>1 DEF Counted, Started
<1>3. LatchCounts' /\ latch' \in Nat /\ latch # 0 BY <1>1, <1>2, CountOne DEF counts
<1>4. Types' BY <1>1, <1>3 DEF Types, counts, group
<1>5. StartOrder' /\ LatchOpen' BY <1>1, <1>2, <1>3 DEF StartOrder, LatchOpen, counts
<1>6. NothingThrown' /\ ErrorsGathered' /\ CleanedUp' /\ NoWorkerDuringTeardown'
  BY <1>1 DEF NothingThrown, ErrorsGathered, CleanedUp, NoWorkerDuringTeardown, CleaningUp, group
<1> QED BY <1>3, <1>4, <1>5, <1>6

(* checkFailed() returns or throws when the latch is open; then the        *)
(* threads are joined.                                                     *)
LEMMA CheckPreserves == ASSUME IInv, CheckFailed PROVE IInv'
<1> USE DEF IInv
<1>1. /\ main = "check" /\ latch = 0 /\ threw' = TooManyFailed /\ main' = "join"
      /\ UNCHANGED <<counts, latch, worker, handled, group>>
  BY DEF CheckFailed
<1>2. threw' \in BOOLEAN BY <1>1 DEF TooManyFailed
<1>3. Types' BY <1>1, <1>2 DEF Types, MainStates, counts, group
<1>4. LatchCounts' /\ LatchOpen' /\ StartOrder'
  BY <1>1 DEF LatchCounts, LatchOpen, Counted, StartOrder, Started, counts
<1>5. NothingThrown' BY <1>1 DEF NothingThrown, CleaningUp, counts, group
<1>6. ErrorsGathered' /\ CleanedUp' /\ NoWorkerDuringTeardown'
  BY <1>1 DEF ErrorsGathered, CleanedUp, NoWorkerDuringTeardown, CleaningUp, group
<1> QED BY <1>3, <1>4, <1>5, <1>6

(* joinAll() returns the errors of all threads, or throws at the first     *)
(* thread that failed; then the ones still at work come after that one.    *)
LEMMA JoinPreserves == ASSUME IInv, JoinAll PROVE IInv'
<1> USE DEF IInv
<1>1. /\ main = "join" /\ main' = "cleanup"
      /\ UNCHANGED <<counts, latch, worker, handled, setUp, cleaned, tornDown, dropped>>
      /\ errors \subseteq errors' /\ threw' \in BOOLEAN /\ (threw' = FALSE => threw = FALSE)
  BY DEF JoinAll, Types
<1>2. LatchCounts' /\ LatchOpen' /\ StartOrder'
  BY <1>1 DEF LatchCounts, LatchOpen, Counted, StartOrder, Started, counts
<1>3. Types' BY <1>1 DEF Types, MainStates, counts
<1>4. CleanedUp' BY <1>1 DEF CleanedUp, CleaningUp
<1>5. ~dropped BY <1>1 DEF ErrorsGathered
<1>6. PICK k \in 0 .. numThreads : Started = 1 .. k BY DEF StartOrder
<1>7. k \in Nat /\ numThreads \in Nat /\ Cardinality(Started) = k
  BY <1>6, FS_Interval, WorkloadGroupAssumption DEF Types
<1>8. CASE Joined(Cardinality(Started)) /\ errors' = errors \cup ReturnedErrors
  <2>1. \A t \in Started : worker[t] \in {"ok", "error"} BY <1>6, <1>7, <1>8 DEF Joined
  <2>2. NothingThrown' BY <1>1, <2>1 DEF NothingThrown, CleaningUp, Started, counts
  <2>3. ErrorsGathered'
    <3>1. \A t \in Tids : worker[t] = "error" => [worker |-> t] \in errors'
      BY <1>8 DEF ReturnedErrors, Started
    <3> QED BY <1>1, <1>5, <3>1 DEF ErrorsGathered
  <2>4. NoWorkerDuringTeardown' BY <1>1, <2>1 DEF NoWorkerDuringTeardown, Started, Ended
  <2> QED BY <1>2, <1>3, <1>4, <2>2, <2>3, <2>4
<1>9. CASE threw' = TRUE /\ \E t \in Started : Joined(t - 1) /\ worker[t] = "failed"
  <2>1. PICK t \in Started : Joined(t - 1) /\ worker[t] = "failed" BY <1>9
  <2>2. NothingThrown' BY <1>1, <1>9 DEF NothingThrown
  <2>3. ErrorsGathered' BY <1>1, <1>5, <1>9 DEF ErrorsGathered
  <2>4. NoWorkerDuringTeardown'
    <3> SUFFICES ASSUME NEW v \in Tids, worker[v] \notin Ended \cup {"unborn"}
                 PROVE  \E u \in 1 .. v - 1 : worker[u] = "failed"
      BY <1>1, <1>9 DEF NoWorkerDuringTeardown
    <3>1. t \in Nat /\ t >= 1 /\ v \in Nat /\ v >= 1 BY WorkloadGroupAssumption DEF Started, Tids
    <3>2. v # t BY <2>1 DEF Ended
    <3>3. ~(v \in 1 .. t - 1) BY <2>1 DEF Joined, Ended
    <3> QED BY <2>1, <3>1, <3>2, <3>3
  <2> QED BY <1>2, <1>3, <1>4, <2>2, <2>3, <2>4
<1> QED BY <1>8, <1>9 DEF JoinAll

(* cleanupWorkload() goes through the workloads that were set up.          *)
LEMMA CleanupPreserves == ASSUME IInv, Cleanup PROVE IInv'
<1> USE DEF IInv
<1>1. /\ UNCHANGED <<counts, latch, worker, handled, threw, setUp, dropped>>
      /\ main = "cleanup" /\ main' \in {"cleanup", "record"} /\ errors \subseteq errors'
  BY DEF Cleanup
<1>2. LatchCounts' /\ LatchOpen' /\ StartOrder'
  BY <1>1 DEF LatchCounts, LatchOpen, Counted, StartOrder, Started, counts
<1>3. ~dropped BY <1>1 DEF ErrorsGathered
<1>4. NothingThrown' /\ ErrorsGathered' /\ NoWorkerDuringTeardown'
  BY <1>1, <1>3 DEF NothingThrown, ErrorsGathered, NoWorkerDuringTeardown, CleaningUp, Started, counts
<1>5. CASE cleaned = setUp /\ main' = "record" /\ UNCHANGED <<cleaned, tornDown, errors>>
  <2>1. Types' BY <1>1, <1>5 DEF Types, MainStates, counts
  <2>2. CleanedUp' BY <1>1, <1>5 DEF CleanedUp
  <2> QED BY <1>2, <1>4, <2>1, <2>2
<1>6. CASE /\ cleaned # setUp /\ main' = main /\ cleaned' = cleaned + 1
           /\ tornDown' \in {tornDown, tornDown \cup {cleaned'}}
           /\ cleaned' \in tornDown' \/ [cleanup |-> cleaned'] \in errors'
  <2>1. cleaned \in Nat /\ cleaned' \in 0 .. setUp BY <1>6, WorkloadGroupAssumption DEF Types
  <2>2. tornDown' \subseteq 1 .. cleaned' BY <1>6, <2>1 DEF Types
  <2>3. Types' BY <1>1, <2>1, <2>2 DEF Types, MainStates, counts
  <2>4. CleanedUp'
    <3>1. \A w \in 1 .. cleaned' : w \in 1 .. cleaned \/ w = cleaned' BY <1>6, <2>1
    <3>2. tornDown \subseteq tornDown' BY <1>6
    <3> QED BY <1>1, <1>6, <3>1, <3>2 DEF CleanedUp
  <2> QED BY <1>2, <1>4, <2>3, <2>4
<1> QED BY <1>5, <1>6 DEF Cleanup

(* What follows the clean-ups leaves the threads alone, and drops the data *)
(* only when there is no error.                                            *)
LEMMA EndPreserves == ASSUME IInv, Record \/ DropData \/ Consistency PROVE IInv'
<1> USE DEF IInv
<1>1. /\ UNCHANGED <<counts, latch, worker, handled, threw, setUp, cleaned, tornDown>>
      /\ main \in CleaningUp \ {"cleanup", "threw"} /\ main' \in CleaningUp \ {"cleanup"}
      /\ errors \subseteq errors'
  BY DEF Record, DropData, Consistency, CleaningUp, group
<1>2. LatchCounts' /\ LatchOpen' BY <1>1 DEF LatchCounts, LatchOpen, Counted, counts
<1>3. StartOrder' BY <1>1 DEF StartOrder, Started, counts, CleaningUp
<1>4. NoWorkerDuringTeardown' BY <1>1 DEF NoWorkerDuringTeardown
<1>5. CleanedUp' BY <1>1 DEF CleanedUp
<1>6. Types' BY <1>1 DEF Types, counts, CleaningUp, MainStates
<1>7. NothingThrown'
  <2>1. main' = "threw" \/ threw = FALSE
    BY DEF Record, DropData, Consistency, NothingThrown, Types
  <2> QED BY <1>1, <2>1 DEF NothingThrown, CleaningUp, Started, counts
<1>8. ErrorsGathered'
  <2>1. CASE Record
    <3>1. main = "record" /\ dropped' = dropped /\ main' \notin {"consistency", "done"}
      BY <2>1 DEF Record
    <3>2. ~dropped BY <3>1 DEF ErrorsGathered
    <3> QED BY <1>1, <3>1, <3>2 DEF ErrorsGathered
  <2>2. CASE DropData
    <3>1. /\ main = "drop" /\ errors' = errors
          /\ main' = IF errors = {} THEN "consistency" ELSE "threw"
          /\ dropped' = (errors = {})
      BY <2>2 DEF DropData
    <3>2. threw = FALSE BY <3>1 DEF NothingThrown, Types
    <3>3. CASE errors = {}
      <4>1. main' = "consistency" /\ dropped' BY <3>1, <3>3, Zenon
      <4>2. \A t \in Tids : worker[t] \in {"ok", "unborn"}
        BY <1>1, <3>2, <3>3 DEF NothingThrown, ErrorsGathered, Started
      <4>3. tornDown = Workloads
        <5>1. cleaned = NumWorkloads /\ tornDown \subseteq 1 .. cleaned
          BY <3>1, <3>2 DEF NothingThrown, CleanedUp, CleaningUp, Types
        <5>2. 1 .. cleaned \subseteq tornDown BY <3>3 DEF CleanedUp
        <5> QED BY <5>1, <5>2 DEF Workloads
      <4> QED BY <1>1, <3>1, <3>3, <4>1, <4>2, <4>3 DEF ErrorsGathered
    <3>4. CASE errors # {}
      <4>1. main' = "threw" /\ ~dropped' BY <3>1, <3>4, Zenon
      <4> QED BY <1>1, <3>1, <4>1 DEF ErrorsGathered
    <3> QED BY <3>3, <3>4
  <2>3. CASE Consistency
    BY <1>1, <2>3 DEF Consistency, group, ErrorsGathered
  <2> QED BY <2>1, <2>2, <2>3
<1> QED BY <1>2, <1>3, <1>4, <1>5, <1>6, <1>7, <1>8

(* The invariant holds in every state.                                     *)
THEOREM Invariance == Spec => []IInv
<1>1. Init => IInv
  <2> SUFFICES ASSUME Init PROVE IInv OBVIOUS
  <2>1. Types
    <3>1. threw \in BOOLEAN BY DEF Init
    <3>2. worker \in [Tids -> WorkerStates] BY DEF Init, WorkerStates
    <3>3. /\ numThreads \in 0 .. MaxAllowed /\ latch \in Nat
          /\ setUp \in 0 .. NumWorkloads /\ cleaned \in 0 .. setUp /\ tornDown \subseteq 1 .. cleaned
      BY WorkloadGroupAssumption DEF Init
    <3>4. handled \subseteq {t \in Tids : worker[t] = "failed"} /\ main \in MainStates
      BY DEF Init, MainStates
    <3> QED BY <3>1, <3>2, <3>3, <3>4 DEF Types
  <2>2. Counted = {} /\ Started = {} BY DEF Init, Counted, Started
  <2>3. LatchCounts BY <2>2, FS_EmptySet DEF Init, LatchCounts
  <2>4. StartOrder
    <3>1. 0 \in 0 .. numThreads /\ Started = 1 .. 0 BY <2>2 DEF Init
    <3> QED BY <2>2, <3>1 DEF Init, StartOrder
  <2>5. LatchOpen /\ NothingThrown /\ ErrorsGathered /\ CleanedUp /\ NoWorkerDuringTeardown
    BY DEF Init, LatchOpen, NothingThrown, ErrorsGathered, CleanedUp, NoWorkerDuringTeardown, CleaningUp
  <2> QED BY <2>1, <2>3, <2>4, <2>5 DEF IInv
<1>2. IInv /\ [Next]_vars => IInv'
  <2>1. IInv /\ UNCHANGED vars => IInv'
    BY DEF vars, counts, group, IInv, Types, Counted, LatchCounts, Started, StartOrder, LatchOpen,
           NothingThrown, ErrorsGathered, CleanedUp, NoWorkerDuringTeardown
  <2>2. IInv /\ Main => IInv'
    BY SetUpPreserves, SpawnPreserves, HandlePreserves, CheckPreserves, JoinPreserves,
       CleanupPreserves, EndPreserves DEF Main
  <2> QED BY <2>1, <2>2, WorkerPreserves DEF Next
<1> QED BY <1>1, <1>2, PTL DEF Spec

(* No state machine runs before every thread was started and has loaded or *)
(* failed: a thread that failed is counted down once, by the main thread.  *)
THEOREM StartTogetherHolds == Spec => []StartTogether
<1>1. IInv => StartTogether
  <2> SUFFICES ASSUME IInv, NEW t \in Tids, worker[t] = "running"
               PROVE  /\ Cardinality(Started) = numThreads
                      /\ \A u \in Started : worker[u] # "loading"
    BY DEF StartTogether
  <2>1. Counted = 1 .. numThreads /\ Started = 1 .. numThreads
    BY OpenMeansAll DEF IInv, LatchOpen
  <2>2. Cardinality(Started) = numThreads
    BY <2>1, FS_Interval, WorkloadGroupAssumption DEF IInv, Types
  <2>3. \A u \in Counted : worker[u] # "loading" BY DEF Counted, IInv, Types
  <2> QED BY <2>1, <2>2, <2>3
<1> QED BY <1>1, Invariance, PTL

(* The clean-up begins beside a worker thread only when a thread before it *)
(* failed to load, also when setup(), the start of a thread or             *)
(* checkFailed() throws; and then the group throws.                        *)
THEOREM NoWorkerDuringTeardownHolds == Spec => []NoWorkerDuringTeardown
<1>1. IInv => NoWorkerDuringTeardown BY DEF IInv
<1> QED BY <1>1, Invariance, PTL

(* No failure is lost: a workload that was set up is torn down or leaves   *)
(* an error, and so does a worker thread, unless the group throws.         *)
THEOREM FailuresReportedHolds == Spec => []FailuresReported
<1>1. IInv => FailuresReported
  <2> SUFFICES ASSUME IInv PROVE FailuresReported OBVIOUS
  <2>1. \A t \in Tids : main \in CleaningUp /\ worker[t] = "error" => threw \/ [worker |-> t] \in errors
    BY DEF IInv, ErrorsGathered, Types
  <2>2. main \in CleaningUp \ {"cleanup"} =>
           \A w \in 1 .. setUp : w \in tornDown \/ [cleanup |-> w] \in errors
    BY DEF IInv, CleanedUp
  <2> QED BY <2>1, <2>2 DEF FailuresReported
<1> QED BY <1>1, Invariance, PTL

(* A group that ends well ran all its threads to the end, and the data of  *)
(* a failure are kept.                                                     *)
THEOREM SuccessMeansRanHolds == Spec => []SuccessMeansRan
<1>1. IInv => SuccessMeansRan
  <2> SUFFICES ASSUME IInv PROVE SuccessMeansRan OBVIOUS
  <2>1. dropped => /\ \A t \in Tids : worker[t] \in {"ok", "unborn"}
                   /\ errors = {} /\ tornDown = Workloads
    BY DEF IInv, ErrorsGathered
  <2>2. ASSUME main = "done" PROVE \A t \in 1 .. numThreads : worker[t] = "ok"
    <3>1. dropped BY <2>2 DEF IInv, ErrorsGathered
    <3>2. threw = FALSE BY <2>2 DEF IInv, NothingThrown, Types
    <3>3. latch = 0 BY <2>2, <3>2 DEF IInv, NothingThrown, CleaningUp
    <3>4. Started = 1 .. numThreads BY <3>3, OpenMeansAll DEF IInv
    <3> QED BY <2>1, <3>1, <3>4 DEF Started
  <2> QED BY <2>1, <2>2 DEF SuccessMeansRan
<1> QED BY <1>1, Invariance, PTL
=============================================================================
