---------------------------- MODULE WorkloadGroup ----------------------------
(***************************************************************************)
(* One group of concurrency workloads: runWorkloadGroup() of               *)
(* fsm_libs/runner.js on the main thread, the ThreadManager it uses        *)
(* (thread_mgr.js) and the worker threads (worker_thread.js), which wait   *)
(* for each other at a latch before they run their state machines.         *)
(***************************************************************************)
EXTENDS Naturals, FiniteSets, FiniteSetsExt

CONSTANTS
    NumWorkloads,   \* the size of the group
    MaxRequested,   \* bound: the largest $config.threadCount
    MaxAllowed,     \* maxAllowedThreads
    StartMayThrow   \* whether the start of a thread may throw

ASSUME WorkloadGroupAssumption ==
    /\ NumWorkloads \in Nat \ {0} /\ MaxRequested \in Nat \ {0}
    /\ MaxAllowed \in Nat \ {0} /\ StartMayThrow \in BOOLEAN

Workloads == 1 .. NumWorkloads

\* init() refuses to make more threads.
Tids == 1 .. MaxAllowed

VARIABLES
    threadCount,       \* $config.threadCount of each workload
    numThreads, latch, \* of the ThreadManager
    worker,            \* where each worker thread is
    handled,           \* failedThreadIndexes
    main,              \* where the main thread is
    threw,             \* whether an exception is on its way out of the main thread
    setUp,             \* how many workloads are set up: cleanup.length
    cleaned,           \* for how many of them cleanupWorkload() has returned
    tornDown,          \* the ones whose teardown function was called
    errors,            \* the errors gathered: of worker threads, of clean-ups, of the rest
    dropped            \* whether the data were dropped

counts == <<threadCount, numThreads>>
group == <<setUp, cleaned, tornDown, errors, dropped>>
vars == <<counts, latch, worker, handled, main, threw, group>>

WorkerStates == {"unborn", "loading", "failed", "await", "running", "ok", "error"}
Ended == {"failed", "ok", "error"}

Errors == [worker : Tids] \cup [cleanup : Workloads] \cup [record : {"config"}]

MainStates == {"init", "setup", "spawn", "check", "join", "cleanup", "record", "drop",
               "consistency", "done", "threw"}

TypeOK ==
    /\ threadCount \in [Workloads -> 1 .. MaxRequested]
    /\ numThreads \in 0 .. MaxAllowed /\ latch \in 0 .. numThreads
    /\ worker \in [Tids -> WorkerStates]
    /\ handled \subseteq Tids
    /\ main \in MainStates /\ threw \in BOOLEAN
    /\ setUp \in 0 .. NumWorkloads /\ cleaned \in 0 .. setUp /\ tornDown \subseteq 1 .. cleaned
    /\ errors \subseteq Errors
    /\ dropped \in BOOLEAN

Init ==
    /\ threadCount \in [Workloads -> 1 .. MaxRequested]
    /\ numThreads = 0 /\ latch = 0
    /\ worker = [t \in Tids |-> "unborn"]
    /\ handled = {}
    /\ main = "init" /\ threw = FALSE
    /\ setUp = 0 /\ cleaned = 0 /\ tornDown = {}
    /\ errors = {}
    /\ dropped = FALSE

Started == {t \in Tids : worker[t] # "unborn"}
Total(count) == MapThenSumSet(LAMBDA w : count[w], Workloads)

-----------------------------------------------------------------------------
(* ThreadManager.init() *)

\* Slip: Math.ceil() for Math.floor().
ScaledUp(count, requested) == {(MaxAllowed * count + requested - 1) \div requested}

\* Math.floor(factor * count) for factor = MaxAllowed / requested, at least 1.
\* The product of two rounded numbers may fall just below a whole number.
Scaled(count, requested) ==
    LET product == MaxAllowed * count
        exact == product \div requested
        floor == IF product % requested = 0 THEN {exact, exact - 1} ELSE {exact}
    IN  {IF n > 1 THEN n ELSE 1 : n \in floor}

ScaledCounts ==
    IF Total(threadCount) > MaxAllowed
    THEN {f \in [Workloads -> 1 .. MaxRequested] :
             \A w \in Workloads : f[w] \in Scaled(threadCount[w], Total(threadCount))}
    ELSE {threadCount}

\* An exception skips to the finally block of runWorkloadGroup().
Throw == threw' = TRUE /\ main' = "cleanup"

\* The assertion on the sum of the scaled counts may fail.
InitThreads ==
    /\ main = "init"
    /\ threadCount' \in ScaledCounts
    /\ IF Total(threadCount') \in 1 .. MaxAllowed
       THEN /\ numThreads' = Total(threadCount') /\ latch' = Total(threadCount')
            /\ main' = "setup" /\ UNCHANGED threw
       ELSE Throw /\ UNCHANGED <<numThreads, latch>>
    /\ UNCHANGED <<worker, handled, group>>

\* setupWorkload() of the next workload, which may throw.
SetUp ==
    /\ main = "setup"
    /\ IF setUp = NumWorkloads
       THEN main' = "spawn" /\ UNCHANGED <<threw, setUp>>
       ELSE \/ setUp' = setUp + 1 /\ UNCHANGED <<main, threw>>
            \/ Throw /\ UNCHANGED setUp
    /\ UNCHANGED <<counts, latch, worker, handled, cleaned, tornDown, errors, dropped>>

\* spawnAll() starts the next thread, or throws and leaves the others unborn.
Spawn ==
    /\ main = "spawn"
    /\ LET next == Cardinality(Started) + 1
       IN  \/ /\ next > numThreads /\ main' = "check"
              /\ UNCHANGED <<worker, threw>>
           \/ /\ next <= numThreads /\ worker' = [worker EXCEPT ![next] = "loading"]
              /\ UNCHANGED <<main, threw>>
           \/ /\ StartMayThrow /\ next <= numThreads
              /\ threw' = TRUE /\ main' = "join" /\ UNCHANGED worker
    /\ UNCHANGED <<counts, latch, handled, group>>

-----------------------------------------------------------------------------
(* The worker threads: workerThread.main() *)

CountDown == latch' = IF latch = 0 THEN 0 ELSE latch - 1

\* Slip: a thread that throws counts down itself as well.
LoadAlwaysCounts(t) ==
    /\ worker[t] = "loading"
    /\ CountDown
    /\ \E s \in {"await", "failed"} : worker' = [worker EXCEPT ![t] = s]
    /\ UNCHANGED <<counts, handled, main, threw, group>>

\* Connecting and loading end with countDown(), or throw and leave it to the
\* main thread.
Load(t) ==
    /\ worker[t] = "loading"
    /\ \/ worker' = [worker EXCEPT ![t] = "await"] /\ CountDown
       \/ worker' = [worker EXCEPT ![t] = "failed"] /\ UNCHANGED latch
    /\ UNCHANGED <<counts, handled, main, threw, group>>

PassLatch(t) ==
    /\ worker[t] = "await" /\ latch = 0
    /\ worker' = [worker EXCEPT ![t] = "running"]
    /\ UNCHANGED <<counts, latch, handled, main, threw, group>>

\* run(configs) returns, or throws, which becomes the thread's return value.
RunFSM(t) ==
    /\ worker[t] = "running"
    /\ \E s \in {"ok", "error"} : worker' = [worker EXCEPT ![t] = s]
    /\ UNCHANGED <<counts, latch, handled, main, threw, group>>

Worker(t) == Load(t) \/ PassLatch(t) \/ RunFSM(t)

-----------------------------------------------------------------------------
(* The main thread waits for the workers. *)

\* Slip: the threads that failed are not counted down.
HandleFailedOnly(t) ==
    /\ main = "check" /\ worker[t] = "failed" /\ t \notin handled
    /\ handled' = handled \cup {t}
    /\ UNCHANGED <<counts, latch, worker, main, threw, group>>

\* The loop of checkFailed() counts down for each failed thread once.
HandleFailedThread(t) ==
    /\ main = "check" /\ worker[t] = "failed" /\ t \notin handled
    /\ handled' = handled \cup {t}
    /\ CountDown
    /\ UNCHANGED <<counts, worker, main, threw, group>>

\* More than 20% failed: checkFailed() throws, and the finally block joins.
TooManyFailed == 5 * Cardinality(handled) > Cardinality(Started)

CheckFailed ==
    /\ main = "check" /\ latch = 0
    /\ threw' = TooManyFailed /\ main' = "join"
    /\ UNCHANGED <<counts, latch, worker, handled, group>>

\* t.join() for the threads in the order of their numbers: the first n have ended
\* with a return value.
Joined(n) == \A t \in 1 .. n : worker[t] \in {"ok", "error"}

\* The errors that the threads returned.
ReturnedErrors == {[worker |-> t] : t \in {u \in Started : worker[u] = "error"}}

\* Slip: the threads are not joined after an exception.
JoinUnlessThrown ==
    /\ main = "join" /\ main' = "cleanup"
    /\ \/ /\ threw \/ Joined(Cardinality(Started))
          /\ errors' = errors \cup ReturnedErrors /\ UNCHANGED threw
       \/ \E t \in Started :
             /\ Joined(t - 1) /\ worker[t] = "failed"
             /\ threw' = TRUE /\ UNCHANGED errors
    /\ UNCHANGED <<counts, latch, worker, handled, setUp, cleaned, tornDown, dropped>>

\* Slip: the exception of a thread that failed is swallowed.
JoinWithoutThrow ==
    /\ main = "join" /\ main' = "cleanup"
    /\ \A t \in Started : worker[t] \in Ended
    /\ errors' = errors \cup ReturnedErrors
    /\ UNCHANGED <<counts, latch, worker, handled, threw, setUp, cleaned, tornDown, dropped>>

\* joinAll(): the join of a thread with an uncaught exception throws it.  Then the
\* threads after it are not joined, and no error of a thread is gathered.
JoinAll ==
    /\ main = "join" /\ main' = "cleanup"
    /\ \/ /\ Joined(Cardinality(Started))
          /\ errors' = errors \cup ReturnedErrors /\ UNCHANGED threw
       \/ \E t \in Started :
             /\ Joined(t - 1) /\ worker[t] = "failed"
             /\ threw' = TRUE /\ UNCHANGED errors
    /\ UNCHANGED <<counts, latch, worker, handled, setUp, cleaned, tornDown, dropped>>

-----------------------------------------------------------------------------
(* The finally block and the end of runWorkloadGroup(). *)

\* Slip: a check that fails before the teardown is not reported.
CleanupSilently ==
    /\ main = "cleanup"
    /\ IF cleaned = setUp
       THEN main' = "record" /\ UNCHANGED <<cleaned, tornDown, errors>>
       ELSE /\ cleaned' = cleaned + 1
            /\ \/ UNCHANGED <<tornDown, errors>>
               \/ /\ tornDown' = tornDown \cup {cleaned'}
                  /\ \E failed \in SUBSET {[cleanup |-> cleaned']} : errors' = errors \cup failed
            /\ UNCHANGED main
    /\ UNCHANGED <<counts, latch, worker, handled, threw, setUp, dropped>>

\* cleanupWorkload() of the next workload that was set up.  The consistency check
\* or the validation fails and the teardown is not called, or the teardown is
\* called, and may fail; the next workload follows.
Cleanup ==
    /\ main = "cleanup"
    /\ IF cleaned = setUp
       THEN main' = "record" /\ UNCHANGED <<cleaned, tornDown, errors>>
       ELSE /\ cleaned' = cleaned + 1
            /\ \/ errors' = errors \cup {[cleanup |-> cleaned']} /\ UNCHANGED tornDown
               \/ /\ tornDown' = tornDown \cup {cleaned'}
                  /\ \E failed \in SUBSET {[cleanup |-> cleaned']} : errors' = errors \cup failed
            /\ UNCHANGED main
    /\ UNCHANGED <<counts, latch, worker, handled, threw, setUp, dropped>>

\* recordConfigServerData(), after which a pending exception goes on.
Record ==
    /\ main = "record"
    /\ \E failed \in SUBSET {[record |-> "config"]} : errors' = errors \cup failed
    /\ main' = IF threw THEN "threw" ELSE "drop"
    /\ UNCHANGED <<counts, latch, worker, handled, threw, setUp, cleaned, tornDown, dropped>>

\* cleanupWorkloadData() unless there are errors, then throwError().
DropData ==
    /\ main = "drop"
    /\ main' = IF errors = {} THEN "consistency" ELSE "threw"
    /\ dropped' = (errors = {})
    /\ UNCHANGED <<counts, latch, worker, handled, threw, setUp, cleaned, tornDown, errors>>

\* checkReplicationConsistency() at the end may throw.
Consistency ==
    /\ main = "consistency" /\ main' \in {"done", "threw"}
    /\ UNCHANGED <<counts, latch, worker, handled, threw, group>>

Main ==
    \/ InitThreads \/ SetUp \/ Spawn \/ CheckFailed \/ JoinAll \/ Cleanup \/ Record
    \/ DropData \/ Consistency \/ \E t \in Tids : HandleFailedThread(t)

Next == Main \/ \E t \in Tids : Worker(t)

Spec == Init /\ [][Next]_vars

\* Every thread goes on while it can; state machines have a number of iterations.
FairSpec == Spec /\ WF_vars(Main) /\ \A t \in Tids : WF_vars(Worker(t))

-----------------------------------------------------------------------------
\* No worker runs its state machine before every thread of the group has been
\* started and has loaded or failed to (the latch of workerThread.main() and
\* checkFailed()).
StartTogether ==
    \A t \in Tids : worker[t] = "running" =>
        /\ Cardinality(Started) = numThreads
        /\ \A u \in Started : worker[u] # "loading"

CleaningUp == {"cleanup", "record", "drop", "consistency", "done", "threw"}

\* A $config.teardown() runs beside a worker thread only if a thread started before
\* that one failed to load, and then an exception leaves the group; no exception of
\* setup(), spawnAll() or checkFailed() alone lets the clean-up begin too early (the
\* two finally blocks of runWorkloadGroup() and joinAll()).
NoWorkerDuringTeardown == main \in CleaningUp =>
    \A t \in Tids : worker[t] \notin Ended \cup {"unborn"} =>
        threw /\ \E u \in 1 .. t - 1 : worker[u] = "failed"

\* No failure is lost.  After the clean-up each workload that was set up was torn
\* down, or an error says why it was not; and the error that a worker thread returned
\* is among the errors unless an exception leaves the group in their place
\* (cleanupWorkload(), and joinAll(), which drops what it has gathered when it throws).
FailuresReported ==
    /\ main \in CleaningUp \ {"cleanup"} =>
          \A w \in 1 .. setUp : w \in tornDown \/ [cleanup |-> w] \in errors
    /\ main \in CleaningUp =>
          \A t \in Tids : worker[t] = "error" => threw \/ [worker |-> t] \in errors

\* A group that ends well ran the state machine of every thread to its end: one
\* thread that failed to load is too many, whatever checkFailed() lets pass.  And the
\* data of a group are dropped only if no worker thread and no clean-up failed and
\* every teardown was called, so that the data of a failure are there to look at.
SuccessMeansRan ==
    /\ main = "done" => \A t \in 1 .. numThreads : worker[t] = "ok"
    /\ dropped => /\ \A t \in Tids : worker[t] \in {"ok", "unborn"}
                  /\ errors = {} /\ tornDown = Workloads

\* The group ends: the latch opens although threads fail, and the join returns or
\* throws, unless the start of a thread threw.
Termination ==
    <>(main \in {"done", "threw"} \/ (main = "join" /\ Cardinality(Started) < numThreads))

\* Scaling never adds a thread, leaves alone a group that fits, and makes a
\* group fit unless the share of some workload is less than one thread
\* (ThreadManager.init() and its assertion on the sum).
ScalingFits ==
    [][main = "init" =>
        /\ \A w \in Workloads : threadCount'[w] <= threadCount[w]
        /\ Total(threadCount) <= MaxAllowed => UNCHANGED threadCount
        /\ (\A w \in Workloads : MaxAllowed * threadCount[w] >= Total(threadCount))
               => Total(threadCount') <= MaxAllowed]_vars

(* What comments say, and the code does not do. *)

\* Scaled thread counts sum to at most the maximum (the comment in
\* ThreadManager.init(), which even says less).
ScaledToFit == [][main = "init" => Total(threadCount') <= MaxAllowed]_vars

\* The threads that were started are joined even after an exception (the
\* comment above joinAll() in runWorkloadGroup()).
JoinReturns == main = "join" ~> main # "join"

\* The threads are joined before the teardowns begin (the same comment).
JoinedFirst == main \in CleaningUp => \A t \in Started : worker[t] \in Ended

\* A fifth of the threads may fail (the comment above checkFailed(0.2)): when it has
\* returned, the joins do not throw.
FifthMayFail == [][main = "join" /\ main' = "cleanup" => threw' = threw]_vars

\* Each workload's teardown function is called (the comment above cleanupResults).
EachTornDown == main \in CleaningUp \ {"cleanup"} => tornDown = 1 .. setUp

=============================================================================
