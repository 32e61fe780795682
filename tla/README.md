# resmoke, the FSM framework and shell libraries in TLA+

This directory holds TLA+ models of the concurrent and fault-handling programs
in this repository, TLC configurations that check them on small instances, and
proofs, checked by TLAPS, about most of them.

* `resmoke.py` (`src/buildscripts/resmoke.py`, `src/buildscripts/resmokelib`) is
  the multi-threaded test runner.
* The *FSM* framework (`src/jstests/concurrency/fsm_libs`) runs workloads, each a
  random walk through a finite state machine, in many threads of a mongo shell.
* Libraries that tests load (`src/jstests/libs`, `src/jstests/replsets/libs`) put
  commands into transactions, retry them, and drive replica sets through rollbacks.

The rest of the repository is some four thousand tests these programs run. One
family of them, the FSM workloads that look for broken snapshot isolation, is
modelled as well, because its verdict is an algorithm of its own.

## The system and its parts

| part | code | what it does |
| --- | --- | --- |
| executor | `testing/executor.py` | On the main thread: fills a queue with the tests of a suite, starts a thread per job, waits, combines the reports, repeats the suite, decides the return code. |
| job | `testing/job.py` | A thread that owns a fixture and hooks: takes tests from the queue, runs hooks and test, requeues, drains the queue when something goes wrong. |
| queue | `utils/queue.py`, `testing/queue_element.py` | A queue whose `join()` can time out; its elements know whether a test has to be repeated. |
| hooks | `testing/hooks/*.py` | Code around every test. Some own a thread: `background_job.py` runs a script during the test, `stepdown.py` steps primaries down. |
| archival | `testing/hook_test_archival.py`, `utils/archival.py` | Data files of failed tests are packed by the job, uploaded by one thread and listed by another. |
| report, suite | `testing/report.py`, `testing/suite.py` | Results of each job, their combination, summaries. |
| fixtures | `testing/fixtures/*.py` | Servers, replica sets and sharded clusters a job's tests use. |
| processes, ports | `core/*.py` | Programs, their output pipes, port numbers. |
| logging | `logging/*.py` | Handlers that buffer lines, a thread that flushes them, a log server. |
| selection | `selector.py`, `parser.py`, `suitesconfig.py` | Which tests a suite has. |
| FSM runner | `fsm_libs/runner.js`, `resmoke_runner.js` | Makes groups of workloads; sets a group up, runs it, tears it down. |
| FSM threads | `fsm_libs/thread_mgr.js`, `worker_thread.js`, `fsm.js`, `composer.js` | Starts worker threads, a latch that makes them begin together, the random walks. |
| FSM cluster | `fsm_libs/cluster.js` | The servers of a group that is run without resmoke. |
| transaction override | `libs/override_methods/network_error_and_txn_override.js` | Replaces `runCommand`: puts the commands of a test into transactions, retries commands, transactions and commits. |
| rollback driver | `replsets/libs/rollback_test.js` | Cuts and restores the connections of a replica set so that one node rolls back. |
| transaction workloads | `fsm_workloads/multi_statement_transaction_atomicity_isolation*.js`, `fsm_workload_helpers/auto_retry_transaction.js`, `libs/cycle_detection.js` | Concurrent transactions with automatic retry, and the search for anomalies in what they leave behind. |
| other overrides | the rest of `libs/override_methods`, with `continuous_stepdown.js` | A stepdown thread in the shell, read and write concerns, causal consistency. |

`PROJECT.json` lists every part, with the ones that are not modelled and why.

How they interact: the executor shares with the jobs a queue, an interrupt flag,
a setup flag and a teardown flag. A job calls its hooks before and after each
test, and a hook with a thread must be quiet when `after_test` has returned.
The stepdown thread and the FSM runner, which live in different processes, talk
through three files. The archival threads get their work from the jobs and are
stopped by the main thread at the end. The transaction override sits between a
test and the server, and calls itself for each commit, abort and retry. The
rollback driver and the transaction workloads talk to servers only.

## Modules

Names follow the code. A definition that models code is listed in
`PROJECT.json` with its lines. Definitions whose comment begins with `Slip:`
are variations of the definition that follows, as a programming mistake would
make them; each shows that some property depends on that line of the code.

| module | models | state and steps |
| --- | --- | --- |
| `QueueElement` | `queue_element.py` | operators: a completed execution, `should_requeue()` |
| `TestOutcome` | the contract of `Job._execute_test` | the set of outcomes one execution may have |
| `Executor` | `executor.py`, `job.py`, `utils/queue.py`, `_execute_suite` of `resmoke.py` | queue, its count of unfinished tasks, flags, a program counter per job and for the main thread; a step has at most one access to what threads share |
| `TestExecution` | `_run`, `_execute_test` and the hook loops of `job.py`; `report.py` as the job uses it | the report's infos, the hook the loop is at, what was archived; of each background thread the test case it holds and the one it runs, whether it was told to run, and what it ended with |
| `BackgroundJob` | `hooks/background_job.py`, `validate_background.py`, `dbhash_background.py` | the fields with and without lock, the thread, the job thread |
| `Stepdown` | `hooks/stepdown.py` without the round itself; `resmoke_runner.js` | lifecycle flags or files, the idle event, stepdown thread, shell, job thread |
| `Archival` | `hook_test_archival.py`, `utils/archival.py` | the two queues and workers, the limits, the bucket and the JSON file |
| `WorkloadGroup` | `runWorkloadGroup()` of `runner.js`, `thread_mgr.js`, `worker_thread.js` | thread counts, latch, worker threads, main thread and the exception on its way out of it, what is set up, cleaned up and torn down, errors |
| `WorkloadSchedule` | `scheduleWorkloads()` of `runner.js` | the list, its position, the number of groups if it is specified, how often each workload was scheduled |
| `Session` | what a test may rely on from the transaction override (abstract) | inserts that are stored, pending in a transaction, acknowledged |
| `TxnOverride` | `network_error_and_txn_override.js` | a stack with a frame for each nested `runCommand`, the list of commands of the transaction, its number; the server's session and transaction |
| `RollbackTest` | `rollback_test.js` | the driver's state and next call; links, roles, terms, logs and rollback ids of three nodes |
| `TxnWorkload` | the three transaction workloads, `auto_retry_transaction.js`, `cycle_detection.js` | each thread's state function, transaction and notes; the server's history of committed databases and its sessions |
| `ExecutorProofs`, `FixtureProofs`, `CompletenessProofs` | theorems about `Executor` | |
| `BackgroundJobProofs`, `StepdownProofs`, `ArchivalProofs`, `WorkloadGroupProofs`, `SessionProofs` | theorems about the module of that name | |

`Executor` and `TestExecution` compose through `TestOutcome`. `Executor` treats
an execution of a test as one step with any outcome of `ExecOutcomes`.
`TestExecution` models the execution in detail, and its invariant
`OutcomePromised` says that it has no other outcomes. The outcome tells the
results of the test itself from those of background threads: `fail_fast` looks at
the former only. A job with `fail_fast` therefore goes on after a background
failure that nobody raised, which happens when the thread wakes up inside
`resume()` (`BackgroundJob!FailureRaised` below).

`TxnOverride` implements `Session`: it instantiates it with a refinement mapping
(the inserts among the listed commands are pending until their commit is durable)
and has the specification of `Session` as its property `KeepsSession`. What
follows from `Session` is proved in `SessionProofs`.

Each module with state has a `TypeOK`; that of `Executor` is a theorem, and the
types of the other modules with proofs are part of their inductive invariants.

### What is abstracted

* A report is, for the executor, the number of results and whether one is bad.
* A test takes 0 to `MaxTestTime` units of time; a hook or test passes, fails or
  raises. Log lines, names, commands and durations are left out.
* Python threads interleave between any two accesses to shared state.
  `Event`, `Lock`, `Condition` and `queue.Queue` operations are atomic.
* A thread that a Ctrl-C interrupts is the main thread, as in Python.
* Floating-point scaling of thread counts: `Math.floor(factor * count)` may come
  out one too low when the exact product is an integer; both are allowed.
* The random shuffle of the scheduler is any permutation.
* `join()` of a thread of the shell is external. It throws what the thread threw,
  as noPassthrough/shell_scoped_thread.js:96 expects.
* The servers are external and modelled by what the shell relies on. In
  `TxnOverride` the server executes, fails or loses a command, forgets a
  transaction on a failover and loses what was not replicated; responses are the
  classes of error the override tells apart. In `RollbackTest` connected nodes
  elect one whose log is not behind, replicate from the primary, and roll back; a
  node that is restarted may have lost the last entries that no other node has. In
  `TxnWorkload` the server gives snapshot isolation or breaks one promise once.
* `TxnOverride` has one session. A transaction number that has been used up is a
  larger number, as the shell, which is not part of this repository, makes it.
* In `TxnWorkload` a find with its getMores is one command, transactions are not
  prepared (`prepareProbability` is 0), and there is one collection.

## Runs that pass

| run | shows |
| --- | --- |
| `Executor_suite` | Two repetitions of a suite with two jobs and two Ctrl-C: `TaskAccounting` (`join()` never returns over a test in progress; no test is requeued in this run, the theorem covers that), `TeardownAtMostOnce`, `TornDownAtEnd`, `RunsOnLiveFixture`, `VerdictSound` (exit code 0 means nothing failed) and `Termination`. |
| `Executor_repeat` | Tests repeated for a time, with `fail_fast`: `ElementOwnedOnce`, `CompleteUnlessInterrupted` (nothing is lost although jobs leave as soon as the queue looks empty) and `RunsBounded`. |
| `TestExecution_job` | With `fail_fast` or without: `OutcomePromised`, also when background threads run late, twice or an earlier test case; `PassMeansChecked`, a test reported as passed was checked by every hook; `FailureArchived`. |
| `BackgroundJob_suite` | `NoScriptAfterTest`: also with skipped calls, no script runs on after its `after_test` returned. `Termination`: unless an `after_test` is skipped the job gets through every `pause()` and through `stop()`. |
| `Stepdown_suite` | With flags or files: `AtMostOneLateRound` escapes a pause; `AckedTeardownUndisturbed`, also after crashed workloads; `SetupUndisturbed` while every shell waits for its acknowledgement; `Termination` unless the stepdown thread dies. |
| `Archival_exit` | `LimitsKept`, `ListedIsUploaded`, `CompleteAfterExit`; `EventuallyTried`: an upload that raises does not end the worker. |
| `WorkloadGroup_group` | `StartTogether` (the latch); `NoWorkerDuringTeardown`, a teardown meets a worker only when the join of an earlier thread threw; `FailuresReported`, a teardown that was not called and an error of a worker are among the errors or an exception leaves the group; `SuccessMeansRan`, a group ends well only if every thread did, and the data of a failed group are kept; `ScalingFits`, when the scaled counts keep to the maximum; `Termination`, although threads fail while they load. |
| `WorkloadSchedule_groups` | `GroupsFull`; `GapBounded`, each workload is in one of the first ceil(n / size) groups and never left out for two rounds; `AllScheduled`, the default number of groups is enough for all, and so is any that is specified and not below that. |
| `TxnOverride_faults` | With retries, transactions or both, under lost responses, failovers and errors: `KeepsSession`, the refinement; `AssertionsHold`, the override's own assertions in the test's command and at any depth of nesting; `CommandsReturn`, every `runCommand` returns or throws. |
| `RollbackTest_cycles` | Two full cycles with writes, elections in between and restarts: `ChecksHold`, no assertion of the driver fails; `RollsBackExactly`, what was written to be rolled back is gone and nothing else, also with restarts, where the node either rolls back or has lost the writes in the restart; `TransitionsReturn`, no wait is for something the remaining connections cannot bring about. |
| `TxnWorkload_anomalies` | `NoFalseAlarm`: on a correct server the workload does not fail, with conflicts, killed sessions and network errors. `PassMeansIsolated`: if all threads finish and the teardown passes, the documents are what the acknowledged transactions leave in some serial order, although the server may have lost, torn or leaked one. `FindCycleExact`: `findCycle()` against the definition of a cycle. |

## Claims that do not hold

`Executor_hang` checks a sentence of a comment, quoted under `findings` in
`PROJECT.json`; TLC's trace is the shortest way to break it. A job decides to
requeue, another drains the queue, then the first puts its test back and leaves:
`join()` waits for ever, although the drain is there "to unblock the main thread".

Other sentences are stated in the modules, under "What comments say, and the code
does not do". TLC refutes each of them when it is named in place of the
properties in the configuration of the module's passing run.

| definition | sentence about | what happens |
| --- | --- | --- |
| `Executor!PassMeansAllRan` | executor.py:149 | Results of fixture setup and teardown stand in for tests that never ran; the suite exits with 0. |
| `Executor!FixturesDestroyed` | executor.py:114 | A Ctrl-C while the threads of the last repetition are started leaves fixtures standing. |
| `Executor!InterruptReported` | resmoke.py:214 | A Ctrl-C while a fixture fails to set up is reported as an ordinary failure. |
| `TestExecution!AfterSuiteCalled` | hooks/interface.py:42 | An execution that raises skips `after_suite`. |
| `BackgroundJob!FailureRaised` | validate_background.py:72 | A thread that wakes up inside `resume()` has its failure erased, and the job goes on. |
| `BackgroundJob!CalledOnce` | background_job.py:34 | A thread that wakes up inside `resume()` runs the next test case twice. |
| `BackgroundJob!PauseReturns` | background_job.py:63 | After a skipped `after_test`, `pause()` stops the wrong test case and waits for ever. |
| `Stepdown!PauseReturns` | stepdown.py:344 | No failure at all: thread and job both remove the permitted file, the thread dies of it with the idle event cleared, and `pause()` waits for ever. |
| `Stepdown!NoStepdownWhilePaused` | stepdown.py:140 | Permission is given before the idle event is cleared, so a stepdown begins after `pause()` has returned. |
| `Stepdown!TeardownUndisturbed` | resmoke_runner.js:170 | The shell's wait times out, and `$config.teardown()` runs beside a stepdown. |
| `Archival!OwnRepeatNumber` | hook_test_archival.py:88 | Two jobs read one repeat number; the second upload replaces the first. |
| `WorkloadGroup!ScaledToFit` | thread_mgr.js:66 | Scaling 1, 1 and 8 threads to 5 makes 6. |
| `WorkloadGroup!JoinReturns` | runner.js:572 | A thread that cannot be started leaves the others at the latch, and `joinAll()` blocks. |
| `WorkloadGroup!JoinedFirst` | runner.js:572 | The join of a thread that failed to load throws; the teardowns begin while the threads behind it still run. |
| `WorkloadGroup!FifthMayFail` | runner.js:568 | One thread in five fails, `checkFailed(0.2)` lets it pass, and the join of that thread throws all the same. |
| `WorkloadGroup!EachTornDown` | runner.js:579 | A failed check of consistency or validation returns before the teardown of that workload. |
| `WorkloadSchedule!OnceBeforeAgain` | runner.js:174 | A workload may be scheduled three times before another is scheduled twice. |
| `WorkloadSchedule!TwoToThreeTimes` | runner.js:178 | With fewer workloads than a group holds, each may be scheduled once. |
| `TxnWorkload!EveryThreadChecks` | multi_statement_transaction_atomicity_isolation.js:293 | The wrapper does not count the states that the derived workloads add, so a thread may end without a check. |

`RollbackTest` agrees with rollback_test.js:235 that with restarts a cycle may pass
without a rollback, but not with the reason given at :215, that "the secondary may
get elected": in the model the rollback node is frozen and has no majority, and
what prevents the rollback is that the restart lost the writes.

Two more are seen in `TxnOverride` as it is written. "Swallow safe errors that may
come from a retry" (network_error_and_txn_override.js:851) also applies to a
command that was not retried. And once an exception has reached the test, the
commands of the open transaction stay listed; this is why `Session` promises
nothing afterwards.

## Bounds

* `Executor`: two jobs are what every race here needs (one that requeues,
  takes or drains, one that does something else); two tests let one wait
  while another runs; two repetitions separate the first (setup), the last
  (teardown by the jobs) and the end; two Ctrl-C cover one while the first is
  handled. The theorems below remove these bounds for the invariants.
* `TestExecution`: two hooks, so that one is before and one behind the one
  that fails; three tests, since a thread may add three results to one execution: for this
  test and, when it is late, for the two before it. This makes six results of hooks.
  Whether the suite has `fail_fast` is chosen in the initial state.
* `BackgroundJob`, `Stepdown`: three tests. A thread that is late for one test
  meets the second, and the third shows the effect is over. Whether `Stepdown`
  uses flags or files is chosen in the initial state.
* `Archival`: three calls for one name, of sizes that make either limit the
  first to be reached, and two that race for the repeat number.
* `WorkloadGroup`: five threads, the least number at which one failed thread is
  within the allowed 20%; requests up to eight, so that scaling rounds down,
  lifts a count to one, and misses the maximum.
* `WorkloadSchedule`: all lists up to five and groups up to six, so that a group
  divides the list, does not, and is longer than the list; up to eight groups if
  their number is specified, so that all workloads come around, or too few.
* `TxnOverride`: three commands with two to a transaction, so that one
  transaction is committed by the next command; two faults, so that a retry is
  itself disturbed; one network retry, so that it is used up.
* `RollbackTest`: two cycles, since the roles of the two electable nodes change
  places after the first; two writes and one restart, anywhere in them.
* `TxnWorkload`: two threads, three documents (the least that lets two
  transactions meet in one, in two or in none), three state functions each,
  one restart and one network error. Threads and documents are symmetric: where the
  code goes through the documents in some order, the property takes every order.

TLC checks deadlock nowhere: all these programs end, and a thread that waits for
ever is the subject of the liveness properties and of `DrainUnblocksMain`.

## Fairness

`FairSpec` of each module is weak fairness of each thread or process as a
whole: an operating-system thread that can go on eventually does. There is no
fairness on Ctrl-C, on failures, on a choice within a thread, nor on the calls
of `Archival`, whose two workers are each fair; a loop that waits for time to
pass (a script that runs until it is stopped, a stepdown interval) needs only
that its own thread goes on.

`TxnOverride` is fair to the shell's one thread; faults are bounded, and a server
that keeps failing is outside what the override can promise. `RollbackTest` is
fair to the driver and to each node's elections, replication and rollback, which
the driver's waits presuppose; that an isolated primary steps down by itself is
not assumed. No liveness is claimed for `TxnWorkload`: conflicting transactions
may abort each other for ever, since `withTxnAndAutoRetry()` has no back-off.

Three programs can hang, as the claims above show, and their `Termination`
names the one way in which they do: a skipped `after_test` (`BackgroundJob`), a
dead stepdown thread (`Stepdown`), a thread that could not be started
(`WorkloadGroup`). `Executor`'s `Termination` is checked without repetition for
a time, where `Executor_hang` refutes it.

## What is proved

The theorems hold for every value of the constants. They use the named
assumptions of the modules only, which TLC evaluates: constants are natural
numbers, there is a job and a test, and the minimum of repetitions is not above
the maximum (which `parser.py` checks).

1. `ExecutorProofs`: `TypeOK` and `TaskAccounting`. The inductive invariant is
   `Counting`. `TaskAccounting` alone is not inductive: a thread at the point
   of requeuing must hold an element (`HeldElement`), and a thread may only be
   started once (`StartOrder`) and in a counted repetition (`LoopRuns`).
   The argument about the count is that a step moves at most one thread into or
   out of `Holders`.
2. `FixtureProofs`: `TeardownAtMostOnce`, `TornDownAtEnd`, `RunsOnLiveFixture`.
   The invariant `Fixtures` says whose duty a teardown is: the threads' in the
   last repetition, else the main thread's, in the order of the jobs.
   It needs that no thread outlives its repetition unless the main thread
   stopped waiting (`ThreadsGone`, `Abandonment`). `VerdictSound` follows from
   `FailureNoted`: what failed is in the return code or left as an exception.
3. `CompletenessProofs`: `ElementOwnedOnce` is inductive over `Counting`.
   `CompleteUnlessInterrupted` rests on `Coverage`: until a thread gives up,
   every element is queued, owned or satisfied (`NothingLost`), and a queue that
   is not empty has a thread that will look at it (`QueueServed`): the job that
   puts an element back looks again itself. `RunsBounded` rests on
   `RunsJustified`: only an element that asked for it is run again.
4. `BackgroundJobProofs`: `NoScriptAfterTest`. A thread may be late, so the
   invariant says which test case a waiting or running thread can still be at
   (`CaseOfTest`, `LateThread`), and that an idle thread runs nothing
   (`IdleIsIdle`).
5. `StepdownProofs`: `AtMostOneLateRound`, `AckedTeardownUndisturbed`,
   `SetupUndisturbed`, with flags or files. Needed are that between tests there
   is no permission (`NoPermission`) and no file left over (`NoStaleRequest`,
   `NoStaleAck`), and that an acknowledgement means the thread rests until the
   next test (`AckMeansRest`).
6. `ArchivalProofs`: `LimitsKept`, `ListedIsUploaded`, `CompleteAfterExit`. The
   invariant follows an archive on its way through both queues (`AllOnTheWay`)
   and says that in each queue it is ahead of the sentinel (`UploadSentinel`,
   `JsonSentinel`), so that a joined worker has seen it.
7. `WorkloadGroupProofs`: `StartTogether`, `NoWorkerDuringTeardown`,
   `FailuresReported`, `SuccessMeansRan`, for any number of workloads and threads.
   The heart is `LatchCounts`: the latch is the number of threads less the
   threads that counted down; `LatchOpen` follows, a running thread found it at
   zero. `NothingThrown` says what the main thread may rely on without an exception:
   the latch is open, all workloads are set up and, after the joins, every thread
   has returned a value. `NoWorkerDuringTeardown` needs that threads are joined in
   the order in which they were started (`StartOrder`). `ErrorsGathered` and
   `CleanedUp` carry failures to the end.
8. `SessionProofs`: `ExactlyOnce` of the abstract session. An insert is stored
   or pending at most once because `Add` and `Store` take only what is in
   neither. With `KeepsSession` this says of the override that an acknowledged
   insert is neither lost nor doubled, on the instances TLC covers.

Model-checked only: all liveness (fairness is outside the proof system's reach);
that `TxnOverride` implements `Session`; `TestExecution`, `WorkloadSchedule`,
`RollbackTest` and `TxnWorkload`; `ScalingFits`; and the search for cycles, which
is a recursive operator.

## Not modelled

* Threads inside libraries (`requests`, `boto3`, `pymongo`) and the servers.
* What a round of stepdowns does to a replica set.
* A second Ctrl-C inside `_teardown_fixtures`, or between `thr.start()` and
  `threads.append(thr)`.
* Concurrent reading of reports for the summary of a hang (signal handler).
* Fixtures beyond up, down or failed; ports; processes; log handlers.
* Of the shell's libraries: `continuous_stepdown.js`, `cluster.js`,
  `rollback_test_deluxe.js`, the override of `connect()`, read and write concerns,
  and prepared transactions.
* The tests themselves, which make up nearly all of `src/jstests`: each is a
  sequence of commands to a server and of assertions on its answers. Without the
  server, which is not in this repository, such a script has no behaviour of its
  own that could be right or wrong; with an invented one, a model would only
  repeat the assertions. Those whose own logic is concurrent are the exception,
  and `TxnWorkload` is an example.
* Tools that are sequential programs around other programs: generators of task
  files, the IDL compiler, lint and packaging.

Hazards of the code that is not modelled, in addition to those of `PROJECT.json`:

| code | what can go wrong |
| --- | --- |
| executor.py:142 | The return code 2 of a failed teardown is overwritten by 1 when a test failed as well. |
| report.py:169 | Counters are recomputed after the lock was released, while a summary reads them. |
| suite.py:319 | A test that a `before_test` hook failed and that ran all the same has two infos, which makes the number of skipped tests negative. |
| stepdown.py:524 | An exception other than `OperationFailure` leaves a killed primary down. |
| cleanup_concurrency_workloads.py:80 | A database that cannot be dropped leaves the balancer stopped. |
| buildlogger.py:93 | A line longer than the limit makes a batch that is too large, and an empty one before it. |
| flush.py:112 | The wake-up event is cleared after the queue was seen empty; a submit in between must not be forgotten. |
| network.py:75 | A job's twenty-first port; ports of neighbouring jobs. |
| replicaset.py:421 | A running initial-sync node hides a crashed member. |
| jstest.py:222 | One of several copies of a test fails to start. |

## What comes next

In this order:

1. Log buffering: `BufferedHandler`, the flush thread, the splitting of batches;
   no line is lost or sent after the test is closed.
2. `TestReport` and `Suite`: a combination while jobs write; summaries; return
   codes of suites as `resmoke.py` turns them into its own.
3. A round of `_step_down` and the other hooks that stop servers
   (`periodic_kill_secondaries`, `initialsync`, `cleanup_concurrency_workloads`).
4. Fixtures: set-up and teardown of replica sets and sharded clusters with
   failing parts; the port allocator; several copies of a jstest in threads.
5. The shell's side: `continuous_stepdown.js`, `cluster.js`,
   `rollback_test_deluxe.js`.
6. Pure algorithms as operators: tag expressions and filters of `selector.py`,
   the weighted choice and composition of FSM state machines.
7. Refinements: `TestExecution` implements `TestOutcome` as a step property, an
   abstract barrier for the latch, an abstract set of archived files.
8. Proofs: that every step of `TxnOverride` is a step of `Session` or a stutter;
   `RollsBackExactly`.
