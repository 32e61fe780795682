---------------------------- MODULE StepdownProofs ----------------------------
(***************************************************************************)
(* What the handshake between the stepdown thread, the job and the shell   *)
(* of a concurrency workload ensures, for any number of tests and with any *)
(* failures of the servers and the shell.                                  *)
(***************************************************************************)
EXTENDS Stepdown, TLAPS

Permitted == IF useFiles THEN "permitted" \in files ELSE testState = "start"

Types == useFiles \in BOOLEAN /\ hook \in {"before_test", "after_test"}

\* The shell runs within a test, if there are files at all.
ShellInTest ==
    /\ ~useFiles => files = {} /\ thread \notin {"ack", "revoke"}
    /\ shell \notin {"off", "ended"} => job = "test" /\ useFiles
    /\ job = "before_suite" => thread = "none" /\ files = {} /\ testState = "finished"
    /\ thread = "none" => job = "before_suite"
    /\ job \in {"before_suite", "resume"} => hook = "before_test"

\* The event is not set from ClearIdle to SetIdle.
BusyIsNotIdle ==
    thread \in {"round", "stepping", "poll", "ack", "revoke", "interval"} => ~idle

\* From mark_test_finished() on there is no permission.
NoPermission ==
    Paused \/ job = "before_suite" \/ job \in {"mark_request", "mark_ack", "await_idle"} => ~Permitted

\* A round that is late is followed by no other.
LateRounds ==
    /\ late \in {0, 1}
    /\ late = 1 /\ Paused => thread \notin {"clear", "round"}
    /\ job \in {"before_suite", "test"} => late = 0
    /\ hook = "after_test" /\ job \in {"check", "mark", "mark_request", "mark_ack", "await_idle"} =>
        late = 0

\* Once pause() has waited, the thread finds no request until the next shell
\* makes one, and so does not acknowledge.
NoStaleRequest ==
    /\ job \in {"mark_ack", "await_idle"} => "idle_request" \notin files
    /\ Paused \/ (job = "test" /\ shell \in {"setup", "threads"}) =>
        "idle_request" \notin files /\ thread \notin {"ack", "revoke"}

\* The pause() of before_test() removes an acknowledgement that came too late.
NoStaleAck ==
    /\ hook = "before_test" /\ job \in {"await_idle", "await_primaries", "resume"} =>
        "idle_ack" \notin files
    /\ job = "test" /\ shell \in {"setup", "threads"} => "idle_ack" \notin files

\* The thread has acknowledged and is about to revoke the permission, or waits
\* without one.
AtRest ==
    \/ thread = "revoke"
    \/ thread \in {"none", "set_idle", "wait", "exited", "dead"} /\ "permitted" \notin files

AckMeansRest ==
    useFiles =>
        /\ shell = "wait_ack" /\ "idle_ack" \in files => AtRest
        /\ shell = "acked_teardown" => AtRest
        /\ shell \in {"off", "setup", "teardown", "ended"} /\ ~unacked => AtRest

IInv ==
    /\ Types /\ ShellInTest /\ BusyIsNotIdle /\ NoPermission /\ LateRounds
    /\ NoStaleRequest /\ NoStaleAck /\ AckMeansRest

-----------------------------------------------------------------------------
(* A step of the stepdown thread keeps the invariant: it begins a round only *)
(* with a permission, and acknowledges only a request.                       *)
LEMMA ThreadPreserves == ASSUME IInv, Thread PROVE IInv'
<1> USE DEF IInv, Types, Goto, flags, shellVars, jobVars, ShellInTest, BusyIsNotIdle
<1> USE DEF NoPermission, LateRounds, NoStaleRequest, NoStaleAck, AckMeansRest, AtRest, Permitted, Paused
<1>1. CASE SetIdle BY <1>1 DEF SetIdle
<1>2. CASE WaitForStepdownPermitted BY <1>2 DEF WaitForStepdownPermitted
<1>3. CASE ClearIdle BY <1>3 DEF ClearIdle
<1>4. CASE BeginRound
  <2>1. Types' BY <1>4 DEF BeginRound
  <2>2. ShellInTest' BY <1>4 DEF BeginRound
  <2>3. BusyIsNotIdle' BY <1>4 DEF BeginRound
  <2>4. NoPermission' BY <1>4 DEF BeginRound
  <2>5. LateRounds' BY <1>4 DEF BeginRound
  <2>6. NoStaleRequest' BY <1>4 DEF BeginRound
  <2>7. NoStaleAck' BY <1>4 DEF BeginRound
  <2>8. AckMeansRest' BY <1>4 DEF BeginRound
  <2> QED BY <2>1, <2>2, <2>3, <2>4, <2>5, <2>6, <2>7, <2>8
<1>5. CASE EndRound BY <1>5 DEF EndRound
<1>6. CASE PollForIdleRequest BY <1>6 DEF PollForIdleRequest
<1>7. CASE WriteAck BY <1>7 DEF WriteAck
<1>8. CASE RemovePermitted BY <1>8 DEF RemovePermitted
<1>9. CASE WaitInterval BY <1>9 DEF WaitInterval
<1> QED BY <1>1, <1>2, <1>3, <1>4, <1>5, <1>6, <1>7, <1>8, <1>9 DEF Thread

(* So does a step of the shell, or its crash.                              *)
LEMMA ShellPreserves == ASSUME IInv, Shell \/ ShellCrashes PROVE IInv'
<1> USE DEF IInv, Types, ShellGoto, flags, threadVars, jobVars, ShellInTest, BusyIsNotIdle
<1> USE DEF NoPermission, LateRounds, NoStaleRequest, NoStaleAck, AckMeansRest, AtRest, Permitted, Paused
<1>1. CASE Setup BY <1>1 DEF Setup
<1>2. CASE RequestIdle BY <1>2 DEF RequestIdle
<1>3. CASE AwaitAck BY <1>3 DEF AwaitAck
<1>4. CASE Teardown BY <1>4 DEF Teardown
<1>5. CASE ShellCrashes BY <1>5 DEF ShellCrashes
<1> QED BY <1>1, <1>2, <1>3, <1>4, <1>5 DEF Shell

(* And a step of the job: its pause() removes the files one by one before  *)
(* it waits for the thread.                                                *)
LEMMA JobPreserves == ASSUME IInv, Job PROVE IInv'
<1> USE DEF IInv, Types, JobGoto, flags, threadVars, shellVars, ShellInTest, BusyIsNotIdle
<1> USE DEF NoPermission, LateRounds, NoStaleRequest, NoStaleAck, AckMeansRest, AtRest, Permitted, Paused
<1>1. CASE BeforeSuite BY <1>1 DEF BeforeSuite
<1>2. CASE CheckThread BY <1>2 DEF CheckThread
<1>3. CASE MarkTestFinished
  <2>1. Types' BY <1>3 DEF MarkTestFinished
  <2>2. ShellInTest' BY <1>3 DEF MarkTestFinished
  <2>3. BusyIsNotIdle' BY <1>3 DEF MarkTestFinished
  <2>4. NoPermission' BY <1>3 DEF MarkTestFinished
  <2>5. LateRounds' BY <1>3 DEF MarkTestFinished
  <2>6. NoStaleRequest' BY <1>3 DEF MarkTestFinished
  <2>7. NoStaleAck' BY <1>3 DEF MarkTestFinished
  <2>8. AckMeansRest' BY <1>3 DEF MarkTestFinished
  <2> QED BY <2>1, <2>2, <2>3, <2>4, <2>5, <2>6, <2>7, <2>8
<1>4. CASE RemoveFiles
  <2>1. Types' BY <1>4 DEF RemoveFiles
  <2>2. ShellInTest' BY <1>4 DEF RemoveFiles
  <2>3. BusyIsNotIdle' BY <1>4 DEF RemoveFiles
  <2>4. NoPermission' BY <1>4 DEF RemoveFiles
  <2>5. LateRounds' BY <1>4 DEF RemoveFiles
  <2>6. NoStaleRequest' BY <1>4 DEF RemoveFiles
  <2>7. NoStaleAck' BY <1>4 DEF RemoveFiles
  <2>8. AckMeansRest' BY <1>4 DEF RemoveFiles
  <2> QED BY <2>1, <2>2, <2>3, <2>4, <2>5, <2>6, <2>7, <2>8
<1>5. CASE AwaitIdle
  <2>1. Types' BY <1>5 DEF AwaitIdle
  <2>2. ShellInTest' BY <1>5 DEF AwaitIdle
  <2>3. BusyIsNotIdle' BY <1>5 DEF AwaitIdle
  <2>4. NoPermission' BY <1>5 DEF AwaitIdle
  <2>5. LateRounds' BY <1>5 DEF AwaitIdle
  <2>6. NoStaleRequest' BY <1>5 DEF AwaitIdle
  <2>7. NoStaleAck' BY <1>5 DEF AwaitIdle
  <2>8. AckMeansRest' BY <1>5 DEF AwaitIdle
  <2> QED BY <2>1, <2>2, <2>3, <2>4, <2>5, <2>6, <2>7, <2>8
<1>6. CASE AwaitPrimaries BY <1>6 DEF AwaitPrimaries
<1>7. CASE Resume
  <2>1. Types' BY <1>7 DEF Resume
  <2>2. ShellInTest' BY <1>7 DEF Resume
  <2>3. BusyIsNotIdle' BY <1>7 DEF Resume
  <2>4. NoPermission' BY <1>7 DEF Resume
  <2>5. LateRounds' BY <1>7 DEF Resume
  <2>6. NoStaleRequest' BY <1>7 DEF Resume
  <2>7. NoStaleAck' BY <1>7 DEF Resume
  <2>8. AckMeansRest' BY <1>7 DEF Resume
  <2> QED BY <2>1, <2>2, <2>3, <2>4, <2>5, <2>6, <2>7, <2>8
<1>8. CASE TestEnds BY <1>8 DEF TestEnds
<1>9. CASE Stop \/ StopResume \/ Join
  <2>1. Types' BY <1>9 DEF Stop, StopResume, Join
  <2>2. ShellInTest' BY <1>9 DEF Stop, StopResume, Join
  <2>3. BusyIsNotIdle' BY <1>9 DEF Stop, StopResume, Join
  <2>4. NoPermission' BY <1>9 DEF Stop, StopResume, Join
  <2>5. LateRounds' BY <1>9 DEF Stop, StopResume, Join
  <2>6. NoStaleRequest' BY <1>9 DEF Stop, StopResume, Join
  <2>7. NoStaleAck' BY <1>9 DEF Stop, StopResume, Join
  <2>8. AckMeansRest' BY <1>9 DEF Stop, StopResume, Join
  <2> QED BY <2>1, <2>2, <2>3, <2>4, <2>5, <2>6, <2>7, <2>8
<1> QED BY <1>1, <1>2, <1>3, <1>4, <1>5, <1>6, <1>7, <1>8, <1>9 DEF Job

(* The invariant holds in every state.                                     *)
THEOREM Invariance == Spec => []IInv
<1>1. Init => IInv
  <2> SUFFICES ASSUME Init PROVE IInv OBVIOUS
  <2>1. Types BY DEF Init, Types
  <2>2. ShellInTest /\ BusyIsNotIdle /\ LateRounds BY DEF Init, ShellInTest, BusyIsNotIdle, LateRounds, Paused
  <2>3. NoPermission BY DEF Init, NoPermission, Permitted, Paused
  <2>4. NoStaleRequest /\ NoStaleAck BY DEF Init, NoStaleRequest, NoStaleAck
  <2>5. AckMeansRest BY DEF Init, AckMeansRest, AtRest
  <2> QED BY <2>1, <2>2, <2>3, <2>4, <2>5 DEF IInv
<1>2. IInv /\ UNCHANGED vars => IInv'
  BY DEF vars, flags, threadVars, shellVars, jobVars, IInv, Types, ShellInTest, BusyIsNotIdle,
         NoPermission, LateRounds, NoStaleRequest, NoStaleAck, AckMeansRest, AtRest, Permitted, Paused
<1>3. IInv /\ [Next]_vars => IInv'
  BY <1>2, ThreadPreserves, ShellPreserves, JobPreserves DEF Next
<1> QED BY <1>1, <1>3, PTL DEF Spec

(* At most one round of stepdowns escapes a pause.                         *)
THEOREM AtMostOneLateRoundHolds == Spec => []AtMostOneLateRound
<1>1. IInv => AtMostOneLateRound BY DEF IInv, Types, LateRounds, AtMostOneLateRound
<1> QED BY <1>1, Invariance, PTL

(* A workload that saw an acknowledgement is torn down without stepdowns,  *)
(* also when earlier shells crashed or gave up waiting for theirs.         *)
THEOREM AckedTeardownUndisturbedHolds == Spec => []AckedTeardownUndisturbed
<1>1. IInv => AckedTeardownUndisturbed
  BY DEF IInv, Types, ShellInTest, AckMeansRest, AtRest, AckedTeardownUndisturbed
<1> QED BY <1>1, Invariance, PTL

(* No stepdown disturbs the setup of a workload, if none before it ended   *)
(* without its acknowledgement.                                            *)
THEOREM SetupUndisturbedHolds == Spec => []SetupUndisturbed
<1>1. IInv => SetupUndisturbed
  BY DEF IInv, Types, ShellInTest, AckMeansRest, AtRest, SetupUndisturbed
<1> QED BY <1>1, Invariance, PTL
=============================================================================
