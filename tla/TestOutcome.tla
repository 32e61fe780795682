----------------------------- MODULE TestOutcome -----------------------------
(***************************************************************************)
(* What Job._execute_test (testing/job.py) promises to the loop that calls *)
(* it: the outcomes an execution of one test may have.  Executor takes any *)
(* of them; TestExecution models the method itself and shows that it has   *)
(* no others.                                                              *)
(*   infos  how many results the execution adds to the job's report        *)
(*   bad    whether one of them is not a pass                              *)
(*   failed whether one of the test's own is not                           *)
(*   stop   whether it raises, which ends the job's loop                   *)
(*   ran    whether the test itself was run                                *)
(***************************************************************************)
EXTENDS Naturals

CONSTANT
    NumHookTests  \* bound: dynamic results the hooks of one test add

ASSUME OutcomeAssumption == NumHookTests \in Nat

ExecOutcome == [infos : Nat, bad : BOOLEAN, failed : BOOLEAN, stop : BOOLEAN, ran : BOOLEAN]

\* The results of the test itself when none of them is bad.
Own(o) == IF o.ran THEN 1 ELSE 0

\* failFast is options.fail_fast.  A result that the thread of a hook added may be bad
\* without an exception: it counts for the report, and the job goes on.
ExecOutcomes(failFast) ==
    {o \in [infos : 0 .. 2 + NumHookTests, bad : BOOLEAN, failed : BOOLEAN,
            stop : BOOLEAN, ran : BOOLEAN] :
        /\ o.ran \/ o.bad => o.infos >= 1
        /\ o.failed => o.bad
        \* Only a test that ran lets the job go on to the next one.
        /\ ~o.stop => o.ran
        /\ failFast /\ o.failed => o.stop
        \* A test has two results of its own only if a before_test hook failed it.
        /\ ~o.failed => o.infos <= NumHookTests + Own(o) /\ (o.bad => o.infos > Own(o))}
=============================================================================
