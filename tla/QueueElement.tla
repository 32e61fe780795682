---------------------------- MODULE QueueElement ----------------------------
(***************************************************************************)
(* The elements of resmoke's test queue (testing/queue_element.py).  An    *)
(* element stands for one test of the suite and, when the suite repeats    *)
(* its tests for a length of time, decides after every execution whether   *)
(* the test goes back to the queue.                                        *)
(***************************************************************************)
EXTENDS Naturals

CONSTANTS
    TimeRepeatTestsSecs,  \* suite_options.time_repeat_tests_secs, 0 when unset
    NumRepeatTestsMin,    \* suite_options.num_repeat_tests_min, 0 when unset
    NumRepeatTestsMax,    \* suite_options.num_repeat_tests_max, 0 when unset
    MaxTestTime           \* bound: the longest time one execution takes

ASSUME RepeatAssumption ==
    /\ TimeRepeatTestsSecs \in Nat
    /\ NumRepeatTestsMin \in Nat
    /\ NumRepeatTestsMax \in Nat
    /\ MaxTestTime \in Nat
    \* parser.py's _validate_config refuses the other combinations.
    /\ NumRepeatTestsMax > 0 => NumRepeatTestsMin <= NumRepeatTestsMax

\* queue_elem_factory: a QueueElemRepeatTime when a time is set.
IsRepeatTime == TimeRepeatTestsSecs > 0

\* repeat_num counts the executions also for a plain QueueElem, whose
\* job_completed does nothing: there it only records history.
QueueElem == [repeat_num : Nat, repeat_time_elapsed : Nat]

NewQueueElem == [repeat_num |-> 0, repeat_time_elapsed |-> 0]

JobCompleted(elem, job_time) ==
    [repeat_num |-> elem.repeat_num + 1,
     repeat_time_elapsed |-> elem.repeat_time_elapsed + job_time]

StillNeedMinimumRuns(elem) ==
    NumRepeatTestsMin > 0 /\ elem.repeat_num < NumRepeatTestsMin

\* Slip: off by one.
HaveMaxRunsExceeded(elem) ==
    NumRepeatTestsMax > 0 /\ elem.repeat_num > NumRepeatTestsMax

HaveMaxRunsBeenSatisfied(elem) ==
    NumRepeatTestsMax > 0 /\ elem.repeat_num >= NumRepeatTestsMax

HasMinRuntimeBeenSatisfied(elem) ==
    elem.repeat_time_elapsed >= TimeRepeatTestsSecs

ShouldRequeue(elem) ==
    /\ IsRepeatTime
    /\ \/ StillNeedMinimumRuns(elem)
       \/ /\ ~HaveMaxRunsBeenSatisfied(elem)
          /\ ~HasMinRuntimeBeenSatisfied(elem)
=============================================================================
