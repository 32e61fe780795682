\* Tests repeated for a time, at most twice each, in two repetitions of the suite,
\* with fail_fast; two jobs, two tests, one Ctrl-C.
CONSTANTS
    NumJobs = 2
    NumSuiteTests = 2
    NumRepeatTests = 1
    NumRepeatSuites = 2
    FailFast = TRUE
    NumHookTests = 0
    MaxInterrupts = 1
    TimeRepeatTestsSecs = 1
    NumRepeatTestsMin = 1
    NumRepeatTestsMax = 2
    MaxTestTime = 1
SPECIFICATION Spec
INVARIANTS
    ElementOwnedOnce
    CompleteUnlessInterrupted
    RunsBounded
CHECK_DEADLOCK FALSE
