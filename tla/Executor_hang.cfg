\* Tests repeated for a time: a requeue races the drain.
CONSTANTS
    NumJobs = 2
    NumSuiteTests = 2
    NumRepeatTests = 1
    NumRepeatSuites = 1
    FailFast = FALSE
    NumHookTests = 0
    MaxInterrupts = 0
    TimeRepeatTestsSecs = 1
    NumRepeatTestsMin = 1
    NumRepeatTestsMax = 2
    MaxTestTime = 1
SPECIFICATION Spec
INVARIANT DrainUnblocksMain
CHECK_DEADLOCK FALSE
