\* Two jobs, two tests, two repetitions of the suite, two Ctrl-C.
CONSTANTS
    NumJobs = 2
    NumSuiteTests = 2
    NumRepeatTests = 1
    NumRepeatSuites = 2
    FailFast = FALSE
    NumHookTests = 0
    MaxInterrupts = 2
    TimeRepeatTestsSecs = 0
    NumRepeatTestsMin = 0
    NumRepeatTestsMax = 0
    MaxTestTime = 0
SPECIFICATION FairSpec
INVARIANTS
    TaskAccounting
    TeardownAtMostOnce
    TornDownAtEnd
    VerdictSound
    RunsOnLiveFixture
PROPERTIES
    Termination
CHECK_DEADLOCK FALSE
