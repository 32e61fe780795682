\* Three tests, so that a thread that wakes up late meets the next test case;
\* after_test may be skipped because another hook failed.
CONSTANTS
    NumTests = 3
    MaySkip = TRUE
SPECIFICATION FairSpec
INVARIANTS
    NoScriptAfterTest
PROPERTY
    Termination
CHECK_DEADLOCK FALSE
