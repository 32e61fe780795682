\* Three tests, flags or files; servers may fail, and so may workloads.
CONSTANTS
    NumTests = 3
    MayRaise = TRUE
    ShellMayFail = TRUE
SPECIFICATION FairSpec
INVARIANTS
    AtMostOneLateRound
    AckedTeardownUndisturbed
    SetupUndisturbed
PROPERTY
    Termination
CHECK_DEADLOCK FALSE
