\* Three workloads scaled down to five threads, of which one may fail; <<1, 1, 8>>
\* is a request that does not fit.
CONSTANTS
    NumWorkloads = 3
    MaxRequested = 8
    MaxAllowed = 5
    StartMayThrow = TRUE
SPECIFICATION FairSpec
INVARIANTS
    StartTogether
    NoWorkerDuringTeardown
    FailuresReported
    SuccessMeansRan
PROPERTIES
    Termination
    ScalingFits
CHECK_DEADLOCK FALSE
