\* Three archives of one test; either limit can be the first to be reached.
CONSTANTS
    Names = {"t1"}
    CallsPerName = 3
    LimitSizeMb = 3
    LimitFiles = 2
    MaxSizeMb = 3
    WriterMayFail = TRUE
SPECIFICATION FairSpec
INVARIANTS
    LimitsKept
    ListedIsUploaded
    CompleteAfterExit
PROPERTY
    EventuallyTried
CHECK_DEADLOCK FALSE
