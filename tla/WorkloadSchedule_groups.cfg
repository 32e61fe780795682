\* All lists of up to five workloads, groups of up to six, and up to eight groups,
\* where the default is at most seven.
CONSTANTS
    MaxWorkloads = 5
    MaxSubsetSize = 6
    MaxNumSubsets = 8
SPECIFICATION Spec
INVARIANTS
    GroupsFull
    GapBounded
    AllScheduled
CHECK_DEADLOCK FALSE
