SPECIFICATION Spec
CONSTANTS
    Threads = {t1, t2}
    Docs = {d1, d2, d3}
    iterations = 3
    numReads = 2
    MaxRestarts = 1
    MaxNetworkErrors = 1
SYMMETRY Symmetry
INVARIANTS
    NoFalseAlarm
    PassMeansIsolated
    FindCycleExact
CHECK_DEADLOCK FALSE
