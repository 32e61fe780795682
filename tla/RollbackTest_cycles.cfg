CONSTANTS
    MaxWrites = 2
    MaxRollbacks = 2
    MaxRestarts = 1
SPECIFICATION FairSpec
INVARIANTS
    ChecksHold
PROPERTIES
    RollsBackExactly
    TransitionsReturn
CHECK_DEADLOCK FALSE
