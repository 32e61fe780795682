CONSTANTS
    maxOpsInTransaction = 2
    kMaxNumRetries = 1
    MaxCommands = 3
    MaxFaults = 2
SPECIFICATION FairSpec
INVARIANTS
    AssertionsHold
PROPERTIES
    KeepsSession
    CommandsReturn
CHECK_DEADLOCK FALSE
