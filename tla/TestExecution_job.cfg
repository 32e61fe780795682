\* Two hooks, the second with a thread, and three tests; fail_fast or not.
CONSTANTS
    NumHookTests = 6
    NumHooks = 2
    Background = {2}
    CheckFixture = TRUE
    MaxTests = 3
SPECIFICATION Spec
INVARIANTS
    OutcomePromised
    PassMeansChecked
    FailureArchived
CHECK_DEADLOCK FALSE
