SPECIFICATION Spec
CONSTANTS
    NSessions = 3
    Runs <- McRuns
    Losses <- McLosses
INVARIANTS
    FailureReverted
