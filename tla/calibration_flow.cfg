SPECIFICATION Spec
CONSTANTS
    NSessions = 3
    Runs <- McRuns
    Losses <- McLosses
INVARIANTS
    AtcPassed
    PassedAgree
    EarlyFailClean
    CapturesInMode
PROPERTIES
    AtcKept
