SPECIFICATION Spec
CONSTANTS
    MutationAttempts = 3
    CleanupTimeout = 5
    RemovalPoll = 2
    RemovalCap = 10
    MaxRestarts = 0
CHECK_DEADLOCK FALSE
INVARIANTS
    CleanStaysClean
