SPECIFICATION FairSpec
CONSTANTS
    MutationAttempts = 3
    CleanupTimeout = 5
    RemovalPoll = 2
    RemovalCap = 10
    MaxRestarts = 2
CHECK_DEADLOCK FALSE
INVARIANTS
    TypeOK
    UpgradeStartsFromBaseline
PROPERTIES
    SuccessIsObserved
    PassedWasVerified
    RemovalAwaited
    CleanupEnds
