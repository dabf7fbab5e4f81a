SPECIFICATION Spec
CONSTANTS
    j1 = j1
    j2 = j2
    o1 = o1
    NoJob = NoJob
    Jobs = {j1, j2}
    Installed = {j1}
    Protected = {j2}
    Operators = {o1}
    Faults = {"crash", "save_lost", "save_unsynced", "read_error", "auth", "claim_lost", "cleanup_fails", "response_lost", "operator_race"}
    MaxRestarts = 1
CHECK_DEADLOCK FALSE
INVARIANTS
    TypeOK
    CleanupPersistedBeforeMutation
    HeartbeatReportsCleanup
    NeverRerun
    OneCompletionBody
    SettledLocallyMeansSettledRemotely
    NoMutationAfterPassedCleanup
PROPERTIES
    PendingBytesKept
