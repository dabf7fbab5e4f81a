SPECIFICATION Spec
CONSTANTS
    j1 = j1
    j2 = j2
    o1 = o1
    NoJob = NoJob
    Jobs = {j1, j2}
    Installed = {j1}
    Protected = {}
    Operators = {o1}
    Faults = {"save_unsynced"}
    MaxRestarts = 0
CHECK_DEADLOCK FALSE
INVARIANTS
    ResultExcludesWorkerError
