SPECIFICATION FairSpec
CONSTANTS
    Builds <- MCBuilds
    Baseline <- MCBaseline
    Candidates <- MCCandidates
    VersionsOmitted = FALSE
    Containers = {c1, c2}
    Timeout = 2
    PollInterval = 1
    RequiredSamples = 2
    ReadTimeout = 1
    AttemptCap = 10
    MaxHistory = 2
CHECK_DEADLOCK FALSE
INVARIANTS
    TypeOK
    PassIsEarned
    BlameIsEarned
    UnstableWasFullyObserved
    BypassIsReported
    WaitMatchesEvidence
    UnstableAfterFullWait
    WaitIsBounded
PROPERTIES
    StopsAtNextBoundary
    RunEnds
