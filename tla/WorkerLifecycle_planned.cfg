SPECIFICATION FairSpec
CHECK_DEADLOCK FALSE
INVARIANTS
    TypeOK
    DrainedIsQuiescent
    OneJobCrossesDrain
    ReadyMeansPolling
PROPERTIES
    DrainCompletes
    UndrainedShutdownCompletes
