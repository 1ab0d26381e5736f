CONSTANTS
    Keys <- TwoKeys
    Workers <- TwoWorkers
    NoKey = NoKey
    MaxEdits = 1
    MaxFailures = 2
SPECIFICATION FairSpec
INVARIANTS
    TypeOK
    QueueConsistent
    OneWorkerPerKey
    NoLostWakeup
    StaleIsScheduled
PROPERTIES
    QueueImplemented
    EveryEditReconciled
    ShutdownTerminates
CHECK_DEADLOCK FALSE
