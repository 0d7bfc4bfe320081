CONSTANTS
    WorkerChoices <- MC_WorkerChoices
    TaskCount <- MC_TaskCount
    MaxInterrupts <- MC_MaxInterrupts
    MaxFailures <- MC_MaxFailures
    CanFail <- MC_AllFailures
SPECIFICATION Spec
INVARIANT TypeOK
INVARIANT NoOversubscription
INVARIANT ResultAccounting
INVARIANT AwaitsOldestFirst
CHECK_DEADLOCK FALSE
