CONSTANTS
    WorkerChoices <- MC_WorkerChoices
    TaskCount <- MC_TaskCount
    MaxInterrupts <- MC_NoInterrupts
    MaxFailures <- MC_MaxFailures
    CanFail <- MC_ComputeFailures
    EnterCanFail <- MC_EnterNeverFails
SPECIFICATION LifeSpec
CHECK_DEADLOCK FALSE
INVARIANT StoreOutlivesTasks
