CONSTANTS
    WorkerChoices <- MC_WorkerChoices
    TaskCount <- MC_TaskCount
    MaxInterrupts <- MC_MaxInterrupts
    MaxFailures <- MC_MaxFailures
    CanFail <- MC_ComputeFailures
    EnterCanFail <- MC_EnterCanFail
SPECIFICATION LifeSpec
CHECK_DEADLOCK FALSE
PROPERTY LifecycleEnds
