CONSTANTS
    WorkerChoices <- MC_WorkerChoices
    TaskCount <- MC_TaskCount
    MaxInterrupts <- MC_MaxInterrupts
    MaxFailures <- MC_MaxFailures
    CanFail <- MC_AllFailures
    EnterCanFail <- MC_EnterCanFail
SPECIFICATION LifeSpec
CHECK_DEADLOCK FALSE
INVARIANT NoLeak
