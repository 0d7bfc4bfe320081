CONSTANTS
    WorkerChoices <- MC_WorkerChoices
    TaskCount <- MC_TaskCount
    MaxInterrupts <- MC_MaxInterrupts
    MaxFailures <- MC_MaxFailures
    CanFail <- MC_ComputeFailures
SPECIFICATION Spec
CHECK_DEADLOCK FALSE
INVARIANT GeneratorNotOrphaned
