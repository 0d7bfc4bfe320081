CONSTANTS
    MaxArgs <- MC_MaxArgs
    Spellings <- MC_Spelled
    RequiredFlags <- MC_Required
SPECIFICATION Spec
CHECK_DEADLOCK FALSE
INVARIANT ExitOnlyForChosenBackend
