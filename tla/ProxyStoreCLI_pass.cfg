CONSTANTS
    MaxArgs <- MC_MaxArgs
    Spellings <- MC_Spelled
    RequiredFlags <- MC_Required
SPECIFICATION Spec
INVARIANT ConnectorArgsPresent
CHECK_DEADLOCK FALSE
