CONSTANTS
    MaxArgs <- MC_MaxArgs
    Spellings <- MC_Abbreviated
    RequiredFlags <- MC_Required
SPECIFICATION Spec
INVARIANT ConnectorArgsPresent
CHECK_DEADLOCK FALSE
