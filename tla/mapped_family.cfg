SPECIFICATION Spec
CONSTANTS
    Headers <- MC_Headers
    KnownAttrs <- MC_KnownAttrs
    UnknownAttrs <- MC_UnknownAttrs
    Passwords <- MC_Passwords
    Foreign <- MC_Foreign
    MaxAttrs = 1
    MaxEdits = 1
INVARIANT MappedFamily
CHECK_DEADLOCK FALSE
