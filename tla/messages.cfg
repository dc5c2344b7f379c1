SPECIFICATION Spec
CONSTANTS
    Headers <- MC_Headers
    KnownAttrs <- MC_KnownAttrs
    UnknownAttrs <- MC_UnknownAttrs
    Passwords <- MC_Passwords
    Foreign <- MC_Foreign
    MaxAttrs = 2
    MaxEdits = 1
INVARIANTS RoundTrip IntegrityRecognised OnlySignedContent FingerprintGuards SlotsSuffice
CHECK_DEADLOCK FALSE
