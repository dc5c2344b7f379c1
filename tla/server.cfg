SPECIFICATION Spec
SYMMETRY MC_Symmetry
CONSTANTS
    User = {joe, ann}
    Password = {k1, k2, k3}
    Tid = {t1}
    Request <- MC_Requests
    use_fingerprint = TRUE
    Absent = Absent
INVARIANTS SuccessDeserved
PROPERTIES AcceptedStaysAccepted
