SPECIFICATION Spec
SYMMETRY MC_Symmetry
CONSTANTS
    Path = {p1}
    Tid = {t1, t2}
    Authenticated = {TRUE}
    Datagram <- MC_TimerDatagrams
    InitialRto = 1
    HistoryDuration = 3
    RequestCount = 2
    Multiplier = 2
    MaxRto <- None
    ServerErrorTimeout = 2
    ServerErrorMax = 1
    AllowUnauthAlternate = FALSE
    MaxTime = 5
    LastCreate = 5
    MaxHandle = 2
    MaxEffects = 2
    Lateness = 5
INVARIANTS TypeOK IndexConsistent LiveOrEnded NeverStranded OneTimer RetransmitsBounded NoEarlyTimeout
PROPERTIES KarnSound QuietAfterOutcome
