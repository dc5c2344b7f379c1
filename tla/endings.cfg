SPECIFICATION FairSpec
CONSTANTS
    Path = {p1}
    Tid = {t1}
    Authenticated = {TRUE, FALSE}
    Datagram <- MC_UnsignedDatagrams
    InitialRto = 1
    HistoryDuration = 3
    RequestCount = 2
    Multiplier = 2
    MaxRto = 3
    ServerErrorTimeout = 2
    ServerErrorMax = 1
    AllowUnauthAlternate = TRUE
    MaxTime = 20
    LastCreate = 0
    MaxHandle = 1
    MaxEffects = 2
    Lateness = 2
INVARIANTS UnsignedNeverAccepted
PROPERTIES ImplementsTransactions
