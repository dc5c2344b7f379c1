SPECIFICATION BindingSpec
CONSTANTS
    Path = {p1}
    Tid <- MC_Tid
    Authenticated = {TRUE, FALSE}
    Datagram <- MC_Datagram
    InitialRto = 1
    HistoryDuration = 3
    RequestCount = 2
    Multiplier = 1
    MaxRto <- None
    ServerErrorTimeout <- None
    ServerErrorMax = 0
    AllowUnauthAlternate = TRUE
    MaxTime = 3
    LastCreate = 1
    MaxHandle = 4
    MaxEffects = 2
    Lateness = 3
    User = {joe}
    Password = {k1, k2}
    Me = joe
    Secret = k1
    Signed = {0, 1}
    Strange = {1, 2}
    Registered <- MC_Nobody
    Reliable = FALSE
    MaxDelay = 0
INVARIANTS OutcomesTruthful
