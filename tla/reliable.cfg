SPECIFICATION BindingFairSpec
CONSTANTS
    Path = {p1}
    Tid <- MC_Tid
    Authenticated = {TRUE, FALSE}
    Datagram <- MC_Datagram
    InitialRto = 1
    HistoryDuration = 3
    RequestCount = 3
    Multiplier = 2
    MaxRto <- None
    ServerErrorTimeout <- None
    ServerErrorMax = 0
    AllowUnauthAlternate = TRUE
    MaxTime = 30
    LastCreate = 6
    MaxHandle = 2
    MaxEffects = 2
    Lateness = 0
    User = {joe}
    Password = {k1, k2}
    Me = joe
    Secret = k1
    Signed = {0, 1}
    Strange = {}
    Registered <- MC_Client
    Reliable = TRUE
    MaxDelay = 2
PROPERTIES EveryRequestServed
