SPECIFICATION ExampleSpec
CONSTANTS
    Path = {p1}
    Tid <- MC_Tid
    Authenticated = {FALSE}
    Datagram <- MC_Datagrams
    InitialRto = 1
    HistoryDuration = 3
    RequestCount = 2
    Multiplier = 1
    MaxRto <- None
    ServerErrorTimeout <- None
    ServerErrorMax = 0
    AllowUnauthAlternate = FALSE
    MaxTime = 40
    LastCreate = 2
    MaxHandle = 2
    MaxEffects = 9
    Lateness = 40
    Calls = 2
    Ms = 2
    AlarmLate = 1
INVARIANTS NoOrphan MessageDelivered
PROPERTIES EveryCallReturns ImplementsTransactions
CHECK_DEADLOCK FALSE
