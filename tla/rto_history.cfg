SPECIFICATION HistorySpec
CONSTANTS
    Path = {p1, p2, p3}
    InitialRto = 2
    HistoryDuration = 1
    Rtt = {1, 3}
    Timeout = {4}
    MaxTime = 4
SYMMETRY MC_Symmetry
INVARIANTS HistoryLinked HistorySorted RtoPositive
PROPERTY KnownUpdateClears
