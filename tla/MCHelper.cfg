SPECIFICATION Spec
CONSTANTS
    Conns = {c1, c2, c3}
    Servers = {s1}
    Keys = {k1, k2}
    Bearers = {b1}
    None = None
    MaxGen = 5
    MaxLosses = 1
SYMMETRY Symmetry
INVARIANTS
    TypeOK
    OneTunnel
    LiveSessionIsRenewed
    NothingLeftBehind
PROPERTIES
    ComesUpForAConnect
    RenewalsActOnTheirOwn
    DownIsExplained
    ImplementsConnection
\* An idle helper with no request left to answer stops.
CHECK_DEADLOCK FALSE
