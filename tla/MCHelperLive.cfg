SPECIFICATION FairSpec
CONSTANTS
    Conns = {c1, c2}
    Servers = {s1}
    Keys = {k1, k2}
    Bearers = {b1}
    None = None
    MaxGen = 7
    MaxLosses = 1
PROPERTIES
    RequestsEnd
    DeadLoopsEnd
    LostPeerIsNoticed
\* An idle helper with no request left to answer stops.
CHECK_DEADLOCK FALSE
