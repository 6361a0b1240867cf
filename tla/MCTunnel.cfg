SPECIFICATION Spec
CONSTANTS
    e1 = e1
    e2 = e2
    e3 = e3
    r1 = r1
    r2 = r2
    Entries <- ThreeEntries
    RouteOf <- TwoRoutes
    Systems = {"unix", "windows"}
    AddsMayFail = TRUE
    MaxTunnels = 2
SYMMETRY Symmetry
INVARIANTS
    TypeOK
    RoutesFollowTheUpdate
    DeviceAndRoutesAgree
\* A server need not push, nor the person reconnect.
CHECK_DEADLOCK FALSE
