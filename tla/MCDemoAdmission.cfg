\* Five requests from one address and one from another: enough to fill two
\* adjacent windows of quota two and to race three bodies past a limit of two.
SPECIFICATION Spec
CONSTANTS
    r1 = r1
    r2 = r2
    r3 = r3
    r4 = r4
    r5 = r5
    r6 = r6
    ip1 = ip1
    ip2 = ip2
    Requests <- MCRequests
    Ips = {ip1, ip2}
    ClientIp <- MCClientIp
    MaxConcurrent = 2
    RateMax = 2
    Window = 1
    MaxTime = 3
SYMMETRY Symmetry
INVARIANTS
    ExcessOnlyFromRaces
    WindowCountExact
    SlidingRate
\* every request is answered once and every job ends, then the system stops
CHECK_DEADLOCK FALSE
