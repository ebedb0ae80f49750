\* Two checks beside two requests, with a grace period that a request of two
\* answers may outlast and a request of one may not.
SPECIFICATION Spec
CONSTANTS
    r1 = r1  r2 = r2  a1 = a1  a2 = a2  a3 = a3  k1 = k1  k2 = k2
    Requests = {r1, r2}
    Actions = {a1, a2, a3}
    RequestOf <- TwoAndOne
    Checkers = {k1, k2}
    Grace = 1
    CallTime = 1
    MaxCalls = 2
    NoTime = NoTime
    MaxClock = 5
SYMMETRY CheckSymmetry
INVARIANTS FlaggedOnce NoOrphanIsMissed OnlyDeadOrSlowAreFlagged
\* the clock stops, and every request and check ends
CHECK_DEADLOCK FALSE
