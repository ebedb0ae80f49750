\* The defaults of the program: ten minutes of grace, three minutes for one
\* answer, nine answers after the first write.
SPECIFICATION Spec
CONSTANTS
    r1 = r1  r2 = r2  a1 = a1  a2 = a2  a3 = a3  k1 = k1  k2 = k2
    Requests = {r1}
    Actions = {a1}
    RequestOf <- Alone
    Checkers = {k1}
    Grace = 10
    CallTime = 3
    MaxCalls = 9
    NoTime = NoTime
    MaxClock = 30
INVARIANT RunningIsNeverFlagged
\* the clock stops, and every request and check ends
CHECK_DEADLOCK FALSE
