\* Two calls of one employee and two approvals that fit on one account together:
\* both approvers may hold an action row while they wait for its balance row.
\* The correction lowers the balance below what was proposed.
SPECIFICATION ContendingSpec
CONSTANTS
    c1 = c1  c2 = c2  d1 = d1  d2 = d2
    ann = ann  bob = bob
    short = short  long = long  vpn = vpn  junk = junk
    Calls = {c1, c2}
    Deciders = {d1, d2}
    NoAction = NoAction
    Employees = {ann, bob}
    Approvers = {bob}
    NoOne = NoOne
    Years = {2026}
    Leaves = {short, long}
    Tickets = {}
    MaxDays = 2
    Days <- MCDays
    YearOf <- MCYearOf
    Unacceptable = {}
    Recorded <- OneRecorded
    Limits = {3}
    Corrections = {2}
PROPERTIES BookingFits EveryCallAnswers EveryDecisionAnswers
\* every call and decision ends: the system may stop
CHECK_DEADLOCK FALSE
