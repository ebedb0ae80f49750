\* Two calls and two decisions race: leave of one and two days, a ticket, and
\* one that is refused on its text; only one employee has a balance.
SPECIFICATION Spec
CONSTANTS
    c1 = c1  c2 = c2  d1 = d1  d2 = d2
    ann = ann  bob = bob
    short = short  long = long  vpn = vpn  junk = junk
    Calls = {c1, c2}
    Deciders = {d1, d2}
    NoAction = NoAction
    Employees = {ann, bob}
    Approvers = {bob}
    NoOne = NoOne
    Years = {2026}
    Leaves = {short, long}
    Tickets = {vpn, junk}
    MaxDays = 2
    Days <- MCDays
    YearOf <- MCYearOf
    Unacceptable = {junk}
    Recorded <- OneRecorded
    Limits = {2}
    Corrections = {1}
SYMMETRY Symmetry
INVARIANTS ReservedWithinLimit OneOpenProposal SeparationOfDuties BookedMatchesExecuted AuditTellsTheStory
PROPERTY GateSpec
\* every call and decision ends: the system may stop
CHECK_DEADLOCK FALSE
