\* One request, every course the model and the tools can give it.
SPECIFICATION FairSpec
CONSTANTS
    k1 = k1  stray = stray  garbled = garbled  a1 = a1  a2 = a2
    MaxToolCalls = 3
    Ids = {k1, stray, garbled}
    Corpus = {k1}
    Citable = {k1, stray}
    Actions = {a1, a2}
    Earlier = {a2}
    NoAction = NoAction
    ToolCalls <- MCToolCalls
    NoRecord = NoRecord
INVARIANTS ToolLimitHolds CitationsAreFound OutcomeTellsOfProposals StepsBounded
PROPERTIES EscalationEndsWork LifeSpec Termination
\* the request ends
CHECK_DEADLOCK FALSE
