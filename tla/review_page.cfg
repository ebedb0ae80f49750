SPECIFICATION Spec
CONSTANTS
    bob = bob
    lau = lau
    short = short
    long = long
    Employees = {bob, lau}
    Approvers = {bob, lau}
    Partners = {lau}
    Payloads = {short}
    Unseen = Unseen
    NoSlot = NoSlot
    Slots = {1, 2}
    MaxActions = 2
    MaxRequests = 1
    MaxSeeds = 1
    MaxEvents = 3
    Others = {bob}
INVARIANTS DecidesWhatWasShown PageTellsTruth NoUnauditedView
CHECK_DEADLOCK FALSE
