\* The program's retries and timeout: three tries, thirty seconds in units of
\* half a second.
SPECIFICATION FairSpec
CONSTANTS
    agent = agent  mini = mini
    Models = {agent, mini}
    NoModel = NoModel
    MaxRetries = 2
    Timeout = 60
INVARIANTS NoModelIsPassedOver EvidenceIsAudited WaitIsBounded
PROPERTY Termination
\* the call ends
CHECK_DEADLOCK FALSE
