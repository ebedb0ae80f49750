SPECIFICATION FairSpec
CONSTANTS
    submit_leave_request = submit_leave_request
    get_leave_balance = get_leave_balance
    Writes = {submit_leave_request}
    Reads = {get_leave_balance}
    Scenarios = 2
    Requests = {1, 2}
    PoolSize = 2
    MaxSeeds = 1
    MaxVersions = 2
INVARIANTS RecordCheckIsFair UndisturbedHeaderIsExact
PROPERTY EveryRequestEnds
\* the run ends
CHECK_DEADLOCK FALSE
