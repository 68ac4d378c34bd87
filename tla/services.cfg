SPECIFICATION ServicesSpec
CHECK_DEADLOCK FALSE
CONSTANTS
    k1 = k1
    k2 = k2
    k3 = k3
    j1 = j1
    j2 = j2
    c1 = c1
    c2 = c2
    Key <- MCKey
    MaxPuts = 3
    MaxRows = 1
    PutsPerPrune = 2
    Ttl = 1
    MaxTime = 2
    MaxErrors = 1
    MaxRestarts = 1
    Callers = {1, 2}
    DeepLKeys = 2
    Retries = 2
    PoolJobs = {j1, j2}
    PoolConfigs = {c1, c2}
    PoolHelpers = 2
    PoolCalls <- MCCalls
    PoolLimit = 2
    PoolFaults = 2
    PoolHangs = 1
    HostDpis = {1, 2}
    HostMessages = 5
    HostFaults = 1
INVARIANTS
    NothingClearedReturns
    TableFollowsFile
    EveryKeyAsked
    DialogsHold
    PoolServesCalls
PROPERTIES
    FlagsComeDown
    HookSettles
    SentencesComeOut
    CallsEnd
    PoolsSettle
    ClosingEnds
