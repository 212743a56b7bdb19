\* The same instance: the task visits a queue whose receiver is returning its cache.
SPECIFICATION Spec
CONSTANTS
    a1 = a1
    a2 = a2
    q1 = q1
    q2 = q2
    None = None
    Accounts = {a1, a2}
    Parent <- MCParent
    Queues = {q1, q2}
    Home <- MCHome
    Cost <- MCCost
    MaxCache = 4
    Configs <- MCConfigs
    InitConfig <- Loose
    MaxHandles = 2
    MaxSending = 1
    MaxItems = 1
INVARIANT
    GetOldestReturns
CHECK_DEADLOCK FALSE
