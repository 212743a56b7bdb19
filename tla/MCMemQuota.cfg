\* Two queues of two accounts, one the child of the other, with everything that
\* may happen to them while the quota is exceeded and then lowered.  When all
\* accounts and queues are gone nothing is left to do.
SPECIFICATION Spec
CONSTANTS
    a1 = a1
    a2 = a2
    q1 = q1
    q2 = q2
    None = None
    Accounts = {a1, a2}
    Parent <- MCParent
    Queues = {q1, q2}
    Home <- MCHome
    Cost <- MCCost
    MaxCache = 4
    Configs <- MCConfigs
    InitConfig <- Loose
    MaxHandles = 2
    MaxSending = 1
    MaxItems = 1
INVARIANTS
    TypeOK
    UsedIsExact
    TotalIsSum
    HandlesCounted
    NeverSleepsOverQuota
CHECK_DEADLOCK FALSE
