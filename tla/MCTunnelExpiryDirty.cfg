\* An ordinary tunnel, its task and no request that sweeps the list.
SPECIFICATION FairSpec
CONSTANTS
    t1 = t1
    s1 = s1
    s2 = s2
    Tunnels = {t1}
    LongLivedSpecs = {}
    UnusedAfter = {2}
    DirtyAfter = 2
    DisusedAfter = 1
    Sweeps = {}
    MaxStreams = 0
    LastUse = 2
    MaxTime = 5
PROPERTY DirtyExpires
CHECK_DEADLOCK FALSE
