\* A tunnel that a use may make long-lived, and two requests that keep coming: it is
\* used before, at and after the times at which its task wakes and the sweeps ask.
SPECIFICATION BusySpec
CONSTANTS
    t1 = t1
    s1 = s1
    s2 = s2
    Tunnels = {t1}
    LongLivedSpecs = {t1}
    UnusedAfter = {1, 2}
    DirtyAfter = 2
    DisusedAfter = 2
    Sweeps = {s1, s2}
    MaxStreams = 1
    LastUse = 2
    MaxTime = 4
INVARIANT TypeOK
INVARIANT ExpiredWasDue
INVARIANT AskedIsLongLived
PROPERTY ExpiresInTime
CHECK_DEADLOCK FALSE
