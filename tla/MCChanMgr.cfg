\* Two callers, fairly polled, and a manager whose parameters change twice.
SPECIFICATION FairSpec
CONSTANTS
    t1 = t1
    t2 = t2
    t3 = t3
    e1 = e1
    r1 = r1
    e2 = e2
    Tasks = {t1, t2}
    Relays <- MCRelays
    Targets <- MCTargets
    Paddings = {"default", "reduced"}
    Kists = {"disabled"}
    DefaultPadding = "default"
    DefaultKist = "disabled"
    MaxReconf = 2
INVARIANTS
    TypeOK
    PendingOwned
    RemovedBeforeReady
    OneBuildPerTarget
    ReturnedMatches
    ConflictIsDefinite
    CancelledOnlyIfLost
    PaddingCurrent
PROPERTIES
    EveryRequestAnswered
