\* Two requests that may wait for the same tunnel, and every way to fail.
SPECIFICATION FairSpec
CONSTANTS
    r1 = r1
    r2 = r2
    l1 = l1
    Requests = {r1, r2}
    Tests = {}
    Usages <- Alike
    Groups = {"a", "b"}
    Needs = {}
    Circs = 1
    BuildErrors = {"Channel", "GuardNotUsable", "Bug", "PendingCanceled"}
    MaxTries = 1
    DirParallelism = 1
    MAX_RESETS = 1
    MaxReconf = 1
PROPERTIES
    EveryRequestAnswered
