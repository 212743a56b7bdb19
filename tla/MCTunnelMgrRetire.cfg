\* One request that retries, alone or two tunnels at a time, a tunnel built to learn
\* timeouts, and a change of the configuration.
SPECIFICATION Spec
CONSTANTS
    r1 = r1
    r2 = r2
    l1 = l1
    Requests = {r1}
    Tests = {l1}
    Usages <- Launching
    Groups = {"a", "b"}
    Needs = {}
    Circs = 1
    BuildErrors = {"Channel", "PendingCanceled"}
    MaxTries = 2
    DirParallelism = 2
    MAX_RESETS = 1
    MaxReconf = 1
INVARIANTS
    FreshRequestTunnels
    TriesBounded
