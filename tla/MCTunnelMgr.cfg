\* Two requests whose isolations may differ and which need different things of a path,
\* and a tunnel built to learn timeouts that could serve either.
SPECIFICATION Spec
CONSTANTS
    r1 = r1
    r2 = r2
    l1 = l1
    Requests = {r1, r2}
    Tests = {l1}
    Usages <- Isolated
    Groups = {"a", "b"}
    Needs = {"port"}
    Circs = 1
    BuildErrors = {}
    MaxTries = 1
    DirParallelism = 1
    MAX_RESETS = 1
    MaxReconf = 0
SYMMETRY Symmetry
INVARIANTS
    TypeOK
    IsolationRespected
    TentativeSuitsWaiters
    AnswerSuits
PROPERTIES
    LostMeansTaken
