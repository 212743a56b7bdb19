\* KIST parameters set from the consensus before a channel is opened.
SPECIFICATION Spec
CONSTANTS
    t1 = t1
    t2 = t2
    t3 = t3
    e1 = e1
    r1 = r1
    e2 = e2
    Tasks = {t1, t2}
    Relays <- MCRelays
    Targets <- MCTargets
    Paddings = {"default"}
    Kists = {"disabled", "notsent_lowat"}
    DefaultPadding = "default"
    DefaultKist = "disabled"
    MaxReconf = 1
INVARIANTS
    KistCurrent
