\* Two legs and three messages: the client can switch to the second leg and back.
SPECIFICATION FairSpec
CONSTANTS
    Legs = {a, b}
    First = a
    Msgs = {m1, m2}
    CwndInit = 1
    MaxMsgs = 3
INVARIANTS
    TypeOK
    PrimaryIsAhead
    NumbersAgree
    NoDisorder
    BufferedLegStays
    ReadyMeansUsable
PROPERTIES
    InOrder
    LinkAnswered
    AllDelivered
CHECK_DEADLOCK FALSE
