\* One stream with a message each way.
SPECIFICATION Spec
CONSTANTS
    MaxId = 2
    QueueLimit = 2
    MaxStreams = 2
    LinkRoom <- MCLinkRoom
    MaxBegins = 1
    MaxData = 1
INVARIANTS
    NoProtocolViolation
CHECK_DEADLOCK FALSE
