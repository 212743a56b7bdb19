\* Two streams with at most one message each way.  No id is used twice.
SPECIFICATION SpecFromOne
CONSTANTS
    MaxId = 2
    QueueLimit = 2
    MaxStreams = 2
    LinkRoom <- MCLinkRoom
    MaxBegins = 2
    MaxData = 1
INVARIANTS
    TypeOK
    PeerIsUnderstood
    EndMeansAll
    NoHalfOpenStream
PROPERTY
    StreamsReliable
CHECK_DEADLOCK FALSE
