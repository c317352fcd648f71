SPECIFICATION Spec
CONSTANTS
    MaxConns = 2
    MaxCloses = 1
    PeerReads = TRUE
INVARIANTS
    NoSocketLeak
    VersionByteOnce
PROPERTIES
    CancelEndsRun
    CloseEndsSession
    NoWatcherLeak
    CancelledConnCloses
