SPECIFICATION Spec
CONSTANTS
    MaxConns = 2
    MaxCloses = 0
    PeerReads = TRUE
PROPERTIES
    WatcherClosesOwnConn
