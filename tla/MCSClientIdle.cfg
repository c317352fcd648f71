SPECIFICATION Spec
CONSTANTS
    MaxConns = 1
    MaxCloses = 0
    PeerReads = TRUE
PROPERTIES
    IdleTimeoutPings
