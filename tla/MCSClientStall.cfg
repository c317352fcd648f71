SPECIFICATION Spec
CONSTANTS
    MaxConns = 1
    MaxCloses = 0
    PeerReads = FALSE
PROPERTIES
    CancelEndsRun
