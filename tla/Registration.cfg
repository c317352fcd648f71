SPECIFICATION Spec
CONSTANTS
    Attempts = 3
    MaxCalls = 1
INVARIANTS
    CredentialsUsable
    RetriesRepeat
    RetryBudget
PROPERTIES
    CallEnds
    CancelEndsCall
\* The program stops when the last call has ended.
CHECK_DEADLOCK FALSE
