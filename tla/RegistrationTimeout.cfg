SPECIFICATION Spec
CONSTANTS
    Attempts = 2
    MaxCalls = 1
INVARIANTS
    TimeoutRetried
\* The program stops when the last call has ended.
CHECK_DEADLOCK FALSE
