SPECIFICATION Spec
CONSTANTS
    MaxDocs = 5
INVARIANTS
    TypeOK
    HookedCaptures
    TimeoutIsLastResort
PROPERTIES
    EndsWithContext
\* One flow is followed to its return.
CHECK_DEADLOCK FALSE
