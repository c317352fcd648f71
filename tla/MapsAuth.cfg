SPECIFICATION Spec
CONSTANTS
    MaxCookies = 4
INVARIANTS
    TypeOK
    ExactDomainWins
PROPERTIES
    EndsWithContext
\* One call is followed to its return.
CHECK_DEADLOCK FALSE
