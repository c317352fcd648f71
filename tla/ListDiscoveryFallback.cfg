SPECIFICATION Spec
CONSTANTS
    NoCount = NoCount
    None = None
    Bad = Bad
    Accounts <- MCAccounts
INVARIANTS
    FallsBackOnLinks
CHECK_DEADLOCK FALSE
