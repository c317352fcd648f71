SPECIFICATION Spec
CONSTANTS
    NoCount = NoCount
    None = None
    Bad = Bad
    Accounts <- MCAccounts
INVARIANTS
    SpecsAreLists
    AllListsFound
PROPERTIES
    EndsWithContext
CHECK_DEADLOCK FALSE
