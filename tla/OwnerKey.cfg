SPECIFICATION Spec
CONSTANTS
    Callers = {c1, c2}
    Accounts = {a1, a2}
    None = None
    Absent = Absent
INVARIANTS
    MapsCookiesKept
    CachedKeyFits
