SPECIFICATION Spec
CONSTANTS
    c1 = c1
    c2 = c2
    None = None
    Expired = Expired
    Callers = {c1, c2}
INVARIANTS
    SteadyIndexFound
    LastSuccessPreferred
PROPERTIES
    CallsEnd
