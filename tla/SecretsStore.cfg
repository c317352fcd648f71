SPECIFICATION Spec
CONSTANTS
    t1 = t1
    t2 = t2
    i1 = i1
    i2 = i2
    i3 = i3
    i4 = i4
    Threads <- MCThreads
    Stores <- MCStores
    StoreOf <- OneStore
    Inodes <- MCInodes
    None = None
    Absent = Absent
    Torn = Torn
SYMMETRY FileSymmetry
INVARIANTS
    NeverTorn
    ReturnedSurvivesCrash
PROPERTIES
    StoreIsRegister
