SPECIFICATION Spec
CONSTANTS
    b1 = b1
    b2 = b2
    c1 = c1
    c2 = c2
    a1 = a1
    a2 = a2
    Balaghs <- MCBalaghs
    AddressNotices <- MCNotices
    Activities <- MCActivities
    TypesFiled <- MCTypes
    MaxFilings = 2
    MaxSnapshots = 2
    MaxHistory = 0
    Calls <- MCCalls
    NoCall = NoCall
    LastStep = 1
    MaxPresses = 2
    MaxQueue = 2
SYMMETRY MCSymmetry
INVARIANTS
    TypeOK
    OnePressOneBalagh
    ClearedIsFiled
