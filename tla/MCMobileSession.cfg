\* Liveness is checked in this run: no symmetry.
SPECIFICATION Spec
CONSTANTS
    c1 = c1
    c2 = c2
    Calls <- MCCalls
    User = User
    MaxToken = 3
INVARIANTS
    TypeOK
    RenewalsDoNotCollide
    WaitersAreServed
PROPERTIES
    SessionsEndForAReason
    UnlockOpensLiveSession
    CallsEnd
