SPECIFICATION Spec
CONSTANTS
    Requests = {r1}
    Sessions = {s1, s2}
    Service <- MCService
    IsCompany <- MCIsCompany
    Forms <- OwnForms
    Calls <- AllCalls
    MaxSnapshots = 3
    MaxHistory = 3
    Nobody = Nobody
INVARIANTS TypeOK SnapshotsNumbered SubmittedIsComplete IdentityIsProven
SYMMETRY SessionSymmetry
\* The bounded tables fill up, and then no call can begin.
CHECK_DEADLOCK FALSE
