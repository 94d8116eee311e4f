SPECIFICATION Spec
CONSTANTS
    Requests = {r1}
    Sessions = {s1, s2}
    Service <- MCService
    IsCompany <- MCIsCompany
    Forms <- OwnForms
    Calls = {"transition", "upload"}
    MaxSnapshots = 1
    MaxHistory = 7
    Nobody = Nobody
PROPERTIES LifecycleRespected
SYMMETRY SessionSymmetry
\* The bounded tables fill up, and then no call can begin.
CHECK_DEADLOCK FALSE
