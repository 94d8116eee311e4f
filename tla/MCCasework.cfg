SPECIFICATION Spec
CONSTANTS
    b1 = b1
    n1 = n1
    c1 = c1
    c2 = c2
    v1 = v1
    s1 = s1
    x = x
    a1 = a1
    Balaghs <- MCBalaghs
    AddressNotices <- MCNotices
    Activities <- MCActivities
    TypesFiled <- MCTypes
    MaxFilings = 1
    MaxSnapshots = 3
    MaxHistory = 4
    Calls <- MCCalls
    Visits <- MCVisits
    Staff <- MCStaff
    Reports <- MCReports
    NoReport = NoReport
    MaxRevisions = 1
SYMMETRY MCSymmetry
INVARIANTS
    TypeOK
    FormsFitTheirType
    SubmissionIsRecorded
    EvidenceIsInOrder
    DecisionStands
\* A case whose visit has ended and whose decision stands takes no more calls.
CHECK_DEADLOCK FALSE
