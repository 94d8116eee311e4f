SPECIFICATION FairPaymentSpec
CONSTANTS
    Dues = {d1, d2}
    Sessions = {s1, s2}
    MaxReceipts = 2
    MaxAmount = 2
    MaxCorrections = 0
    Nobody = Nobody
INVARIANTS BooksBalance
PROPERTIES PaymentsAreInstalments 
\* The bounded tables fill up, and then no call can begin.
CHECK_DEADLOCK FALSE
