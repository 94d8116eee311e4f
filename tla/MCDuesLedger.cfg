SPECIFICATION Spec
CONSTANTS
    Dues = {d1}
    Sessions = {s1, s2}
    MaxReceipts = 2
    MaxAmount = 2
    MaxCorrections = 2
    Nobody = Nobody
SYMMETRY SessionSymmetry
INVARIANTS TypeOK ConfirmedExactlyOnce ReadsStillHold 
PROPERTIES PaymentSettles AmountChangesAreLogged
\* The bounded tables fill up, and then no call can begin.
CHECK_DEADLOCK FALSE
