SPECIFICATION Spec
CONSTANTS
    Dues = {d1}
    Sessions = {s1, s2}
    MaxReceipts = 1
    MaxAmount = 1
    MaxCorrections = 1
    Nobody = Nobody
SYMMETRY SessionSymmetry
INVARIANTS CancelledHoldsNoMoney
\* The bounded tables fill up, and then no call can begin.
CHECK_DEADLOCK FALSE
