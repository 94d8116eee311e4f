SPECIFICATION Spec
CONSTANTS
    m1 = m1
    land = land
    alice = alice
    ra = ra
    t1 = t1
    t2 = t2
    Mobiles = {m1}
    Landlines = {land}
    Requests = {ra}
    Nothing = Nothing
    Calls = {c1, c2}
    Jobs = {j1, j2}
    Uploads <- MCUploads
    Registered = {alice}
    Before <- MCBefore
    Owner <- MCOwner
    Newest <- MCNewest
    Secrets = {s1, s2}
    TaxNumbers <- MCTaxNumbers
INVARIANTS TypeOK OnlyReviewedRowsLand AcceptedRowsDiffer ProfilesHaveIdentities SetPasswordsWereSent ClaimedCanSignIn
SYMMETRY CallSymmetry
\* Every job is finished, every password sent, and then no call can begin.
CHECK_DEADLOCK FALSE
