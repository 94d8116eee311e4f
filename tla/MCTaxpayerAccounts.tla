------------------------- MODULE MCTaxpayerAccounts -------------------------
(***************************************************************************)
(* Instances of TaxpayerAccounts for TLC: files of taxpayers, activities   *)
(* and dues; one taxpayer was in the registry before, and has a request.   *)
(***************************************************************************)
EXTENDS TaxpayerAccounts, TLC

CONSTANTS m1, land, alice, ra, t1, t2

Row(p, t, activity, amount, r) ==
    [name |-> TRUE, phone |-> p, tax |-> t, activity |-> activity, amount |-> amount, request |-> r]

(* The same mobile number in two spellings. *)
People == [kind |-> "taxpayers", rows |->
    <<Row(Local(m1), t1, FALSE, "missing", Nothing), Row(Full(m1), Nothing, FALSE, "missing", Nothing)>>]

(* A tax number that reads like the phone number of another row. *)
Offices == [kind |-> "taxpayers", rows |->
    <<Row(Local(land), Nothing, FALSE, "missing", Nothing), Row(Full(m1), Local(land), FALSE, "missing", Nothing)>>]

Shops == [kind |-> "activities", rows |-> <<Row(Local(m1), Nothing, TRUE, "missing", Nothing)>>]

(* Dues by request and by tax number. *)
Charge == [kind |-> "dues", rows |-> <<Row(Nothing, Nothing, FALSE, "valid", ra)>>]
Levy == [kind |-> "dues", rows |-> <<Row(Nothing, t2, FALSE, "valid", Nothing)>>]

MCUploads == {People, Offices, Shops, Charge, Levy}
MCBefore == {[taxpayer |-> alice, type |-> "phone", value |-> Full(m1)],
             [taxpayer |-> alice, type |-> "tax_number", value |-> t2]}
MCOwner == [r \in Requests |-> alice]
MCTaxNumbers == {t1}
MCNewest == [t \in Registered |-> ra]

CallSymmetry == Permutations(Calls) \cup Permutations(Jobs)
=============================================================================
