--------------------------- MODULE PaymentLedger ---------------------------
(***************************************************************************)
(* What the dues ledger promises about payments, without receipts, locks   *)
(* or concurrent calls: a due is assessed once, money is received on it in *)
(* indivisible instalments that never exceed what is still owed, and its   *)
(* standing is always the one the received total gives it.                 *)
(***************************************************************************)
EXTENDS Integers

CONSTANTS
    Dues,       \* identities of dues
    MaxAmount   \* bound on an amount

VARIABLE account  \* account[d]: the standing, the amount and the money received

Init == account = [d \in Dues |-> [status |-> "absent", amount |-> 0, received |-> 0]]

Assess(d, a) ==
    /\ account[d].status = "absent"
    /\ account' = [account EXCEPT ![d] = [status |-> "unpaid", amount |-> a, received |-> 0]]

Receive(d, x) ==
    LET total == account[d].received + x
    IN  /\ account[d].status \in {"unpaid", "partially_paid"}
        /\ total <= account[d].amount
        /\ account' = [account EXCEPT ![d] =
               [status |-> IF total = @.amount THEN "paid" ELSE "partially_paid",
                amount |-> @.amount, received |-> total]]

Next == \E d \in Dues : \/ \E a \in 0..MaxAmount : Assess(d, a)
                        \/ \E x \in 1..MaxAmount : Receive(d, x)

Spec == Init /\ [][Next]_account
=============================================================================
