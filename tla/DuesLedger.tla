----------------------------- MODULE DuesLedger -----------------------------
(***************************************************************************)
(* The dues ledger of the API: assessed dues, payment receipts, payment    *)
(* confirmations and amount corrections, and the calls that work on them.  *)
(*                                                                         *)
(* The database is PostgreSQL at READ COMMITTED.  A repository call        *)
(* outside a transaction is a statement of its own: it commits at once,    *)
(* and any other session may run between two of them (assessDue,           *)
(* correctDue, cancelDue, uploadReceipt).  AtomicDuesPaymentsService runs  *)
(* recordPayment and confirmPayment in a transaction that takes row locks  *)
(* with SELECT ... FOR UPDATE: its reads are separate steps, its writes    *)
(* become visible together, in its commit step.                            *)
(*                                                                         *)
(* A row lock taken FOR UPDATE blocks other lockers of the row, updates of *)
(* the row, and inserts of rows that reference it (their foreign-key check *)
(* takes FOR KEY SHARE on it).  Amounts are whole hundredths of a riyal:   *)
(* the contract admits multiples of 0.01 only, on which the rounding in    *)
(* the code is the identity.                                               *)
(***************************************************************************)
EXTENDS Integers, Sequences, FiniteSets

CONSTANTS
    Dues,            \* identities of dues
    Sessions,        \* calls the API serves at the same time, one per session
    MaxReceipts,     \* bound: receipts are 1..MaxReceipts
    MaxAmount,       \* bound on an amount
    MaxCorrections,  \* bound on the corrections of one due
    Nobody           \* not a session and not a due

ASSUME LedgerAssumption ==
    /\ MaxReceipts \in Nat
    /\ MaxAmount \in Nat
    /\ MaxCorrections \in Nat
    /\ Nobody \notin Sessions
    /\ Nobody \notin Dues

VARIABLES
    due,             \* table dues.payment_dues, with its basis references
    receipt,         \* table dues.payment_receipts
    confirmations,   \* confirmations[r]: rows of dues.payment_confirmations for r
    corrections,     \* corrections[d]: rows of dues.due_corrections, in order
    dueLock,         \* holder of the FOR UPDATE lock of a due
    receiptLock,     \* holder of the FOR UPDATE lock of a receipt
    call             \* what each session is executing, with what it has read

vars == <<due, receipt, confirmations, corrections, dueLock, receiptLock, call>>
tables == <<due, receipt, confirmations, corrections>>
locks == <<dueLock, receiptLock>>

ReceiptIds == 1..MaxReceipts
Amounts == 0..MaxAmount
Correctable == {"unpaid", "partially_paid"}
DueStatus == Correctable \cup {"paid", "cancelled"}

DueRow == [status: DueStatus \cup {"absent"}, amount: Amounts, basis: BOOLEAN]
ReceiptRow == [status: {"absent", "uploaded", "verified"},
               due: Dues \cup {Nobody}, amount: Amounts]
CorrectionRow == [prior: Amounts, new: Amounts]

PaymentPc == {"record_sum", "record_commit",
              "confirm_lock_due", "confirm_sum", "confirm_commit"}
CancelPc == {"cancel_receipts", "cancel_find", "cancel_mark"}
CorrectionPc == {"log", "update"}

(* pc: the next statement; cancelling: correctDue was called by cancelDue; *)
(* amount: the amount the call was given; seen: the amount of the due as   *)
(* last read by the statement that decides; paid: the sum read.            *)
Call == [pc: {"idle", "assess_basis"} \cup PaymentPc \cup CancelPc \cup CorrectionPc,
         due: Dues \cup {Nobody}, receipt: ReceiptIds \cup {0},
         amount: Amounts, seen: Amounts, paid: Int, cancelling: BOOLEAN]
Idle == [pc |-> "idle", due |-> Nobody, receipt |-> 0,
         amount |-> 0, seen |-> 0, paid |-> 0, cancelling |-> FALSE]

(***************************************************************************)
(* The sum of the verified receipts of a due, as the services reduce it.   *)
(***************************************************************************)
Total(f) ==
    LET upTo[n \in 0..MaxReceipts] == IF n = 0 THEN 0 ELSE upTo[n - 1] + f[n]
    IN  upTo[MaxReceipts]

Counted(d) == [r \in ReceiptIds |->
    IF receipt[r].due = d /\ receipt[r].status = "verified" THEN receipt[r].amount ELSE 0]

PaidTotal(d) == Total(Counted(d))

(* Mutant: the upper-case code that an earlier release wrote. *)
BugUpperCasePaid(total, amount) == IF total >= amount THEN "PAID" ELSE "partially_paid"

(* The status a payment leaves: paid in full, in part, or not at all. *)
NextStatus(total, amount) ==
    CASE total >= amount             -> "paid"
      [] total < amount /\ total > 0 -> "partially_paid"
      [] OTHER                       -> "unpaid"

Exists(d) == due[d].status # "absent"

(* An identity no row and no call in flight uses: randomUUID(). *)
FreshReceipt(r) ==
    /\ receipt[r].status = "absent"
    /\ \A s \in Sessions : call[s].receipt # r

(* Statements that update a due, or insert a row that references it, wait. *)
NotLocked(d) == dueLock[d] = Nobody

Return(s) == call' = [call EXCEPT ![s] = Idle]
Goto(s, pc) == call' = [call EXCEPT ![s].pc = pc]
ReleaseLocks(s) ==
    /\ dueLock' = [d \in Dues |-> IF dueLock[d] = s THEN Nobody ELSE dueLock[d]]
    /\ receiptLock' = [r \in ReceiptIds |->
                          IF receiptLock[r] = s THEN Nobody ELSE receiptLock[r]]

-----------------------------------------------------------------------------
Init ==
    /\ due = [d \in Dues |-> [status |-> "absent", amount |-> 0, basis |-> FALSE]]
    /\ receipt = [r \in ReceiptIds |-> [status |-> "absent", due |-> Nobody, amount |-> 0]]
    /\ confirmations = [r \in ReceiptIds |-> 0]
    /\ corrections = [d \in Dues |-> <<>>]
    /\ dueLock = [d \in Dues |-> Nobody]
    /\ receiptLock = [r \in ReceiptIds |-> Nobody]
    /\ call = [s \in Sessions |-> Idle]

-----------------------------------------------------------------------------
(***************************************************************************)
(* assessDue: insert the due, then, as a second statement, its basis.      *)
(***************************************************************************)
AssessDue(s, d, a) ==
    /\ call[s].pc = "idle"
    /\ ~Exists(d)
    /\ due' = [due EXCEPT ![d] = [status |-> "unpaid", amount |-> a, basis |-> FALSE]]
    /\ call' = [call EXCEPT ![s] = [Idle EXCEPT !.pc = "assess_basis", !.due = d]]
    /\ UNCHANGED <<receipt, confirmations, corrections, locks>>

AssessBasis(s) ==
    /\ call[s].pc = "assess_basis"
    /\ NotLocked(call[s].due)
    /\ due' = [due EXCEPT ![call[s].due].basis = TRUE]
    /\ Return(s)
    /\ UNCHANGED <<receipt, confirmations, corrections, locks>>

(***************************************************************************)
(* uploadReceipt: the status of the due is not consulted.                  *)
(***************************************************************************)
UploadReceipt(d, a, r) ==
    /\ Exists(d)
    /\ a > 0
    /\ NotLocked(d)
    /\ FreshReceipt(r)
    /\ receipt' = [receipt EXCEPT ![r] = [status |-> "uploaded", due |-> d, amount |-> a]]
    /\ UNCHANGED <<due, confirmations, corrections, locks, call>>

-----------------------------------------------------------------------------
(* Mutant: the due is read without FOR UPDATE. *)
BugRecordReadsWithoutLock(s, d, a, r) ==
    /\ call[s].pc = "idle"
    /\ a > 0
    /\ due[d].status \in Correctable
    /\ FreshReceipt(r)
    /\ call' = [call EXCEPT ![s] = [Idle EXCEPT !.pc = "record_sum", !.due = d,
                     !.receipt = r, !.amount = a, !.seen = due[d].amount]]
    /\ UNCHANGED <<tables, locks>>

(***************************************************************************)
(* recordPayment, one transaction: lock and read the due, read the         *)
(* receipts, write the receipt, the status and the confirmation.           *)
(***************************************************************************)
RecordLock(s, d, a, r) ==
    /\ call[s].pc = "idle"
    /\ a > 0
    /\ NotLocked(d)
    /\ due[d].status \in Correctable
    /\ FreshReceipt(r)
    /\ dueLock' = [dueLock EXCEPT ![d] = s]
    /\ call' = [call EXCEPT ![s] = [Idle EXCEPT !.pc = "record_sum", !.due = d,
                     !.receipt = r, !.amount = a, !.seen = due[d].amount]]
    /\ UNCHANGED <<tables, receiptLock>>

(* Mutant: the payment is compared with the amount, not with the remainder. *)
BugIgnoresWhatIsPaid(s, from, to) ==
    LET c == call[s]
    IN  /\ c.pc = from
        /\ c.amount <= c.seen
        /\ call' = [call EXCEPT ![s].pc = to, ![s].paid = PaidTotal(c.due)]
        /\ UNCHANGED <<tables, locks>>

(* Mutant: a payment that is too large returns and leaves its transaction open. *)
BugLeavesTransactionOpen(s, from, to) ==
    LET c == call[s]
        paid == PaidTotal(c.due)
    IN  /\ c.pc = from
        /\ IF c.amount <= c.seen - paid
           THEN call' = [call EXCEPT ![s].pc = to, ![s].paid = paid]
           ELSE Return(s)
        /\ UNCHANGED <<tables, locks>>

(* The sum is read; a payment above the remainder rolls the call back. *)
SumReceipts(s, from, to) ==
    LET c == call[s]
        paid == PaidTotal(c.due)
    IN  /\ c.pc = from
        /\ \/ /\ c.amount <= c.seen - paid
              /\ call' = [call EXCEPT ![s].pc = to, ![s].paid = paid]
              /\ UNCHANGED locks
           \/ /\ c.amount > c.seen - paid
              /\ Return(s)
              /\ ReleaseLocks(s)
        /\ UNCHANGED tables

RecordSum(s) == SumReceipts(s, "record_sum", "record_commit")

(* Mutant: the status is computed from this payment alone. *)
BugStatusFromThisPayment(s) ==
    LET c == call[s]
    IN  /\ due' = [due EXCEPT ![c.due].status = NextStatus(c.amount, c.seen)]
        /\ confirmations' = [confirmations EXCEPT ![c.receipt] = @ + 1]
        /\ Return(s)
        /\ ReleaseLocks(s)
        /\ UNCHANGED corrections

(* What both payment transactions make visible, with the receipt, at their commit. *)
CommitPayment(s) ==
    LET c == call[s]
    IN  /\ due' = [due EXCEPT ![c.due].status = NextStatus(c.paid + c.amount, c.seen)]
        /\ confirmations' = [confirmations EXCEPT ![c.receipt] = @ + 1]
        /\ Return(s)
        /\ ReleaseLocks(s)
        /\ UNCHANGED corrections

RecordCommit(s) ==
    LET c == call[s]
    IN  /\ c.pc = "record_commit"
        /\ receipt' = [receipt EXCEPT ![c.receipt] =
                          [status |-> "verified", due |-> c.due, amount |-> c.amount]]
        /\ CommitPayment(s)

(* Mutant: the receipt is read without FOR UPDATE. *)
BugConfirmReadsWithoutLock(s, r) ==
    /\ call[s].pc = "idle"
    /\ receipt[r].status = "uploaded"
    /\ call' = [call EXCEPT ![s] = [Idle EXCEPT !.pc = "confirm_lock_due",
                     !.due = receipt[r].due, !.receipt = r, !.amount = receipt[r].amount]]
    /\ UNCHANGED <<tables, locks>>

(***************************************************************************)
(* confirmPayment, one transaction: lock the receipt, which must still be  *)
(* only uploaded, then lock its due, whatever its status, and go on.       *)
(***************************************************************************)
ConfirmLockReceipt(s, r) ==
    /\ call[s].pc = "idle"
    /\ receiptLock[r] = Nobody
    /\ receipt[r].status = "uploaded"
    /\ receiptLock' = [receiptLock EXCEPT ![r] = s]
    /\ call' = [call EXCEPT ![s] = [Idle EXCEPT !.pc = "confirm_lock_due",
                     !.due = receipt[r].due, !.receipt = r, !.amount = receipt[r].amount]]
    /\ UNCHANGED <<tables, dueLock>>

(* Mutant: the due is read without FOR UPDATE. *)
BugConfirmReadsDueUnlocked(s) ==
    LET d == call[s].due
    IN  /\ call[s].pc = "confirm_lock_due"
        /\ call' = [call EXCEPT ![s].pc = "confirm_sum", ![s].seen = due[d].amount]
        /\ UNCHANGED <<tables, locks>>

ConfirmLockDue(s) ==
    LET d == call[s].due
    IN  /\ call[s].pc = "confirm_lock_due"
        /\ NotLocked(d)
        /\ dueLock' = [dueLock EXCEPT ![d] = s]
        /\ call' = [call EXCEPT ![s].pc = "confirm_sum", ![s].seen = due[d].amount]
        /\ UNCHANGED <<tables, receiptLock>>

ConfirmSum(s) == SumReceipts(s, "confirm_sum", "confirm_commit")

ConfirmCommit(s) ==
    /\ call[s].pc = "confirm_commit"
    /\ receipt' = [receipt EXCEPT ![call[s].receipt].status = "verified"]
    /\ CommitPayment(s)

-----------------------------------------------------------------------------
(***************************************************************************)
(* correctDue, three statements without a lock: read the due, insert the   *)
(* correction with the amount read as the prior one, set the new amount.   *)
(***************************************************************************)
CorrectionRoom(d) == \* bound: corrections written or about to be
    LET writers == {s \in Sessions : call[s].due = d /\ call[s].pc \in CorrectionPc \cup CancelPc}
    IN  Len(corrections[d]) + Cardinality(writers) < MaxCorrections

(* Mutant: the due is updated before its correction is inserted. *)
BugUpdatesBeforeLogging(s, d, n) ==
    /\ call[s].pc = "idle"
    /\ due[d].status \in Correctable
    /\ CorrectionRoom(d)
    /\ due' = [due EXCEPT ![d].amount = n]
    /\ call' = [call EXCEPT ![s] = [Idle EXCEPT !.pc = "log", !.due = d,
                     !.amount = n, !.seen = due[d].amount]]
    /\ UNCHANGED <<receipt, confirmations, corrections, locks>>

CorrectFind(s, d, n) ==
    /\ call[s].pc = "idle"
    /\ due[d].status \in Correctable
    /\ CorrectionRoom(d)
    /\ call' = [call EXCEPT ![s] = [Idle EXCEPT !.pc = "log", !.due = d,
                     !.amount = n, !.seen = due[d].amount]]
    /\ UNCHANGED <<tables, locks>>

LogCorrection(s) ==
    LET c == call[s]
    IN  /\ c.pc = "log"
        /\ NotLocked(c.due)
        /\ corrections' = [corrections EXCEPT ![c.due] =
                              Append(@, [prior |-> c.seen, new |-> c.amount])]
        /\ Goto(s, "update")
        /\ UNCHANGED <<due, receipt, confirmations, locks>>

(* Only the amount is set: the status stays what it is. *)
UpdateAmount(s) ==
    LET c == call[s]
    IN  /\ c.pc = "update"
        /\ NotLocked(c.due)
        /\ due' = [due EXCEPT ![c.due].amount = c.amount]
        /\ IF c.cancelling THEN Goto(s, "cancel_mark") ELSE Return(s)
        /\ UNCHANGED <<receipt, confirmations, corrections, locks>>

(***************************************************************************)
(* cancelDue, without a lock: read the due, read its receipts, have        *)
(* correctDue log a correction to the amount first read, then set the      *)
(* status.  Every check that fails ends the call.                          *)
(***************************************************************************)
CancelFind(s, d) ==
    /\ call[s].pc = "idle"
    /\ Exists(d)
    /\ due[d].status # "cancelled"
    /\ CorrectionRoom(d)
    /\ call' = [call EXCEPT ![s] = [Idle EXCEPT !.pc = "cancel_receipts", !.due = d,
                     !.amount = due[d].amount, !.cancelling = TRUE]]
    /\ UNCHANGED <<tables, locks>>

CancelReceipts(s) ==
    /\ call[s].pc = "cancel_receipts"
    /\ IF \E r \in ReceiptIds : receipt[r].due = call[s].due /\ receipt[r].status = "verified"
       THEN Return(s)
       ELSE Goto(s, "cancel_find")
    /\ UNCHANGED <<tables, locks>>

CancelCorrectFind(s) ==
    LET d == call[s].due
    IN  /\ call[s].pc = "cancel_find"
        /\ IF due[d].status \in Correctable
           THEN call' = [call EXCEPT ![s].pc = "log", ![s].seen = due[d].amount]
           ELSE Return(s)
        /\ UNCHANGED <<tables, locks>>

CancelMark(s) ==
    LET d == call[s].due
    IN  /\ call[s].pc = "cancel_mark"
        /\ NotLocked(d)
        /\ due' = [due EXCEPT ![d].status = "cancelled"]
        /\ Return(s)
        /\ UNCHANGED <<receipt, confirmations, corrections, locks>>

-----------------------------------------------------------------------------
(***************************************************************************)
(* The API process or its connection dies: an open transaction is rolled   *)
(* back and its locks are released; committed statements stay.             *)
(***************************************************************************)
Crash(s) ==
    /\ call[s].pc # "idle"
    /\ Return(s)
    /\ ReleaseLocks(s)
    /\ UNCHANGED tables

(* A call that has begun goes on. *)
Continue(s) ==
    \/ AssessBasis(s)
    \/ RecordSum(s) \/ RecordCommit(s)
    \/ ConfirmLockDue(s) \/ ConfirmSum(s) \/ ConfirmCommit(s)
    \/ LogCorrection(s) \/ UpdateAmount(s)
    \/ CancelReceipts(s) \/ CancelCorrectFind(s) \/ CancelMark(s)

PaymentNext ==
    \/ \E s \in Sessions, d \in Dues, a \in Amounts : AssessDue(s, d, a)
    \/ \E d \in Dues, a \in Amounts, r \in ReceiptIds : UploadReceipt(d, a, r)
    \/ \E s \in Sessions, d \in Dues, a \in Amounts, r \in ReceiptIds : RecordLock(s, d, a, r)
    \/ \E s \in Sessions, r \in ReceiptIds : ConfirmLockReceipt(s, r)
    \/ \E s \in Sessions : AssessBasis(s)
    \/ \E s \in Sessions : RecordSum(s) \/ RecordCommit(s)
    \/ \E s \in Sessions : ConfirmLockDue(s) \/ ConfirmSum(s) \/ ConfirmCommit(s)
    \/ \E s \in Sessions : Crash(s)

CorrectionNext ==
    \/ \E s \in Sessions, d \in Dues, n \in Amounts : CorrectFind(s, d, n)
    \/ \E s \in Sessions, d \in Dues : CancelFind(s, d)
    \/ \E s \in Sessions : LogCorrection(s) \/ UpdateAmount(s)
    \/ \E s \in Sessions : CancelReceipts(s) \/ CancelCorrectFind(s) \/ CancelMark(s)

Next == PaymentNext \/ CorrectionNext

Spec == Init /\ [][Next]_vars

(* The ledger while nobody corrects or cancels a due. *)
PaymentSpec == Init /\ [][PaymentNext]_vars

(***************************************************************************)
(* Fairness.  A session that can go on does.  A lock is free only now and  *)
(* then, but PostgreSQL queues its waiters in order, so a waiter that is   *)
(* enabled again and again proceeds: strong fairness.                      *)
(***************************************************************************)
FairPaymentSpec == PaymentSpec /\ \A s \in Sessions : SF_vars(Continue(s))
-----------------------------------------------------------------------------
(***************************************************************************)
(* Properties.                                                             *)
(***************************************************************************)
(* Every table, lock and session holds values of its type. *)
TypeOK ==
    /\ due \in [Dues -> DueRow]
    /\ receipt \in [ReceiptIds -> ReceiptRow]
    /\ confirmations \in [ReceiptIds -> Nat]
    /\ corrections \in [Dues -> Seq(CorrectionRow)]
    /\ dueLock \in [Dues -> Sessions \cup {Nobody}]
    /\ receiptLock \in [ReceiptIds -> Sessions \cup {Nobody}]
    /\ call \in [Sessions -> Call]

(* A verified receipt has exactly one confirmation and any other receipt has *)
(* none, however many sessions confirm or record at once and wherever one    *)
(* of them dies: the receipt lock in confirmPayment and the commit of both   *)
(* payment transactions.                                                     *)
ConfirmedExactlyOnce ==
    \A r \in ReceiptIds :
        confirmations[r] = IF receipt[r].status = "verified" THEN 1 ELSE 0

(* What a payment transaction has read still holds until it commits: the    *)
(* receipt it confirms, the amount of the due and the sum counted on it,    *)
(* whatever other calls do meanwhile.  The row locks of recordPayment and   *)
(* confirmPayment exist for this, and a fault in them shows here before any *)
(* money is miscounted.                                                     *)
ReadsStillHold ==
    \A s \in Sessions :
        LET c == call[s]
        IN  /\ c.pc \in {"confirm_lock_due", "confirm_sum", "confirm_commit"} =>
                  receipt[c.receipt] = [status |-> "uploaded", due |-> c.due, amount |-> c.amount]
            /\ c.pc \in {"record_sum", "record_commit", "confirm_sum", "confirm_commit"} =>
                  c.seen = due[c.due].amount
            /\ c.pc \in {"record_commit", "confirm_commit"} =>
                  c.paid = PaidTotal(c.due) /\ c.amount <= c.seen - c.paid

(* A step that counts money on a due never takes more than the due is worth *)
(* at that moment, and leaves the status that the counted total calls for,  *)
(* although corrections and cancellations run beside it without a lock.     *)
PaymentSettles ==
    [][\A d \in Dues :
          PaidTotal(d)' # PaidTotal(d) =>
              /\ PaidTotal(d)' <= due'[d].amount
              /\ due'[d].status = NextStatus(PaidTotal(d)', due'[d].amount)]_vars

(* An amount changes only to one that a retained correction announces, also *)
(* when two corrections interleave or one of them dies half way: correctDue *)
(* writes the correction before the due.                                    *)
AmountChangesAreLogged ==
    [][\A d \in Dues :
          Exists(d) /\ due'[d].amount # due[d].amount =>
              \E i \in 1..Len(corrections[d]) : corrections[d][i].new = due'[d].amount]_vars

(* Every call that has begun ends: the two lock orders never form a cycle,  *)
(* and no session waits for ever for a row that another one holds.          *)
CallsReturn == \A s \in Sessions : call[s].pc # "idle" ~> call[s].pc = "idle"

(* A session whose next statement needs a row that another one has locked.  *)
WaitsFor(s, t) ==
    /\ call[s].pc \in {"assess_basis", "confirm_lock_due", "cancel_mark"} \cup CorrectionPc
    /\ dueLock[call[s].due] = t

(* Locks never form a cycle and are never left behind: whoever is waited    *)
(* for is still in its call and waits for nobody, although confirmPayment   *)
(* keeps one lock while it waits for another, and corrections and           *)
(* cancellations wait beside the payments.                                  *)
WaitsAreShort ==
    \A s, t \in Sessions :
        WaitsFor(s, t) => call[t].pc # "idle" /\ \A u \in Sessions : ~WaitsFor(t, u)

(* While nobody corrects or cancels, the books balance at every moment: the *)
(* counted total stays within the amount and the status says exactly how    *)
(* the total compares with it.                                              *)
BooksBalance ==
    \A d \in Dues : Exists(d) =>
        /\ PaidTotal(d) <= due[d].amount
        /\ due[d].status = IF PaidTotal(d) = 0 THEN "unpaid"
                           ELSE NextStatus(PaidTotal(d), due[d].amount)

(* "a due from which anything was received is not cancelled" (cancelDue):   *)
(* a cancelled due has no verified receipt.                                 *)
CancelledHoldsNoMoney ==
    \A d \in Dues : due[d].status = "cancelled" => PaidTotal(d) = 0

(* A cancelDue that found no verified receipt on its due and goes on to set *)
(* the status, three statements later.                                      *)
Cancelling(t, d) == call[t].cancelling /\ call[t].due = d /\ call[t].pc # "cancel_receipts"

(* No payment is about to commit on a due that is cancelled, or that a      *)
(* cancellation has already found without money.                            *)
PaymentsApart ==
    \A s \in Sessions : call[s].pc \in {"record_commit", "confirm_commit"} =>
        /\ due[call[s].due].status # "cancelled"
        /\ \A t \in Sessions : ~Cancelling(t, call[s].due)

(* Such a payment is all that strands money on a cancelled due: the missing *)
(* lock of cancelDue and the status that confirmPayment does not look at.   *)
(* Corrections, other cancellations and crashes do no harm.                 *)
OnlyRacesStrand == []PaymentsApart => []CancelledHoldsNoMoney

-----------------------------------------------------------------------------
(***************************************************************************)
(* The account a due keeps with the taxpayer, read off the tables.  While  *)
(* nobody corrects or cancels, the calls, their transactions, locks and    *)
(* crashes together do what PaymentLedger promises.                        *)
(***************************************************************************)
Account == [d \in Dues |->
    [status |-> due[d].status, amount |-> due[d].amount, received |-> PaidTotal(d)]]

Ledger == INSTANCE PaymentLedger WITH account <- Account

(* Every step of a payment call is one indivisible instalment within what   *)
(* is owed, or changes no account: recordPayment and confirmPayment are     *)
(* atomic to any reader of the ledger.                                      *)
PaymentsAreInstalments == Ledger!Spec
=============================================================================
