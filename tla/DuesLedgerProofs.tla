-------------------------- MODULE DuesLedgerProofs --------------------------
(***************************************************************************)
(* What the ledger guarantees for any number of dues, sessions, receipts   *)
(* and amounts.  In three parts: Total, the sum of the counted amounts of  *)
(* a due, is a natural number, and changing one summand changes it by as   *)
(* much; the invariants of the whole ledger; and what holds while nobody   *)
(* corrects or cancels a due, namely that the books balance and that the   *)
(* payment calls implement PaymentLedger.                                  *)
(***************************************************************************)
EXTENDS DuesLedger, WellFoundedInduction, TLAPS

(* Sums *)

(* A set of naturals that holds zero and the successor of each of its      *)
(* members holds them all: the least number outside it cannot exist.       *)
LEMMA SetInduction ==
    ASSUME NEW P \in SUBSET Nat, 0 \in P, \A n \in P : n + 1 \in P
    PROVE  P = Nat
<1> DEFINE T == Nat \ P
<1>1. SUFFICES ASSUME T # {} PROVE FALSE
  OBVIOUS
<1>2. PICK x \in T : \A y \in T : ~(<<y, x>> \in OpToRel(<, Nat))
  <2>1. T \subseteq Nat
    OBVIOUS
  <2> QED BY <1>1, <2>1, WFMin, NatLessThanWellFounded, Zenon
<1>3. \A y \in T : ~(y < x)
  <2>1. \A y \in Nat : y < x => <<y, x>> \in OpToRel(<, Nat)
    BY Zenon DEF OpToRel
  <2> QED BY <1>2, <2>1
<1>4. x # 0 /\ x \in Nat
  OBVIOUS
<1>5. x - 1 \in P
  BY <1>3, <1>4
<1> HIDE DEF T
<1>6. (x - 1) + 1 \in P
  BY <1>5
<1>7. x \in P
  BY <1>4, <1>6
<1> QED BY <1>7 DEF T

(* The recursion that Total folds with has a solution on every prefix. *)
LEMMA PrefixSums ==
    ASSUME NEW f \in [ReceiptIds -> Nat], NEW m \in Nat, m <= MaxReceipts
    PROVE  \E g : g = [n \in 0..m |-> IF n = 0 THEN 0 ELSE g[n - 1] + f[n]]
<1> DEFINE Solved(k) == \E g : g = [n \in 0..k |-> IF n = 0 THEN 0 ELSE g[n - 1] + f[n]]
           P == {k \in Nat : Solved(k)}
<1>1. 0 \in P
  <2>1. [n \in 0..0 |-> 0] = [n \in 0..0 |-> IF n = 0 THEN 0
                                  ELSE [i \in 0..0 |-> 0][n - 1] + f[n]]
    OBVIOUS
  <2> QED BY <2>1
<1>2. ASSUME NEW k \in P PROVE k + 1 \in P
  <2>1. PICK g : g = [n \in 0..k |-> IF n = 0 THEN 0 ELSE g[n - 1] + f[n]]
    OBVIOUS
  <2> DEFINE h == [n \in 0..(k + 1) |-> IF n = k + 1 THEN g[k] + f[k + 1] ELSE g[n]]
  <2>2. ASSUME NEW n \in 0..(k + 1)
        PROVE  h[n] = IF n = 0 THEN 0 ELSE h[n - 1] + f[n]
    <3>1. CASE n = 0
      BY <2>1, <3>1
    <3>2. CASE n = k + 1
      BY <3>2
    <3>3. CASE n # 0 /\ n # k + 1
      <4>1. n \in 0..k /\ n - 1 \in 0..k /\ n - 1 # k + 1
        BY <3>3
      <4>2. h[n] = g[n] /\ h[n - 1] = g[n - 1]
        BY <4>1, <3>3
      <4>3. g[n] = g[n - 1] + f[n]
        BY <2>1, <3>3, <4>1
      <4> QED BY <3>3, <4>2, <4>3
    <3> QED BY <3>1, <3>2, <3>3
  <2>3. h = [n \in 0..(k + 1) |-> IF n = 0 THEN 0 ELSE h[n - 1] + f[n]]
    <3> HIDE DEF h
    <3>1. h = [n \in 0..(k + 1) |-> h[n]]
      BY DEF h
    <3> QED BY <2>2, <3>1
  <2>4. Solved(k + 1)
    <3> HIDE DEF h
    <3> QED BY <2>3
  <2> QED BY <2>4
<1>3. P = Nat
  <2> HIDE DEF P
  <2>1. P \subseteq Nat
    BY DEF P
  <2> QED BY <1>1, <1>2, <2>1, SetInduction
<1> QED BY <1>3

(* Total is the last of the prefix sums, each a natural number. *)
LEMMA TotalUnfolds ==
    ASSUME NEW f \in [ReceiptIds -> Nat]
    PROVE  \E g \in [0..MaxReceipts -> Nat] :
              /\ g[0] = 0
              /\ \A n \in ReceiptIds : g[n] = g[n - 1] + f[n]
              /\ Total(f) = g[MaxReceipts]
<1> DEFINE g[n \in 0..MaxReceipts] == IF n = 0 THEN 0 ELSE g[n - 1] + f[n]
<1>1. g = [n \in 0..MaxReceipts |-> IF n = 0 THEN 0 ELSE g[n - 1] + f[n]]
  <2>1. MaxReceipts \in Nat /\ MaxReceipts <= MaxReceipts
    BY LedgerAssumption
  <2>2. \E h : h = [n \in 0..MaxReceipts |-> IF n = 0 THEN 0 ELSE h[n - 1] + f[n]]
    BY <2>1, PrefixSums
  <2> QED BY <2>2
<1>2. Total(f) = g[MaxReceipts]
  BY DEF Total
<1> HIDE DEF g
<1> DEFINE P == {k \in Nat : k <= MaxReceipts => g[k] \in Nat}
<1>3. P = Nat
  <2>1. 0 \in P
    BY <1>1, LedgerAssumption
  <2>2. ASSUME NEW k \in P PROVE k + 1 \in P
    <3>1. CASE k + 1 <= MaxReceipts
      <4>1. k + 1 \in 0..MaxReceipts /\ k + 1 # 0 /\ k + 1 \in ReceiptIds
        BY <3>1, LedgerAssumption DEF ReceiptIds
      <4>2. g[k + 1] = g[k] + f[k + 1]
        <5>1. g[k + 1] = g[(k + 1) - 1] + f[k + 1]
          BY <1>1, <4>1
        <5> QED BY <5>1
      <4>3. g[k] \in Nat /\ f[k + 1] \in Nat
        BY <3>1, <4>1, LedgerAssumption
      <4> QED BY <4>2, <4>3
    <3>2. CASE ~(k + 1 <= MaxReceipts)
      BY <3>2
    <3> QED BY <3>1, <3>2
  <2> HIDE DEF P
  <2>3. P \subseteq Nat
    BY DEF P
  <2> QED BY <2>1, <2>2, <2>3, SetInduction
<1>4. \A k \in 0..MaxReceipts : g[k] \in Nat
  BY <1>3, LedgerAssumption
<1>5. g \in [0..MaxReceipts -> Nat]
  BY <1>1, <1>4
<1>6. g[0] = 0
  BY <1>1, LedgerAssumption
<1>7. \A n \in ReceiptIds : g[n] = g[n - 1] + f[n]
  <2>1. \A n \in ReceiptIds : n \in 0..MaxReceipts /\ n # 0
    BY LedgerAssumption DEF ReceiptIds
  <2> QED BY <1>1, <2>1
<1> QED BY <1>2, <1>5, <1>6, <1>7

(* The sum of naturals is a natural. *)
LEMMA TotalNat ==
    ASSUME NEW f \in [ReceiptIds -> Nat]
    PROVE  Total(f) \in Nat
BY TotalUnfolds, LedgerAssumption

(* Two families that agree outside one receipt have totals that differ by  *)
(* as much as they differ at it.                                           *)
LEMMA TotalMoves ==
    ASSUME NEW f \in [ReceiptIds -> Nat], NEW h \in [ReceiptIds -> Nat],
           NEW r \in ReceiptIds, \A q \in ReceiptIds : q # r => h[q] = f[q]
    PROVE  Total(h) - Total(f) = h[r] - f[r]
<1>1. PICK gf \in [0..MaxReceipts -> Nat] :
          /\ gf[0] = 0
          /\ \A n \in ReceiptIds : gf[n] = gf[n - 1] + f[n]
          /\ Total(f) = gf[MaxReceipts]
  BY TotalUnfolds
<1>2. PICK gh \in [0..MaxReceipts -> Nat] :
          /\ gh[0] = 0
          /\ \A n \in ReceiptIds : gh[n] = gh[n - 1] + h[n]
          /\ Total(h) = gh[MaxReceipts]
  BY TotalUnfolds
<1> DEFINE Gap(k) == IF k < r THEN 0 ELSE h[r] - f[r]
           P == {k \in Nat : k <= MaxReceipts => gh[k] - gf[k] = Gap(k)}
<1>3. r \in Nat /\ 0 < r /\ r <= MaxReceipts
  BY LedgerAssumption DEF ReceiptIds
<1>4. P = Nat
  <2>1. 0 \in P
    BY <1>1, <1>2, <1>3
  <2>2. ASSUME NEW k \in P PROVE k + 1 \in P
    <3>1. CASE k + 1 <= MaxReceipts
      <4>1. /\ k + 1 \in ReceiptIds /\ k \in 0..MaxReceipts
            /\ k + 1 \in 0..MaxReceipts /\ (k + 1) - 1 = k
        BY <3>1, LedgerAssumption DEF ReceiptIds
      <4>2. /\ gf[k + 1] = gf[k] + f[k + 1]
            /\ gh[k + 1] = gh[k] + h[k + 1]
        BY <1>1, <1>2, <4>1
      <4>3. /\ gf[k] \in Nat /\ gh[k] \in Nat
            /\ f[k + 1] \in Nat /\ h[k + 1] \in Nat
            /\ f[r] \in Nat /\ h[r] \in Nat
        BY <4>1
      <4>4. gh[k] - gf[k] = Gap(k)
        BY <4>1, LedgerAssumption
      <4>5. CASE k + 1 = r
        <5>1. gh[k] = gf[k]
          BY <4>3, <4>4, <4>5, <1>3
        <5>2. gh[k + 1] - gf[k + 1] = h[r] - f[r]
          BY <4>2, <4>3, <4>5, <5>1
        <5> QED BY <4>5, <5>2
      <4>6. CASE k + 1 # r
        <5>1. h[k + 1] = f[k + 1]
          BY <4>1, <4>6
        <5> QED BY <4>2, <4>3, <4>4, <4>6, <5>1, <1>3
      <4> QED BY <4>5, <4>6
    <3>2. CASE ~(k + 1 <= MaxReceipts)
      BY <3>2
    <3> QED BY <3>1, <3>2
  <2> HIDE DEF P
  <2>3. P \subseteq Nat
    BY DEF P
  <2> QED BY <2>1, <2>2, <2>3, SetInduction
<1>5. gh[MaxReceipts] - gf[MaxReceipts] = h[r] - f[r]
  <2>1. MaxReceipts \in P
    BY <1>4, LedgerAssumption
  <2> QED BY <2>1, <1>3, LedgerAssumption
<1> QED BY <1>1, <1>2, <1>5

(* Nothing counted sums to nothing. *)
LEMMA TotalZero ==
    ASSUME NEW f \in [ReceiptIds -> Nat], \A r \in ReceiptIds : f[r] = 0
    PROVE  Total(f) = 0
<1>1. PICK g \in [0..MaxReceipts -> Nat] :
          /\ g[0] = 0
          /\ \A n \in ReceiptIds : g[n] = g[n - 1] + f[n]
          /\ Total(f) = g[MaxReceipts]
  BY TotalUnfolds
<1> DEFINE P == {k \in Nat : k <= MaxReceipts => g[k] = 0}
<1>2. P = Nat
  <2>1. 0 \in P
    BY <1>1
  <2>2. ASSUME NEW k \in P PROVE k + 1 \in P
    <3>1. CASE k + 1 <= MaxReceipts
      <4>1. k + 1 \in ReceiptIds /\ (k + 1) - 1 = k /\ k <= MaxReceipts
        BY <3>1, LedgerAssumption DEF ReceiptIds
      <4>2. g[k + 1] = g[k] + f[k + 1] /\ f[k + 1] = 0 /\ g[k] = 0
        BY <1>1, <4>1
      <4> QED BY <4>2
    <3>2. CASE ~(k + 1 <= MaxReceipts)
      BY <3>2
    <3> QED BY <3>1, <3>2
  <2> HIDE DEF P
  <2>3. P \subseteq Nat
    BY DEF P
  <2> QED BY <2>1, <2>2, <2>3, SetInduction
<1>3. MaxReceipts \in P
  BY <1>2, LedgerAssumption
<1> QED BY <1>1, <1>3, LedgerAssumption

-----------------------------------------------------------------------------
(* The ledger *)

RecordingPc == {"record_sum", "record_commit"}
ConfirmingPc == {"confirm_lock_due", "confirm_sum", "confirm_commit"}

(* A call in flight works on an assessed due, a payment call on a receipt. *)
CallsHaveDues ==
    \A s \in Sessions :
        /\ call[s].pc # "idle" => call[s].due \in Dues /\ Exists(call[s].due)
        /\ call[s].pc \in PaymentPc => call[s].receipt \in ReceiptIds /\ call[s].amount > 0

(* A payment call holds the locks it has taken. *)
LocksHeld ==
    \A s \in Sessions :
        /\ call[s].pc \in PaymentPc \ {"confirm_lock_due"} => dueLock[call[s].due] = s
        /\ call[s].pc \in ConfirmingPc => receiptLock[call[s].receipt] = s

(* The identity of a receipt to be inserted is used by nothing else. *)
ReceiptsReserved ==
    \A s \in Sessions :
        call[s].pc \in RecordingPc =>
            /\ receipt[call[s].receipt].status = "absent"
            /\ \A t \in Sessions : t # s => call[t].receipt # call[s].receipt

(* A receipt names an assessed due and a positive amount. *)
ReceiptsBelong ==
    \A r \in ReceiptIds :
        receipt[r].status # "absent" =>
            receipt[r].due \in Dues /\ Exists(receipt[r].due) /\ receipt[r].amount > 0

(* A call about to set an amount has inserted a correction that announces it. *)
CorrectionAnnounced ==
    \A s \in Sessions :
        call[s].pc = "update" =>
            \E i \in 1..Len(corrections[call[s].due]) :
                corrections[call[s].due][i].new = call[s].amount

Discipline ==
    /\ CallsHaveDues
    /\ LocksHeld
    /\ ReceiptsReserved
    /\ ReceiptsBelong
    /\ CorrectionAnnounced

LedgerInv ==
    /\ TypeOK
    /\ Discipline
    /\ ReadsStillHold
    /\ ConfirmedExactlyOnce

-----------------------------------------------------------------------------
(* Only its own receipts count for a due, and each counts its amount. *)
LEMMA CountedType ==
    ASSUME TypeOK, NEW d \in Dues
    PROVE  Counted(d) \in [ReceiptIds -> Nat]
BY LedgerAssumption DEF TypeOK, Counted, ReceiptRow, Amounts

LEMMA PaidTotalNat ==
    ASSUME TypeOK, NEW d \in Dues
    PROVE  PaidTotal(d) \in Nat
BY CountedType, TotalNat DEF PaidTotal

(* The types after a call has ended or moved to another statement. *)
LEMMA IdleType == Idle \in Call
BY LedgerAssumption DEF Idle, Call, Amounts

LEMMA ReturnType ==
    ASSUME TypeOK, NEW s \in Sessions, Return(s)
    PROVE  call' \in [Sessions -> Call]
BY IdleType DEF TypeOK, Return

LEMMA GotoType ==
    ASSUME TypeOK, NEW s \in Sessions, NEW pc \in CorrectionPc \cup CancelPc, Goto(s, pc)
    PROVE  call' \in [Sessions -> Call]
<1>1. [call[s] EXCEPT !.pc = pc] \in Call
  BY DEF TypeOK, Call
<1>2. call' = [call EXCEPT ![s] = [call[s] EXCEPT !.pc = pc]]
  BY DEF Goto
<1> QED BY <1>1, <1>2 DEF TypeOK

LEMMA ReleaseType ==
    ASSUME TypeOK, NEW s \in Sessions, ReleaseLocks(s)
    PROVE  /\ dueLock' \in [Dues -> Sessions \cup {Nobody}]
           /\ receiptLock' \in [ReceiptIds -> Sessions \cup {Nobody}]
BY DEF TypeOK, ReleaseLocks

LEMMA CommitType ==
    ASSUME TypeOK, NEW s \in Sessions, CommitPayment(s),
           receipt' \in [ReceiptIds -> ReceiptRow], call[s].receipt \in ReceiptIds
    PROVE  TypeOK'
<1>1. NextStatus(call[s].paid + call[s].amount, call[s].seen) \in DueStatus
  BY LedgerAssumption DEF TypeOK, Call, Amounts, NextStatus, DueStatus, Correctable
<1>2. due' \in [Dues -> DueRow]
  BY <1>1 DEF TypeOK, CommitPayment, DueRow
<1>3. confirmations' \in [ReceiptIds -> Nat]
  BY DEF TypeOK, CommitPayment
<1> QED BY <1>2, <1>3, ReturnType, ReleaseType DEF TypeOK, CommitPayment

(* Every step keeps the types. *)
LEMMA TypeStep ==
    ASSUME TypeOK, CallsHaveDues, [Next]_vars
    PROVE  TypeOK'
<1> USE LedgerAssumption DEF tables, locks
<1>1. ASSUME NEW s \in Sessions, NEW d \in Dues, NEW a \in Amounts, AssessDue(s, d, a)
      PROVE  TypeOK'
  <2>1. [Idle EXCEPT !.pc = "assess_basis", !.due = d] \in Call
    BY IdleType DEF Call
  <2>2. call' \in [Sessions -> Call]
    BY <1>1, <2>1 DEF TypeOK, AssessDue
  <2>3. due' \in [Dues -> DueRow]
    BY <1>1 DEF TypeOK, AssessDue, DueRow, DueStatus, Correctable
  <2> QED BY <1>1, <2>2, <2>3 DEF TypeOK, AssessDue
<1>2. ASSUME NEW s \in Sessions, AssessBasis(s)
      PROVE  TypeOK'
  BY <1>2, ReturnType DEF TypeOK, AssessBasis, DueRow
<1>3. ASSUME NEW d \in Dues, NEW a \in Amounts, NEW r \in ReceiptIds, UploadReceipt(d, a, r)
      PROVE  TypeOK'
  BY <1>3 DEF TypeOK, UploadReceipt, ReceiptRow
<1>4. ASSUME NEW s \in Sessions, NEW d \in Dues, NEW a \in Amounts, NEW r \in ReceiptIds,
             RecordLock(s, d, a, r)
      PROVE  TypeOK'
  <2>1. due[d].amount \in Amounts
    BY DEF TypeOK, DueRow
  <2>2. [Idle EXCEPT !.pc = "record_sum", !.due = d, !.receipt = r, !.amount = a,
                     !.seen = due[d].amount] \in Call
    BY <2>1, IdleType DEF Call, PaymentPc
  <2>3. call' \in [Sessions -> Call]
    BY <1>4, <2>2 DEF TypeOK, RecordLock
  <2> QED BY <1>4, <2>3 DEF TypeOK, RecordLock
<1>5. ASSUME NEW s \in Sessions, NEW from \in PaymentPc, NEW to \in PaymentPc,
             SumReceipts(s, from, to)
      PROVE  TypeOK'
  <2>1. PaidTotal(call[s].due) \in Int
    BY <1>5, PaidTotalNat DEF SumReceipts, CallsHaveDues, PaymentPc
  <2> DEFINE c == [call[s] EXCEPT !.pc = to, !.paid = PaidTotal(call[s].due)]
  <2>a. c \in Call
    BY <2>1 DEF TypeOK, Call
  <2>b. call' = [call EXCEPT ![s] = c] \/ Return(s)
    BY <1>5 DEF SumReceipts
  <2>2. call' \in [Sessions -> Call]
    BY <2>a, <2>b, ReturnType DEF TypeOK
  <2> QED BY <1>5, <2>2, ReleaseType DEF TypeOK, SumReceipts
<1>6. ASSUME NEW s \in Sessions, RecordCommit(s)
      PROVE  TypeOK'
  <2>1. CommitPayment(s)
    BY <1>6 DEF RecordCommit
  <2>2. receipt' \in [ReceiptIds -> ReceiptRow]
    BY <1>6 DEF TypeOK, RecordCommit, ReceiptRow, Call
  <2>3. call[s].receipt \in ReceiptIds
    BY <1>6 DEF CallsHaveDues, PaymentPc, RecordCommit
  <2> QED BY <2>1, <2>2, <2>3, CommitType
<1>7. ASSUME NEW s \in Sessions, NEW r \in ReceiptIds, ConfirmLockReceipt(s, r)
      PROVE  TypeOK'
  <2>1. receipt[r].due \in Dues \cup {Nobody} /\ receipt[r].amount \in Amounts
    BY DEF TypeOK, ReceiptRow
  <2>2. [Idle EXCEPT !.pc = "confirm_lock_due", !.due = receipt[r].due, !.receipt = r,
                     !.amount = receipt[r].amount] \in Call
    BY <2>1, IdleType DEF Call, PaymentPc
  <2>3. call' \in [Sessions -> Call]
    BY <1>7, <2>2 DEF TypeOK, ConfirmLockReceipt
  <2> QED BY <1>7, <2>3 DEF TypeOK, ConfirmLockReceipt
<1>8. ASSUME NEW s \in Sessions, ConfirmLockDue(s)
      PROVE  TypeOK'
  <2>1. call[s].due \in Dues
    BY <1>8 DEF ConfirmLockDue, CallsHaveDues
  <2> DEFINE c == [call[s] EXCEPT !.pc = "confirm_sum", !.seen = due[call[s].due].amount]
  <2>2. c \in Call
    BY <2>1, ZenonT(20) DEF TypeOK, DueRow, Call, PaymentPc
  <2>3. call' = [call EXCEPT ![s] = c]
    BY <1>8 DEF ConfirmLockDue
  <2>4. call' \in [Sessions -> Call]
    BY <2>2, <2>3 DEF TypeOK
  <2> QED BY <1>8, <2>4 DEF TypeOK, ConfirmLockDue
<1>9. ASSUME NEW s \in Sessions, ConfirmCommit(s)
      PROVE  TypeOK'
  <2>1. CommitPayment(s)
    BY <1>9 DEF ConfirmCommit
  <2>2. receipt' \in [ReceiptIds -> ReceiptRow]
    BY <1>9 DEF TypeOK, ConfirmCommit, ReceiptRow
  <2>3. call[s].receipt \in ReceiptIds
    BY <1>9 DEF CallsHaveDues, PaymentPc, ConfirmCommit
  <2> QED BY <2>1, <2>2, <2>3, CommitType
<1>10. ASSUME NEW s \in Sessions, Crash(s)
       PROVE  TypeOK'
  BY <1>10, ReturnType, ReleaseType DEF TypeOK, Crash
<1>11. ASSUME NEW s \in Sessions, NEW d \in Dues, NEW n \in Amounts, CorrectFind(s, d, n)
       PROVE  TypeOK'
  <2>1. due[d].amount \in Amounts
    BY DEF TypeOK, DueRow
  <2>2. [Idle EXCEPT !.pc = "log", !.due = d, !.amount = n, !.seen = due[d].amount] \in Call
    BY <2>1, IdleType DEF Call, CorrectionPc
  <2>3. call' \in [Sessions -> Call]
    BY <1>11, <2>2 DEF TypeOK, CorrectFind
  <2> QED BY <1>11, <2>3 DEF TypeOK, CorrectFind
<1>12. ASSUME NEW s \in Sessions, LogCorrection(s)
       PROVE  TypeOK'
  <2>1. [prior |-> call[s].seen, new |-> call[s].amount] \in CorrectionRow
    BY DEF TypeOK, Call, CorrectionRow
  <2>2. corrections' \in [Dues -> Seq(CorrectionRow)]
    <3>1. \A q \in Seq(CorrectionRow) :
              Append(q, [prior |-> call[s].seen, new |-> call[s].amount]) \in Seq(CorrectionRow)
      BY <2>1
    <3> QED BY <1>12, <3>1 DEF TypeOK, LogCorrection
  <2>3. call' \in [Sessions -> Call]
    BY <1>12, GotoType DEF LogCorrection, CorrectionPc
  <2> QED BY <1>12, <2>2, <2>3 DEF TypeOK, LogCorrection
<1>13. ASSUME NEW s \in Sessions, UpdateAmount(s)
       PROVE  TypeOK'
  <2>1. call' \in [Sessions -> Call]
    BY <1>13, ReturnType, GotoType DEF UpdateAmount, CancelPc
  <2> QED BY <1>13, <2>1, ZenonT(20) DEF TypeOK, UpdateAmount, DueRow, Call
<1>14. ASSUME NEW s \in Sessions, NEW d \in Dues, CancelFind(s, d)
       PROVE  TypeOK'
  <2>1. due[d].amount \in Amounts
    BY DEF TypeOK, DueRow
  <2>2. [Idle EXCEPT !.pc = "cancel_receipts", !.due = d, !.amount = due[d].amount,
                     !.cancelling = TRUE] \in Call
    BY <2>1, IdleType DEF Call, CancelPc
  <2>3. call' \in [Sessions -> Call]
    BY <1>14, <2>2 DEF TypeOK, CancelFind
  <2> QED BY <1>14, <2>3 DEF TypeOK, CancelFind
<1>15. ASSUME NEW s \in Sessions, CancelReceipts(s)
       PROVE  TypeOK'
  <2>1. call' \in [Sessions -> Call]
    BY <1>15, ReturnType, GotoType DEF CancelReceipts, CancelPc
  <2> QED BY <1>15, <2>1 DEF TypeOK, CancelReceipts
<1>16. ASSUME NEW s \in Sessions, CancelCorrectFind(s)
       PROVE  TypeOK'
  <2>1. call[s].due \in Dues
    BY <1>16 DEF CancelCorrectFind, CallsHaveDues
  <2> DEFINE c == [call[s] EXCEPT !.pc = "log", !.seen = due[call[s].due].amount]
  <2>a. c \in Call
    BY <2>1 DEF TypeOK, DueRow, Call, CorrectionPc
  <2>b. call' = [call EXCEPT ![s] = c] \/ Return(s)
    BY <1>16 DEF CancelCorrectFind
  <2>2. call' \in [Sessions -> Call]
    BY <2>a, <2>b, ReturnType DEF TypeOK
  <2> QED BY <1>16, <2>2 DEF TypeOK, CancelCorrectFind
<1>17. ASSUME NEW s \in Sessions, CancelMark(s)
       PROVE  TypeOK'
  BY <1>17, ReturnType DEF TypeOK, CancelMark, DueRow, DueStatus
<1>18. ASSUME UNCHANGED vars
       PROVE  TypeOK'
  BY <1>18 DEF TypeOK, vars
<1> QED BY <1>1, <1>2, <1>3, <1>4, <1>5, <1>6, <1>7, <1>8, <1>9, <1>10, <1>11,
           <1>12, <1>13, <1>14, <1>15, <1>16, <1>17, <1>18
        DEF Next, PaymentNext, CorrectionNext, RecordSum, ConfirmSum, PaymentPc

-----------------------------------------------------------------------------
(* A call outside the payment transactions touches one session, no receipt *)
(* and no lock, removes no due and alters no amount under a lock.          *)
OutsideStep(s) ==
    /\ call[s].pc \notin PaymentPc
    /\ call' \in [Sessions -> Call]
    /\ call'[s].pc \notin PaymentPc
    /\ call'[s].receipt \in {0, call[s].receipt}
    /\ call'[s].pc # "idle" => call'[s].due \in Dues /\ Exists(call[s].due)'
    /\ \A t \in Sessions : t # s => call'[t] = call[t]
    /\ UNCHANGED <<receipt, confirmations, dueLock, receiptLock>>
    /\ \A d \in Dues : Exists(d) =>
           /\ Exists(d)'
           /\ dueLock[d] # Nobody => due'[d].amount = due[d].amount

OutsideAction(s) ==
    \/ \E d \in Dues, a \in Amounts : AssessDue(s, d, a) \/ CorrectFind(s, d, a)
    \/ \E d \in Dues : CancelFind(s, d)
    \/ AssessBasis(s) \/ LogCorrection(s) \/ UpdateAmount(s)
    \/ CancelReceipts(s) \/ CancelCorrectFind(s) \/ CancelMark(s)

(* A transaction rolled back: by a check that fails, or by a lost process. *)
RollBack(s) ==
    /\ Return(s)
    /\ ReleaseLocks(s)
    /\ UNCHANGED tables

(* A transaction passes its check of the remainder. *)
PassSum(s, to) ==
    /\ call[s].amount <= call[s].seen - PaidTotal(call[s].due)
    /\ call' = [call EXCEPT ![s].pc = to, ![s].paid = PaidTotal(call[s].due)]
    /\ UNCHANGED <<tables, locks>>

LEMMA OutsideShape ==
    ASSUME TypeOK, TypeOK', CallsHaveDues, NEW s \in Sessions, OutsideAction(s)
    PROVE  OutsideStep(s)
<1> USE DEF OutsideStep, Exists, PaymentPc
<1>0. /\ call' \in [Sessions -> Call]
      /\ call[s].pc # "idle" => call[s].due \in Dues /\ Exists(call[s].due)
  BY DEF TypeOK, CallsHaveDues
<1>1. ASSUME NEW d \in Dues, NEW a \in Amounts, AssessDue(s, d, a) PROVE OutsideStep(s)
  BY <1>0, <1>1 DEF TypeOK, AssessDue, locks, Idle
<1>2. ASSUME NEW d \in Dues, NEW n \in Amounts, CorrectFind(s, d, n) PROVE OutsideStep(s)
  BY <1>0, <1>2 DEF TypeOK, CorrectFind, Correctable, tables, locks, Idle
<1>3. ASSUME NEW d \in Dues, CancelFind(s, d) PROVE OutsideStep(s)
  BY <1>0, <1>3 DEF TypeOK, CancelFind, tables, locks, Idle
<1>4. ASSUME AssessBasis(s) PROVE OutsideStep(s)
  <2>1. call'[s] = Idle /\ \A t \in Sessions : t # s => call'[t] = call[t]
    BY <1>4 DEF TypeOK, AssessBasis, Return
  <2>2. \A d \in Dues : due'[d].status = due[d].status /\ due'[d].amount = due[d].amount
    BY <1>0, <1>4 DEF TypeOK, AssessBasis, DueRow
  <2> QED BY <1>0, <1>4, <2>1, <2>2 DEF AssessBasis, Idle, locks
<1>5. ASSUME LogCorrection(s) PROVE OutsideStep(s)
  BY <1>0, <1>5 DEF TypeOK, LogCorrection, Goto, locks
<1>6. ASSUME UpdateAmount(s) PROVE OutsideStep(s)
  <2>1. CASE Goto(s, "cancel_mark")
    BY <1>0, <1>6, <2>1 DEF TypeOK, UpdateAmount, Goto, NotLocked, locks, DueRow
  <2>2. CASE Return(s)
    BY <1>0, <1>6, <2>2 DEF TypeOK, UpdateAmount, Return, Idle, NotLocked, locks, DueRow
  <2> QED BY <1>6, <2>1, <2>2 DEF UpdateAmount
<1>7. ASSUME CancelReceipts(s) PROVE OutsideStep(s)
  <2>1. CASE Goto(s, "cancel_find")
    BY <1>0, <1>7, <2>1 DEF TypeOK, CancelReceipts, Goto, tables, locks
  <2>2. CASE Return(s)
    BY <1>0, <1>7, <2>2 DEF TypeOK, CancelReceipts, Return, Idle, tables, locks
  <2> QED BY <1>7, <2>1, <2>2 DEF CancelReceipts
<1>8. ASSUME CancelCorrectFind(s) PROVE OutsideStep(s)
  <2>1. CASE call' = [call EXCEPT ![s].pc = "log", ![s].seen = due[call[s].due].amount]
    BY <1>0, <1>8, <2>1 DEF TypeOK, CancelCorrectFind, tables, locks
  <2>2. CASE Return(s)
    BY <1>0, <1>8, <2>2 DEF TypeOK, CancelCorrectFind, Return, Idle, tables, locks
  <2> QED BY <1>8, <2>1, <2>2 DEF CancelCorrectFind
<1>9. ASSUME CancelMark(s) PROVE OutsideStep(s)
  BY <1>0, <1>9 DEF TypeOK, CancelMark, Return, Idle, NotLocked, locks, DueRow
<1> QED BY <1>1, <1>2, <1>3, <1>4, <1>5, <1>6, <1>7, <1>8, <1>9 DEF OutsideAction

(* Every step is one of these. *)
LEMMA StepKinds ==
    ASSUME [Next]_vars
    PROVE  \/ \E s \in Sessions : OutsideAction(s)
           \/ \E d \in Dues, a \in Amounts, r \in ReceiptIds : UploadReceipt(d, a, r)
           \/ \E s \in Sessions : RollBack(s)
           \/ \E s \in Sessions, d \in Dues, a \in Amounts, r \in ReceiptIds :
                  RecordLock(s, d, a, r)
           \/ \E s \in Sessions : call[s].pc = "record_sum" /\ PassSum(s, "record_commit")
           \/ \E s \in Sessions : RecordCommit(s)
           \/ \E s \in Sessions, r \in ReceiptIds : ConfirmLockReceipt(s, r)
           \/ \E s \in Sessions : ConfirmLockDue(s)
           \/ \E s \in Sessions : call[s].pc = "confirm_sum" /\ PassSum(s, "confirm_commit")
           \/ \E s \in Sessions : ConfirmCommit(s)
           \/ UNCHANGED vars
<1>1. ASSUME NEW s \in Sessions, RecordSum(s)
      PROVE  RollBack(s) \/ (call[s].pc = "record_sum" /\ PassSum(s, "record_commit"))
  BY <1>1 DEF RecordSum, SumReceipts, RollBack, PassSum, tables, locks
<1>2. ASSUME NEW s \in Sessions, ConfirmSum(s)
      PROVE  RollBack(s) \/ (call[s].pc = "confirm_sum" /\ PassSum(s, "confirm_commit"))
  BY <1>2 DEF ConfirmSum, SumReceipts, RollBack, PassSum, tables, locks
<1>3. ASSUME NEW s \in Sessions, Crash(s)
      PROVE  RollBack(s)
  BY <1>3 DEF Crash, RollBack, tables
<1>4. CASE PaymentNext
  BY <1>1, <1>2, <1>3, <1>4, Zenon DEF PaymentNext, OutsideAction
<1>5. CASE CorrectionNext
  BY <1>5, Zenon DEF CorrectionNext, OutsideAction
<1> QED BY <1>4, <1>5, Zenon DEF Next

-----------------------------------------------------------------------------
(* A commit writes one due, keeps every amount and frees what was locked. *)
CommitStep(s) ==
    /\ call' = [call EXCEPT ![s] = Idle]
    /\ dueLock' = [d \in Dues |-> IF dueLock[d] = s THEN Nobody ELSE dueLock[d]]
    /\ receiptLock' = [r \in ReceiptIds |->
                          IF receiptLock[r] = s THEN Nobody ELSE receiptLock[r]]
    /\ call[s].due \in Dues /\ Exists(call[s].due) /\ call[s].receipt \in ReceiptIds
    /\ \A d \in Dues : due'[d].amount = due[d].amount
    /\ \A d \in Dues : d # call[s].due => due'[d] = due[d]
    /\ due'[call[s].due].status = NextStatus(call[s].paid + call[s].amount, call[s].seen)
    /\ \A d \in Dues : Exists(d) => Exists(d)'

LEMMA CommitShape ==
    ASSUME TypeOK, CallsHaveDues, NEW s \in Sessions,
           RecordCommit(s) \/ ConfirmCommit(s)
    PROVE  CommitStep(s)
<1>0. call[s].pc \in {"record_commit", "confirm_commit"} /\ CommitPayment(s)
  BY DEF RecordCommit, ConfirmCommit
<1>1. call[s].due \in Dues /\ Exists(call[s].due) /\ call[s].receipt \in ReceiptIds
  BY <1>0 DEF CallsHaveDues, PaymentPc
<1>2. NextStatus(call[s].paid + call[s].amount, call[s].seen) # "absent"
  BY DEF NextStatus
<1> QED BY <1>0, <1>1, <1>2
        DEF TypeOK, DueRow, CommitPayment, CommitStep, Return, ReleaseLocks, Exists

LEMMA CallsHaveDuesStep ==
    ASSUME TypeOK, TypeOK', CallsHaveDues, ReceiptsBelong, [Next]_vars
    PROVE  CallsHaveDues'
<1> USE DEF CallsHaveDues, Exists, PaymentPc
<1>1. ASSUME NEW s \in Sessions, OutsideAction(s) PROVE CallsHaveDues'
  <2>1. OutsideStep(s)
    BY <1>1, OutsideShape
  <2> QED BY <2>1 DEF OutsideStep
<1>2. ASSUME NEW d \in Dues, NEW a \in Amounts, NEW r \in ReceiptIds, UploadReceipt(d, a, r)
      PROVE  CallsHaveDues'
  BY <1>2 DEF UploadReceipt
<1>3. ASSUME NEW s \in Sessions, RollBack(s) PROVE CallsHaveDues'
  BY <1>3 DEF TypeOK, RollBack, Return, Idle, tables
<1>4. ASSUME NEW s \in Sessions, NEW d \in Dues, NEW a \in Amounts, NEW r \in ReceiptIds,
             RecordLock(s, d, a, r)
      PROVE  CallsHaveDues'
  BY <1>4 DEF TypeOK, RecordLock, Idle, Correctable, tables
<1>5. ASSUME NEW s \in Sessions, NEW to \in PaymentPc, call[s].pc \in PaymentPc, PassSum(s, to)
      PROVE  CallsHaveDues'
  BY <1>5 DEF TypeOK, PassSum, tables
<1>6. ASSUME NEW s \in Sessions, RecordCommit(s) PROVE CallsHaveDues'
  <2>1. CommitStep(s)
    BY <1>6, CommitShape
  <2> QED BY <2>1 DEF CommitStep, TypeOK, Idle
<1>7. ASSUME NEW s \in Sessions, NEW r \in ReceiptIds, ConfirmLockReceipt(s, r)
      PROVE  CallsHaveDues'
  <2>1. receipt[r].due \in Dues /\ Exists(receipt[r].due) /\ receipt[r].amount > 0
    BY <1>7 DEF ConfirmLockReceipt, ReceiptsBelong
  <2> QED BY <1>7, <2>1 DEF TypeOK, ConfirmLockReceipt, Idle, tables
<1>8. ASSUME NEW s \in Sessions, ConfirmLockDue(s) PROVE CallsHaveDues'
  BY <1>8 DEF TypeOK, ConfirmLockDue, tables
<1>9. ASSUME NEW s \in Sessions, ConfirmCommit(s) PROVE CallsHaveDues'
  <2>1. CommitStep(s)
    BY <1>9, CommitShape
  <2> QED BY <2>1 DEF CommitStep, TypeOK, Idle
<1>10. CASE UNCHANGED vars
  BY <1>10 DEF vars
<1> QED BY StepKinds, <1>1, <1>2, <1>3, <1>4, <1>5, <1>6, <1>7, <1>8, <1>9, <1>10

LEMMA LocksHeldStep ==
    ASSUME TypeOK, TypeOK', CallsHaveDues, LocksHeld, [Next]_vars
    PROVE  LocksHeld'
<1> USE LedgerAssumption DEF LocksHeld, PaymentPc, ConfirmingPc, CallsHaveDues
<1>1. ASSUME NEW s \in Sessions, OutsideAction(s) PROVE LocksHeld'
  <2>1. OutsideStep(s)
    BY <1>1, OutsideShape
  <2> QED BY <2>1 DEF OutsideStep
<1>2. ASSUME NEW d \in Dues, NEW a \in Amounts, NEW r \in ReceiptIds, UploadReceipt(d, a, r)
      PROVE  LocksHeld'
  BY <1>2 DEF UploadReceipt, locks
<1>3. ASSUME NEW s \in Sessions, RollBack(s) PROVE LocksHeld'
  BY <1>3 DEF TypeOK, RollBack, Return, Idle, ReleaseLocks
<1>4. ASSUME NEW s \in Sessions, NEW d \in Dues, NEW a \in Amounts, NEW r \in ReceiptIds,
             RecordLock(s, d, a, r)
      PROVE  LocksHeld'
  BY <1>4 DEF TypeOK, RecordLock, NotLocked, Idle
<1>5. ASSUME NEW s \in Sessions, call[s].pc = "record_sum", PassSum(s, "record_commit")
      PROVE  LocksHeld'
  BY <1>5 DEF TypeOK, PassSum, locks
<1>6. ASSUME NEW s \in Sessions, call[s].pc = "confirm_sum", PassSum(s, "confirm_commit")
      PROVE  LocksHeld'
  BY <1>6 DEF TypeOK, PassSum, locks
<1>7. ASSUME NEW s \in Sessions, RecordCommit(s) PROVE LocksHeld'
  <2>1. CommitStep(s)
    BY <1>7, CommitShape
  <2> QED BY <2>1 DEF CommitStep, TypeOK, Idle
<1>8. ASSUME NEW s \in Sessions, NEW r \in ReceiptIds, ConfirmLockReceipt(s, r)
      PROVE  LocksHeld'
  BY <1>8 DEF TypeOK, ConfirmLockReceipt, Idle
<1>9. ASSUME NEW s \in Sessions, ConfirmLockDue(s) PROVE LocksHeld'
  BY <1>9 DEF TypeOK, ConfirmLockDue, NotLocked
<1>10. ASSUME NEW s \in Sessions, ConfirmCommit(s) PROVE LocksHeld'
  <2>1. CommitStep(s)
    BY <1>10, CommitShape
  <2> QED BY <2>1 DEF CommitStep, TypeOK, Idle
<1>11. CASE UNCHANGED vars
  BY <1>11 DEF vars
<1> QED BY StepKinds, <1>1, <1>2, <1>3, <1>4, <1>5, <1>6, <1>7, <1>8, <1>9, <1>10, <1>11

LEMMA ReceiptsReservedStep ==
    ASSUME TypeOK, TypeOK', CallsHaveDues, ReceiptsReserved, [Next]_vars
    PROVE  ReceiptsReserved'
<1> USE LedgerAssumption DEF ReceiptsReserved, RecordingPc, PaymentPc, CallsHaveDues, ReceiptIds
<1>1. ASSUME NEW s \in Sessions, OutsideAction(s) PROVE ReceiptsReserved'
  <2>1. OutsideStep(s)
    BY <1>1, OutsideShape
  <2> QED BY <2>1 DEF OutsideStep
<1>2. ASSUME NEW d \in Dues, NEW a \in Amounts, NEW r \in ReceiptIds, UploadReceipt(d, a, r)
      PROVE  ReceiptsReserved'
  BY <1>2 DEF TypeOK, UploadReceipt, FreshReceipt
<1>3. ASSUME NEW s \in Sessions, RollBack(s) PROVE ReceiptsReserved'
  BY <1>3 DEF TypeOK, RollBack, Return, Idle, tables
<1>4. ASSUME NEW s \in Sessions, NEW d \in Dues, NEW a \in Amounts, NEW r \in ReceiptIds,
             RecordLock(s, d, a, r)
      PROVE  ReceiptsReserved'
  BY <1>4 DEF TypeOK, RecordLock, Idle, tables, FreshReceipt
<1>5. ASSUME NEW s \in Sessions, call[s].pc = "record_sum", PassSum(s, "record_commit")
      PROVE  ReceiptsReserved'
  BY <1>5 DEF TypeOK, PassSum, tables
<1>6. ASSUME NEW s \in Sessions, call[s].pc = "confirm_sum", PassSum(s, "confirm_commit")
      PROVE  ReceiptsReserved'
  BY <1>6 DEF TypeOK, PassSum, tables
<1>7. ASSUME NEW s \in Sessions, RecordCommit(s) PROVE ReceiptsReserved'
  <2>1. CommitStep(s)
    BY <1>7, CommitShape
  <2> QED BY <1>7, <2>1 DEF CommitStep, TypeOK, Idle, RecordCommit
<1>8. ASSUME NEW s \in Sessions, NEW r \in ReceiptIds, ConfirmLockReceipt(s, r)
      PROVE  ReceiptsReserved'
  BY <1>8 DEF TypeOK, ConfirmLockReceipt, Idle, tables, FreshReceipt
<1>9. ASSUME NEW s \in Sessions, ConfirmLockDue(s) PROVE ReceiptsReserved'
  BY <1>9 DEF TypeOK, ConfirmLockDue, tables, FreshReceipt
<1>10. ASSUME NEW s \in Sessions, ConfirmCommit(s) PROVE ReceiptsReserved'
  <2>1. CommitStep(s)
    BY <1>10, CommitShape
  <2> QED BY <1>10, <2>1 DEF CommitStep, TypeOK, Idle, ConfirmCommit
<1>11. CASE UNCHANGED vars
  BY <1>11 DEF vars
<1> QED BY StepKinds, <1>1, <1>2, <1>3, <1>4, <1>5, <1>6, <1>7, <1>8, <1>9, <1>10, <1>11

LEMMA ReceiptsBelongStep ==
    ASSUME TypeOK, TypeOK', CallsHaveDues, ReceiptsBelong, ReadsStillHold,
           [Next]_vars
    PROVE  ReceiptsBelong'
<1> USE DEF ReceiptsBelong, CallsHaveDues, PaymentPc, Exists
<1>1. ASSUME NEW s \in Sessions, OutsideAction(s) PROVE ReceiptsBelong'
  <2>1. OutsideStep(s)
    BY <1>1, OutsideShape
  <2> QED BY <2>1 DEF OutsideStep
<1>2. ASSUME NEW d \in Dues, NEW a \in Amounts, NEW r \in ReceiptIds, UploadReceipt(d, a, r)
      PROVE  ReceiptsBelong'
  BY <1>2 DEF TypeOK, UploadReceipt
<1>3. ASSUME NEW s \in Sessions, RollBack(s) PROVE ReceiptsBelong'
  BY <1>3 DEF TypeOK, RollBack, Return, Idle, tables
<1>4. ASSUME NEW s \in Sessions, NEW d \in Dues, NEW a \in Amounts, NEW r \in ReceiptIds,
             RecordLock(s, d, a, r)
      PROVE  ReceiptsBelong'
  BY <1>4 DEF TypeOK, RecordLock, Idle, tables
<1>5. ASSUME NEW s \in Sessions, call[s].pc = "record_sum", PassSum(s, "record_commit")
      PROVE  ReceiptsBelong'
  BY <1>5 DEF TypeOK, PassSum, tables
<1>6. ASSUME NEW s \in Sessions, call[s].pc = "confirm_sum", PassSum(s, "confirm_commit")
      PROVE  ReceiptsBelong'
  BY <1>6 DEF TypeOK, PassSum, tables
<1>7. ASSUME NEW s \in Sessions, RecordCommit(s) PROVE ReceiptsBelong'
  <2>1. CommitStep(s)
    BY <1>7, CommitShape
  <2> QED BY <1>7, <2>1 DEF CommitStep, TypeOK, Idle, RecordCommit
<1>8. ASSUME NEW s \in Sessions, NEW r \in ReceiptIds, ConfirmLockReceipt(s, r)
      PROVE  ReceiptsBelong'
  BY <1>8 DEF TypeOK, ConfirmLockReceipt, Idle, tables
<1>9. ASSUME NEW s \in Sessions, ConfirmLockDue(s) PROVE ReceiptsBelong'
  BY <1>9 DEF TypeOK, ConfirmLockDue, tables
<1>10. ASSUME NEW s \in Sessions, ConfirmCommit(s) PROVE ReceiptsBelong'
  <2>1. CommitStep(s)
    BY <1>10, CommitShape
  <2>2. receipt[call[s].receipt] = [status |-> "uploaded", due |-> call[s].due,
                                    amount |-> call[s].amount]
    BY <1>10 DEF ReadsStillHold, ConfirmCommit
  <2> QED BY <1>10, <2>1, <2>2 DEF CommitStep, TypeOK, Idle, ConfirmCommit
<1>11. CASE UNCHANGED vars
  BY <1>11 DEF vars
<1> QED BY StepKinds, <1>1, <1>2, <1>3, <1>4, <1>5, <1>6, <1>7, <1>8, <1>9, <1>10, <1>11

LEMMA CorrectionAnnouncedStep ==
    ASSUME TypeOK, TypeOK', CallsHaveDues, CorrectionAnnounced, [Next]_vars
    PROVE  CorrectionAnnounced'
<1> USE DEF CorrectionAnnounced
<1>1. ASSUME NEW s \in Sessions, LogCorrection(s) PROVE CorrectionAnnounced'
  <2> DEFINE d == call[s].due
             row == [prior |-> call[s].seen, new |-> call[s].amount]
  <2>1. d \in Dues /\ row \in CorrectionRow /\ corrections[d] \in Seq(CorrectionRow)
    BY <1>1 DEF LogCorrection, CallsHaveDues, TypeOK, Call, CorrectionRow
  <2>2. corrections' = [corrections EXCEPT ![d] = Append(corrections[d], row)]
    BY <1>1 DEF LogCorrection
  <2>3. /\ corrections'[d] = Append(corrections[d], row)
        /\ \A e \in Dues : e # d => corrections'[e] = corrections[e]
    BY <2>1, <2>2 DEF TypeOK
  <2>4. /\ Len(corrections'[d]) = Len(corrections[d]) + 1
        /\ corrections'[d][Len(corrections[d]) + 1] = row
        /\ \A i \in 1..Len(corrections[d]) : corrections'[d][i] = corrections[d][i]
        /\ Len(corrections[d]) \in Nat
    <3> HIDE DEF d, row
    <3> QED BY <2>1, <2>3
  <2>5. /\ call'[s].due = d /\ call'[s].amount = row.new
        /\ \A t \in Sessions : t # s => call'[t] = call[t]
    BY <1>1 DEF LogCorrection, Goto, TypeOK, Call
  <2>6. ASSUME NEW t \in Sessions, call'[t].pc = "update"
        PROVE  \E i \in 1..Len(corrections'[call'[t].due]) :
                   corrections'[call'[t].due][i].new = call'[t].amount
    <3>1. CASE t = s
      <4>1. Len(corrections[d]) + 1 \in 1..Len(corrections'[call'[t].due])
        BY <2>4, <2>5, <3>1
      <4> QED BY <2>4, <2>5, <3>1, <4>1
    <3>2. CASE t # s
      <4>1. PICK i \in 1..Len(corrections[call[t].due]) :
                corrections[call[t].due][i].new = call[t].amount
        BY <2>5, <2>6, <3>2
      <4>2. call[t].due \in Dues
        BY <2>5, <2>6, <3>2 DEF CallsHaveDues
      <4>3. i \in 1..Len(corrections'[call[t].due])
            /\ corrections'[call[t].due][i].new = call[t].amount
        <5>1. CASE call[t].due = d
          BY <2>4, <4>1, <5>1
        <5>2. CASE call[t].due # d
          BY <2>3, <4>1, <4>2, <5>2
        <5> QED BY <5>1, <5>2
      <4> QED BY <2>5, <3>2, <4>3
    <3> QED BY <3>1, <3>2
  <2> QED BY <2>6
<1>2. ASSUME \A t \in Sessions : call'[t].pc = "update" => call'[t] = call[t],
             UNCHANGED corrections
      PROVE  CorrectionAnnounced'
  BY <1>2
<1>3. ASSUME NEW s \in Sessions, OutsideAction(s) PROVE CorrectionAnnounced'
  <2>1. CASE LogCorrection(s)
    BY <1>1, <2>1
  <2>2. CASE ~LogCorrection(s)
    <3>1. UNCHANGED corrections
      BY <1>3, <2>2 DEF OutsideAction, AssessDue, CorrectFind, CancelFind, AssessBasis,
         UpdateAmount, CancelReceipts, CancelCorrectFind, CancelMark, tables
    <3>2. \A t \in Sessions : t # s => call'[t] = call[t]
      BY <1>3, OutsideShape DEF OutsideStep
    <3>3. call'[s].pc # "update"
      <4>1. CASE Return(s)
        BY <4>1 DEF TypeOK, Return, Idle
      <4>2. CASE Goto(s, "cancel_find") \/ Goto(s, "cancel_mark")
        BY <4>2 DEF TypeOK, Call, Goto
      <4>3. ASSUME NEW d \in Dues, NEW a \in Amounts,
                   AssessDue(s, d, a) \/ CorrectFind(s, d, a) \/ CancelFind(s, d)
            PROVE  call'[s].pc # "update"
        <5>1. CASE AssessDue(s, d, a)
          BY <5>1 DEF AssessDue, TypeOK, Idle
        <5>2. CASE CorrectFind(s, d, a)
          BY <5>2 DEF CorrectFind, TypeOK, Idle
        <5>3. CASE CancelFind(s, d)
          BY <5>3 DEF CancelFind, TypeOK, Idle
        <5> QED BY <4>3, <5>1, <5>2, <5>3
      <4>4. CASE CancelCorrectFind(s) /\ ~Return(s)
        BY <4>4 DEF CancelCorrectFind, TypeOK, Call
      <4>5. 0 \in Amounts
        BY LedgerAssumption DEF Amounts
      <4> QED BY <1>3, <2>2, <4>1, <4>2, <4>3, <4>4, <4>5
              DEF OutsideAction, AssessBasis, UpdateAmount, CancelReceipts, CancelMark
    <3> QED BY <1>2, <3>1, <3>2, <3>3
  <2> QED BY <2>1, <2>2
<1>4. ASSUME NEW d \in Dues, NEW a \in Amounts, NEW r \in ReceiptIds, UploadReceipt(d, a, r)
      PROVE  CorrectionAnnounced'
  BY <1>2, <1>4 DEF UploadReceipt
<1>5. ASSUME NEW s \in Sessions, UNCHANGED corrections, call'[s].pc # "update",
             \A t \in Sessions : t # s => call'[t] = call[t]
      PROVE  CorrectionAnnounced'
  BY <1>2, <1>5
<1>6. ASSUME NEW s \in Sessions, RollBack(s) PROVE CorrectionAnnounced'
  BY <1>5, <1>6 DEF TypeOK, RollBack, Return, Idle, tables
<1>7. ASSUME NEW s \in Sessions, NEW d \in Dues, NEW a \in Amounts, NEW r \in ReceiptIds,
             RecordLock(s, d, a, r)
      PROVE  CorrectionAnnounced'
  BY <1>5, <1>7 DEF TypeOK, RecordLock, Idle, tables
<1>8. ASSUME NEW s \in Sessions, NEW to \in PaymentPc, PassSum(s, to)
      PROVE  CorrectionAnnounced'
  BY <1>5, <1>8 DEF TypeOK, Call, PassSum, PaymentPc, tables
<1>9. ASSUME NEW s \in Sessions, RecordCommit(s) \/ ConfirmCommit(s)
      PROVE  CorrectionAnnounced'
  <2>1. call' = [call EXCEPT ![s] = Idle]
    BY <1>9, CommitShape DEF CommitStep
  <2>2. UNCHANGED corrections
    BY <1>9 DEF RecordCommit, ConfirmCommit, CommitPayment
  <2> QED BY <1>5, <2>1, <2>2 DEF TypeOK, Idle
<1>10. ASSUME NEW s \in Sessions, NEW r \in ReceiptIds, ConfirmLockReceipt(s, r)
       PROVE  CorrectionAnnounced'
  BY <1>5, <1>10 DEF TypeOK, ConfirmLockReceipt, Idle, tables
<1>11. ASSUME NEW s \in Sessions, ConfirmLockDue(s) PROVE CorrectionAnnounced'
  BY <1>5, <1>11 DEF TypeOK, Call, ConfirmLockDue, tables
<1>12. CASE UNCHANGED vars
  BY <1>2, <1>12 DEF vars
<1> QED BY StepKinds, <1>3, <1>4, <1>6, <1>7, <1>8, <1>9, <1>10, <1>11, <1>12 DEF PaymentPc

-----------------------------------------------------------------------------
(* The counted total of a due moves only when a receipt becomes verified. *)
LEMMA PaidTotalKept ==
    ASSUME NEW d \in Dues, Counted(d)' = Counted(d)
    PROVE  PaidTotal(d)' = PaidTotal(d)
BY DEF PaidTotal, Total

LEMMA PaidTotalUnchanged ==
    ASSUME NEW d \in Dues, UNCHANGED receipt
    PROVE  PaidTotal(d)' = PaidTotal(d)
<1>1. Counted(d)' = Counted(d)
  BY DEF Counted
<1> QED BY <1>1, PaidTotalKept

LEMMA PaidTotalUpload ==
    ASSUME TypeOK, NEW d \in Dues, NEW e \in Dues, NEW a \in Amounts, NEW r \in ReceiptIds,
           UploadReceipt(e, a, r)
    PROVE  PaidTotal(d)' = PaidTotal(d)
<1>1. Counted(d)' = Counted(d)
  BY DEF Counted, TypeOK, UploadReceipt, FreshReceipt
<1> QED BY <1>1, PaidTotalKept

LEMMA PaidTotalVerified ==
    ASSUME TypeOK, TypeOK', NEW d \in Dues, NEW r \in ReceiptIds,
           \A q \in ReceiptIds : q # r => receipt'[q] = receipt[q],
           receipt[r].status # "verified", receipt'[r].status = "verified"
    PROVE  PaidTotal(d)' = IF receipt'[r].due = d THEN PaidTotal(d) + receipt'[r].amount
                                                  ELSE PaidTotal(d)
<1> DEFINE f == Counted(d)
           h == [q \in ReceiptIds |-> IF receipt'[q].due = d /\ receipt'[q].status = "verified"
                                       THEN receipt'[q].amount ELSE 0]
<1>1. f \in [ReceiptIds -> Nat]
  BY CountedType
<1>2. h \in [ReceiptIds -> Nat]
  BY LedgerAssumption DEF TypeOK, ReceiptRow, Amounts
<1>3. \A q \in ReceiptIds : q # r => h[q] = f[q]
  BY DEF Counted
<1>4. f[r] = 0 /\ h[r] = IF receipt'[r].due = d THEN receipt'[r].amount ELSE 0
  BY DEF Counted
<1>5. PaidTotal(d) = Total(f) /\ PaidTotal(d)' = Total(h)
  BY DEF PaidTotal, Counted, Total
<1>6. receipt'[r].amount \in Nat
  BY LedgerAssumption DEF TypeOK, ReceiptRow, Amounts
<1> HIDE DEF f, h
<1>7. Total(h) - Total(f) = h[r] - f[r]
  BY <1>1, <1>2, <1>3, TotalMoves
<1>8. Total(h) \in Nat /\ Total(f) \in Nat
  BY <1>1, <1>2, TotalNat
<1> QED BY <1>4, <1>5, <1>6, <1>7, <1>8

(* What a committing call adds to each due. *)
LEMMA PaidTotalCommit ==
    ASSUME TypeOK, TypeOK', CallsHaveDues, ReceiptsReserved, ReadsStillHold, NEW s \in Sessions,
           RecordCommit(s) \/ ConfirmCommit(s), NEW d \in Dues
    PROVE  PaidTotal(d)' = IF call[s].due = d THEN PaidTotal(d) + call[s].amount
                                              ELSE PaidTotal(d)
<1> DEFINE r == call[s].receipt
<1>1. r \in ReceiptIds
  BY DEF CallsHaveDues, PaymentPc, RecordCommit, ConfirmCommit
<1>2. CASE RecordCommit(s)
  <2>1. receipt[r].status = "absent"
    BY <1>2 DEF RecordCommit, ReceiptsReserved, RecordingPc
  <2>2. /\ receipt'[r] = [status |-> "verified", due |-> call[s].due, amount |-> call[s].amount]
        /\ \A q \in ReceiptIds : q # r => receipt'[q] = receipt[q]
    BY <1>1, <1>2 DEF RecordCommit, TypeOK
  <2> QED BY <1>1, <2>1, <2>2, PaidTotalVerified
<1>3. CASE ConfirmCommit(s)
  <2>0. call[s].pc = "confirm_commit"
    BY <1>3 DEF ConfirmCommit
  <2>1. receipt[r] = [status |-> "uploaded", due |-> call[s].due, amount |-> call[s].amount]
    BY <2>0 DEF ReadsStillHold
  <2>2. /\ receipt'[r] = [receipt[r] EXCEPT !.status = "verified"]
        /\ \A q \in ReceiptIds : q # r => receipt'[q] = receipt[q]
    BY <1>1, <1>3 DEF ConfirmCommit, TypeOK
  <2>3. /\ receipt[r].status # "verified"
        /\ receipt'[r].status = "verified" /\ receipt'[r].due = call[s].due
        /\ receipt'[r].amount = call[s].amount
    BY <2>1, <2>2
  <2> QED BY <1>1, <2>2, <2>3, PaidTotalVerified
<1> QED BY <1>2, <1>3

LEMMA ConfirmedExactlyOnceStep ==
    ASSUME TypeOK, TypeOK', CallsHaveDues, ReceiptsReserved, ReadsStillHold,
           ConfirmedExactlyOnce, [Next]_vars
    PROVE  ConfirmedExactlyOnce'
<1> USE DEF ConfirmedExactlyOnce
<1>1. ASSUME NEW s \in Sessions, OutsideAction(s) PROVE ConfirmedExactlyOnce'
  BY <1>1, OutsideShape DEF OutsideStep
<1>2. ASSUME NEW d \in Dues, NEW a \in Amounts, NEW r \in ReceiptIds, UploadReceipt(d, a, r)
      PROVE  ConfirmedExactlyOnce'
  BY <1>2 DEF TypeOK, UploadReceipt, FreshReceipt
<1>3. CASE UNCHANGED <<receipt, confirmations>>
  BY <1>3
<1>4. ASSUME NEW s \in Sessions, RecordCommit(s) PROVE ConfirmedExactlyOnce'
  <2>1. call[s].receipt \in ReceiptIds /\ receipt[call[s].receipt].status = "absent"
    BY <1>4 DEF RecordCommit, ReceiptsReserved, RecordingPc, CallsHaveDues, PaymentPc
  <2> QED BY <1>4, <2>1 DEF TypeOK, RecordCommit, CommitPayment
<1>5. ASSUME NEW s \in Sessions, ConfirmCommit(s) PROVE ConfirmedExactlyOnce'
  <2>1. call[s].pc = "confirm_commit" /\ call[s].receipt \in ReceiptIds
    BY <1>5 DEF ConfirmCommit, CallsHaveDues, PaymentPc
  <2>2. receipt[call[s].receipt] = [status |-> "uploaded", due |-> call[s].due,
                                    amount |-> call[s].amount]
    BY <2>1 DEF ReadsStillHold
  <2>3. receipt[call[s].receipt].status = "uploaded"
    BY <2>2
  <2>4. receipt'[call[s].receipt].status = "verified"
    BY <1>5, <2>1 DEF TypeOK, ReceiptRow, ConfirmCommit
  <2> QED BY <1>5, <2>1, <2>3, <2>4 DEF TypeOK, ConfirmCommit, CommitPayment
<1> QED BY StepKinds, <1>1, <1>2, <1>3, <1>4, <1>5
        DEF RollBack, RecordLock, PassSum, ConfirmLockReceipt, ConfirmLockDue, tables, vars

LEMMA ReadsStillHoldStep ==
    ASSUME TypeOK, TypeOK', Discipline, ReadsStillHold, [Next]_vars
    PROVE  ReadsStillHold'
<1> USE LedgerAssumption DEF PaymentPc
<1>0. CallsHaveDues /\ LocksHeld /\ ReceiptsReserved /\ ReceiptsBelong
  BY DEF Discipline
(* It is enough that each session's reads hold after the step. *)
<1> DEFINE Pinned(t) == call[t].pc \in ConfirmingPc =>
               receipt[call[t].receipt] = [status |-> "uploaded", due |-> call[t].due,
                                           amount |-> call[t].amount]
           Amount(t) == call[t].pc \in PaymentPc \ {"confirm_lock_due"} =>
               call[t].seen = due[call[t].due].amount
           Sum(t) == call[t].pc \in {"record_commit", "confirm_commit"} =>
               call[t].paid = PaidTotal(call[t].due) /\ call[t].amount <= call[t].seen - call[t].paid
<1>a. \A t \in Sessions : Pinned(t) /\ Amount(t) /\ Sum(t)
  BY DEF ReadsStillHold, ConfirmingPc
<1>b. SUFFICES ASSUME NEW t \in Sessions PROVE Pinned(t)' /\ Amount(t)' /\ Sum(t)'
  BY DEF ReadsStillHold, ConfirmingPc
<1> HIDE DEF Pinned, Amount, Sum
(* A step of another session that leaves alone what this one has locked. *)
<1>c. ASSUME call'[t] = call[t],
             call[t].pc \in ConfirmingPc => receipt'[call[t].receipt] = receipt[call[t].receipt],
             call[t].pc \in PaymentPc \ {"confirm_lock_due"} =>
                 /\ due'[call[t].due].amount = due[call[t].due].amount
                 /\ PaidTotal(call[t].due)' = PaidTotal(call[t].due)
      PROVE  Pinned(t)' /\ Amount(t)' /\ Sum(t)'
  <2>1. Pinned(t)'
    BY <1>a, <1>c DEF Pinned
  <2>2. Amount(t)'
    BY <1>a, <1>c DEF Amount
  <2>3. Sum(t)'
    <3>1. CASE call[t].pc \in {"record_commit", "confirm_commit"}
      BY <1>a, <1>c, <3>1 DEF Sum
    <3>2. CASE call[t].pc \notin {"record_commit", "confirm_commit"}
      BY <1>c, <3>2 DEF Sum
    <3> QED BY <3>1, <3>2
  <2> QED BY <2>1, <2>2, <2>3
<1>d. ASSUME call'[t].pc \notin PaymentPc
      PROVE  Pinned(t)' /\ Amount(t)' /\ Sum(t)'
  BY <1>d DEF Pinned, Amount, Sum, ConfirmingPc
<1>e. call[t].pc \in PaymentPc => call[t].due \in Dues /\ Exists(call[t].due)
                                   /\ call[t].receipt \in ReceiptIds
  BY <1>0 DEF CallsHaveDues
<1>f. /\ call[t].pc \in PaymentPc \ {"confirm_lock_due"} => dueLock[call[t].due] = t
      /\ call[t].pc \in ConfirmingPc => receiptLock[call[t].receipt] = t
  BY <1>0 DEF LocksHeld
<1>g. call[t].pc \in ConfirmingPc => receipt[call[t].receipt].status = "uploaded"
  <2>1. call[t].pc \in ConfirmingPc =>
            receipt[call[t].receipt] = [status |-> "uploaded", due |-> call[t].due,
                                        amount |-> call[t].amount]
    BY <1>a DEF Pinned
  <2> QED BY <2>1
<1>h. ASSUME call'[t] = call[t], UNCHANGED receipt,
             \A d \in Dues : Exists(d) /\ dueLock[d] = t => due'[d].amount = due[d].amount
      PROVE  Pinned(t)' /\ Amount(t)' /\ Sum(t)'
  <2>1. \A d \in Dues : PaidTotal(d)' = PaidTotal(d)
    BY <1>h, PaidTotalUnchanged
  <2> QED BY <1>c, <1>e, <1>f, <1>h, <2>1
<1>1. ASSUME NEW s \in Sessions, OutsideAction(s)
      PROVE  Pinned(t)' /\ Amount(t)' /\ Sum(t)'
  <2>1. OutsideStep(s)
    BY <1>0, <1>1, OutsideShape
  <2> QED BY <1>d, <1>h, <2>1 DEF OutsideStep
<1>2. ASSUME NEW d \in Dues, NEW a \in Amounts, NEW r \in ReceiptIds, UploadReceipt(d, a, r)
      PROVE  Pinned(t)' /\ Amount(t)' /\ Sum(t)'
  <2>1. UNCHANGED <<due, call>>
    BY <1>2 DEF UploadReceipt
  <2>2. call[t].pc \in ConfirmingPc => receipt'[call[t].receipt] = receipt[call[t].receipt]
    BY <1>2, <1>e, <1>g DEF TypeOK, UploadReceipt, FreshReceipt, ConfirmingPc
  <2>3. \A e \in Dues : PaidTotal(e)' = PaidTotal(e)
    BY <1>2, PaidTotalUpload
  <2> QED BY <1>c, <1>e, <2>1, <2>2, <2>3
<1>3. ASSUME NEW s \in Sessions, RollBack(s)
      PROVE  Pinned(t)' /\ Amount(t)' /\ Sum(t)'
  <2>1. CASE t = s
    BY <1>3, <1>d, <2>1 DEF TypeOK, RollBack, Return, Idle
  <2>2. CASE t # s
    BY <1>3, <1>h, <2>2 DEF TypeOK, RollBack, Return, tables
  <2> QED BY <2>1, <2>2
<1>4. ASSUME NEW s \in Sessions, NEW d \in Dues, NEW a \in Amounts, NEW r \in ReceiptIds,
             RecordLock(s, d, a, r)
      PROVE  Pinned(t)' /\ Amount(t)' /\ Sum(t)'
  <2>1. UNCHANGED <<due, receipt>>
    BY <1>4 DEF RecordLock, tables
  <2>2. CASE t = s
    <3>1. call'[t].pc = "record_sum" /\ call'[t].due = d /\ call'[t].seen = due[d].amount
      BY <1>4, <2>2 DEF TypeOK, RecordLock, Idle
    <3> QED BY <2>1, <3>1 DEF Pinned, Amount, Sum, ConfirmingPc
  <2>3. CASE t # s
    BY <1>4, <1>h, <2>1, <2>3 DEF TypeOK, RecordLock
  <2> QED BY <2>2, <2>3
<1>5. ASSUME NEW s \in Sessions, NEW to \in {"record_commit", "confirm_commit"}, PassSum(s, to),
             call[s].pc = IF to = "record_commit" THEN "record_sum" ELSE "confirm_sum"
      PROVE  Pinned(t)' /\ Amount(t)' /\ Sum(t)'
  <2>1. UNCHANGED <<due, receipt>>
    BY <1>5 DEF PassSum, tables
  <2>2. CASE t = s
    <3>1. /\ call'[t].pc = to /\ call'[t].paid = PaidTotal(call[t].due)
          /\ call'[t].due = call[t].due /\ call'[t].receipt = call[t].receipt
          /\ call'[t].amount = call[t].amount /\ call'[t].seen = call[t].seen
          /\ call[t].amount <= call[t].seen - PaidTotal(call[t].due)
      BY <1>5, <2>2 DEF TypeOK, Call, PassSum
    <3>2. PaidTotal(call[t].due)' = PaidTotal(call[t].due)
      BY <2>1, <3>1 DEF PaidTotal, Counted, Total
    <3>3. Pinned(t)'
      BY <1>5, <1>a, <2>1, <2>2, <3>1 DEF Pinned, ConfirmingPc
    <3>4. Amount(t)'
      BY <1>5, <1>a, <2>1, <2>2, <3>1 DEF Amount
    <3>5. Sum(t)'
      BY <3>1, <3>2 DEF Sum
    <3> QED BY <3>3, <3>4, <3>5
  <2>3. CASE t # s
    BY <1>5, <1>h, <2>1, <2>3 DEF TypeOK, PassSum
  <2> QED BY <2>2, <2>3
<1>6. ASSUME NEW s \in Sessions, RecordCommit(s) \/ ConfirmCommit(s)
      PROVE  Pinned(t)' /\ Amount(t)' /\ Sum(t)'
  <2>1. CommitStep(s)
    BY <1>0, <1>6, CommitShape
  <2>2. CASE t = s
    BY <1>d, <2>1, <2>2 DEF TypeOK, CommitStep, Idle
  <2>3. CASE t # s
    <3>1. call'[t] = call[t]
      BY <2>1, <2>3 DEF TypeOK, CommitStep
    <3>2. ASSUME call[t].pc \in ConfirmingPc
          PROVE  receipt'[call[t].receipt] = receipt[call[t].receipt]
      <4>1. call[t].receipt # call[s].receipt
        <5>1. CASE RecordCommit(s)
          <6>1. receipt[call[s].receipt].status = "absent"
            BY <1>0, <5>1 DEF RecordCommit, ReceiptsReserved, RecordingPc
          <6> QED BY <1>g, <3>2, <6>1
        <5>2. CASE ConfirmCommit(s)
          <6>1. receiptLock[call[s].receipt] = s
            BY <1>0, <5>2 DEF ConfirmCommit, LocksHeld, ConfirmingPc
          <6> QED BY <1>f, <2>3, <3>2, <6>1
        <5> QED BY <1>6, <5>1, <5>2
      <4>2. call[t].receipt \in ReceiptIds
        BY <1>e, <3>2 DEF ConfirmingPc
      <4> QED BY <1>6, <4>1, <4>2 DEF TypeOK, RecordCommit, ConfirmCommit
    <3>3. ASSUME call[t].pc \in PaymentPc \ {"confirm_lock_due"}
          PROVE  /\ due'[call[t].due].amount = due[call[t].due].amount
                 /\ PaidTotal(call[t].due)' = PaidTotal(call[t].due)
      <4>1. dueLock[call[s].due] = s
        BY <1>0, <1>6 DEF RecordCommit, ConfirmCommit, LocksHeld
      <4>2. call[t].due \in Dues /\ call[t].due # call[s].due
        BY <1>e, <1>f, <2>3, <3>3, <4>1
      <4>3. PaidTotal(call[t].due)' = PaidTotal(call[t].due)
        <5> DEFINE d == call[t].due
        <5>1. ASSUME NEW e \in Dues, e # call[s].due PROVE PaidTotal(e)' = PaidTotal(e)
          BY <1>0, <1>6, <5>1, PaidTotalCommit
        <5> QED BY <3>1, <4>2, <5>1
      <4> QED BY <2>1, <4>2, <4>3 DEF CommitStep
    <3> QED BY <1>c, <3>1, <3>2, <3>3
  <2> QED BY <2>2, <2>3
<1>7. ASSUME NEW s \in Sessions, NEW r \in ReceiptIds, ConfirmLockReceipt(s, r)
      PROVE  Pinned(t)' /\ Amount(t)' /\ Sum(t)'
  <2>1. UNCHANGED <<due, receipt>>
    BY <1>7 DEF ConfirmLockReceipt, tables
  <2>2. CASE t = s
    <3>1. /\ call'[t].pc = "confirm_lock_due" /\ call'[t].receipt = r
          /\ call'[t].due = receipt[r].due /\ call'[t].amount = receipt[r].amount
      BY <1>7, <2>2 DEF TypeOK, ConfirmLockReceipt, Idle
    <3>2. receipt[r] = [status |-> "uploaded", due |-> receipt[r].due, amount |-> receipt[r].amount]
      BY <1>7 DEF TypeOK, ReceiptRow, ConfirmLockReceipt
    <3> QED BY <2>1, <3>1, <3>2 DEF Pinned, Amount, Sum
  <2>3. CASE t # s
    BY <1>7, <1>h, <2>1, <2>3 DEF TypeOK, ConfirmLockReceipt
  <2> QED BY <2>2, <2>3
<1>8. ASSUME NEW s \in Sessions, ConfirmLockDue(s)
      PROVE  Pinned(t)' /\ Amount(t)' /\ Sum(t)'
  <2>1. UNCHANGED <<due, receipt>>
    BY <1>8 DEF ConfirmLockDue, tables
  <2>2. CASE t = s
    <3>1. /\ call'[t].pc = "confirm_sum" /\ call'[t].seen = due[call[t].due].amount
          /\ call'[t].due = call[t].due /\ call'[t].receipt = call[t].receipt
          /\ call'[t].amount = call[t].amount
      BY <1>8, <2>2 DEF TypeOK, Call, ConfirmLockDue
    <3>2. receipt[call[t].receipt] = [status |-> "uploaded", due |-> call[t].due,
                                      amount |-> call[t].amount]
      BY <1>8, <1>a, <2>2 DEF ConfirmLockDue, Pinned, ConfirmingPc
    <3> QED BY <2>1, <3>1, <3>2 DEF Pinned, Amount, Sum
  <2>3. CASE t # s
    BY <1>8, <1>h, <2>1, <2>3 DEF TypeOK, ConfirmLockDue
  <2> QED BY <2>2, <2>3
<1>9. CASE UNCHANGED vars
  BY <1>9, <1>h DEF vars
<1> QED BY StepKinds, <1>1, <1>2, <1>3, <1>4, <1>5, <1>6, <1>7, <1>8, <1>9

-----------------------------------------------------------------------------
LEMMA InvInit ==
    ASSUME Init
    PROVE  LedgerInv
<1> USE LedgerAssumption DEF Init
<1>1. TypeOK
  <2>1. \A d \in Dues : corrections[d] \in Seq(CorrectionRow)
    OBVIOUS
  <2> QED BY <2>1, IdleType DEF TypeOK, DueRow, DueStatus, ReceiptRow, Amounts
<1>2. Discipline
  BY DEF Discipline, CallsHaveDues, LocksHeld, ReceiptsReserved, ReceiptsBelong,
         CorrectionAnnounced, Idle, PaymentPc, RecordingPc, ConfirmingPc
<1>3. ReadsStillHold
  BY DEF ReadsStillHold, Idle
<1>4. ConfirmedExactlyOnce
  BY DEF ConfirmedExactlyOnce
<1> QED BY <1>1, <1>2, <1>3, <1>4 DEF LedgerInv

LEMMA InvStep ==
    ASSUME LedgerInv, [Next]_vars
    PROVE  LedgerInv'
<1>0. /\ TypeOK /\ CallsHaveDues /\ LocksHeld /\ ReceiptsReserved /\ ReceiptsBelong
      /\ CorrectionAnnounced /\ ReadsStillHold /\ ConfirmedExactlyOnce
  BY DEF LedgerInv, Discipline
<1>1. TypeOK'
  BY <1>0, TypeStep
<1>2. CallsHaveDues'
  BY <1>0, <1>1, CallsHaveDuesStep
<1>3. LocksHeld'
  BY <1>0, <1>1, LocksHeldStep
<1>4. ReceiptsReserved'
  BY <1>0, <1>1, ReceiptsReservedStep
<1>5. ReceiptsBelong'
  BY <1>0, <1>1, ReceiptsBelongStep
<1>6. CorrectionAnnounced'
  BY <1>0, <1>1, CorrectionAnnouncedStep
<1>7. ReadsStillHold'
  BY <1>0, <1>1, ReadsStillHoldStep DEF Discipline
<1>8. ConfirmedExactlyOnce'
  BY <1>0, <1>1, ConfirmedExactlyOnceStep
<1> QED BY <1>1, <1>2, <1>3, <1>4, <1>5, <1>6, <1>7, <1>8 DEF LedgerInv, Discipline

(* The inductive invariant holds of every reachable state. *)
THEOREM Invariance == Spec => []LedgerInv
<1>1. Init => LedgerInv
  BY InvInit
<1>2. LedgerInv /\ [Next]_vars => LedgerInv'
  BY InvStep
<1> QED BY <1>1, <1>2, PTL DEF Spec

(* Every table, lock and session of the ledger holds values of its type. *)
THEOREM TypeCorrect == Spec => []TypeOK
<1>1. LedgerInv => TypeOK
  BY DEF LedgerInv
<1> QED BY <1>1, Invariance, PTL

(* A lock belongs to a payment call that has taken it and not yet ended:    *)
(* the converse of LocksHeld.                                               *)
LocksOwned ==
    /\ \A d \in Dues : dueLock[d] # Nobody =>
           /\ call[dueLock[d]].pc \in PaymentPc \ {"confirm_lock_due"}
           /\ call[dueLock[d]].due = d
    /\ \A r \in ReceiptIds : receiptLock[r] # Nobody =>
           call[receiptLock[r]].pc \in ConfirmingPc /\ call[receiptLock[r]].receipt = r

LEMMA LocksOwnedStep ==
    ASSUME TypeOK, TypeOK', CallsHaveDues, LocksHeld, LocksOwned, [Next]_vars
    PROVE  LocksOwned'
<1> USE LedgerAssumption DEF LocksOwned, PaymentPc, ConfirmingPc
<1>1. ASSUME NEW s \in Sessions, OutsideAction(s) PROVE LocksOwned'
  <2>1. OutsideStep(s)
    BY <1>1, OutsideShape
  <2>2. \A d \in Dues : dueLock[d] # Nobody => dueLock[d] \in Sessions /\ dueLock[d] # s
    BY <2>1 DEF OutsideStep, TypeOK
  <2>3. \A r \in ReceiptIds : receiptLock[r] # Nobody =>
            receiptLock[r] \in Sessions /\ receiptLock[r] # s
    BY <2>1 DEF OutsideStep, TypeOK
  <2> QED BY <2>1, <2>2, <2>3 DEF OutsideStep
<1>2. ASSUME NEW d \in Dues, NEW a \in Amounts, NEW r \in ReceiptIds, UploadReceipt(d, a, r)
      PROVE  LocksOwned'
  BY <1>2 DEF UploadReceipt, locks
<1>3. ASSUME NEW s \in Sessions, RollBack(s) PROVE LocksOwned'
  BY <1>3 DEF TypeOK, RollBack, Return, Idle, ReleaseLocks
<1>4. ASSUME NEW s \in Sessions, NEW d \in Dues, NEW a \in Amounts, NEW r \in ReceiptIds,
             RecordLock(s, d, a, r)
      PROVE  LocksOwned'
  BY <1>4 DEF TypeOK, RecordLock, NotLocked, Idle
<1>5. ASSUME NEW s \in Sessions, call[s].pc = "record_sum", PassSum(s, "record_commit")
      PROVE  LocksOwned'
  <2>1. /\ UNCHANGED locks
        /\ \A t \in Sessions : /\ call'[t].due = call[t].due /\ call'[t].receipt = call[t].receipt
                              /\ call'[t].pc = IF t = s THEN "record_commit" ELSE call[t].pc
    BY <1>5 DEF TypeOK, PassSum
  <2>2. dueLock' = dueLock /\ receiptLock' = receiptLock
    BY <2>1 DEF locks
  <2>3. /\ \A d \in Dues : dueLock[d] # Nobody => dueLock[d] \in Sessions
        /\ \A r \in ReceiptIds : receiptLock[r] # Nobody => receiptLock[r] \in Sessions
    BY DEF TypeOK
  <2> QED BY <1>5, <2>1, <2>2, <2>3
<1>6. ASSUME NEW s \in Sessions, call[s].pc = "confirm_sum", PassSum(s, "confirm_commit")
      PROVE  LocksOwned'
  <2>1. /\ UNCHANGED locks
        /\ \A t \in Sessions : /\ call'[t].due = call[t].due /\ call'[t].receipt = call[t].receipt
                              /\ call'[t].pc = IF t = s THEN "confirm_commit" ELSE call[t].pc
    BY <1>6 DEF TypeOK, PassSum
  <2>2. dueLock' = dueLock /\ receiptLock' = receiptLock
    BY <2>1 DEF locks
  <2>3. /\ \A d \in Dues : dueLock[d] # Nobody => dueLock[d] \in Sessions
        /\ \A r \in ReceiptIds : receiptLock[r] # Nobody => receiptLock[r] \in Sessions
    BY DEF TypeOK
  <2> QED BY <1>6, <2>1, <2>2, <2>3
<1>7. ASSUME NEW s \in Sessions, RecordCommit(s) \/ ConfirmCommit(s) PROVE LocksOwned'
  <2>1. CommitStep(s)
    BY <1>7, CommitShape
  <2> QED BY <2>1 DEF CommitStep, TypeOK, Idle
<1>8. ASSUME NEW s \in Sessions, NEW r \in ReceiptIds, ConfirmLockReceipt(s, r)
      PROVE  LocksOwned'
  BY <1>8 DEF TypeOK, ConfirmLockReceipt, Idle
<1>9. ASSUME NEW s \in Sessions, ConfirmLockDue(s) PROVE LocksOwned'
  BY <1>9 DEF TypeOK, ConfirmLockDue, NotLocked, CallsHaveDues
<1>10. CASE UNCHANGED vars
  BY <1>10 DEF vars, locks
<1> QED BY StepKinds, <1>1, <1>2, <1>3, <1>4, <1>5, <1>6, <1>7, <1>8, <1>9, <1>10

(* Whoever is waited for is past its last lock, so that waits never form a  *)
(* cycle and no lock is left behind, for any number of sessions and dues.   *)
THEOREM NoCircleOfWaits == Spec => []WaitsAreShort
<1>1. Init => LocksOwned
  BY DEF Init, LocksOwned
<1>2. LedgerInv /\ LedgerInv' /\ LocksOwned /\ [Next]_vars => LocksOwned'
  BY LocksOwnedStep DEF LedgerInv, Discipline
<1>3. LedgerInv /\ LocksOwned => WaitsAreShort
  <2> SUFFICES ASSUME LedgerInv, LocksOwned, NEW s \in Sessions, NEW t \in Sessions, WaitsFor(s, t)
               PROVE  call[t].pc # "idle" /\ \A u \in Sessions : ~WaitsFor(t, u)
    BY DEF WaitsAreShort
  <2>1. call[s].due \in Dues /\ dueLock[call[s].due] = t /\ t # Nobody
    BY LedgerAssumption DEF WaitsFor, CorrectionPc, LedgerInv, Discipline, CallsHaveDues
  <2>2. call[t].pc \in PaymentPc \ {"confirm_lock_due"}
    BY <2>1 DEF LocksOwned
  <2> QED BY <2>2 DEF PaymentPc, CorrectionPc, WaitsFor
<1> QED BY <1>1, <1>2, <1>3, Invariance, PTL DEF Spec

(* recordPayment and confirmPayment confirm each receipt exactly once, for *)
(* any number of concurrent calls, dues and crashes.                       *)
THEOREM ConfirmedOnce == Spec => []ConfirmedExactlyOnce
<1>1. LedgerInv => ConfirmedExactlyOnce
  BY DEF LedgerInv
<1> QED BY <1>1, Invariance, PTL

(* Whatever a payment transaction has read holds until it commits. *)
THEOREM ReadsHold == Spec => []ReadsStillHold
<1>1. LedgerInv => ReadsStillHold
  BY DEF LedgerInv
<1> QED BY <1>1, Invariance, PTL

(* The step that commits a payment settles its due: within the amount, with *)
(* the status the counted total calls for.                                  *)
LEMMA CommitSettles ==
    ASSUME LedgerInv, TypeOK', NEW s \in Sessions, RecordCommit(s) \/ ConfirmCommit(s),
           NEW d \in Dues, PaidTotal(d)' # PaidTotal(d)
    PROVE  /\ PaidTotal(d)' <= due'[d].amount
           /\ due'[d].status = NextStatus(PaidTotal(d)', due'[d].amount)
<1>1. PaidTotal(d)' = IF call[s].due = d THEN PaidTotal(d) + call[s].amount ELSE PaidTotal(d)
  BY PaidTotalCommit DEF LedgerInv, Discipline
<1>2. call[s].due = d /\ PaidTotal(d)' = PaidTotal(d) + call[s].amount
  BY <1>1
<1>3. call[s].pc \in {"record_commit", "confirm_commit"}
  BY DEF RecordCommit, ConfirmCommit
<1>4. /\ call[s].paid = PaidTotal(d) /\ call[s].seen = due[d].amount
      /\ call[s].amount <= call[s].seen - call[s].paid
  BY <1>2, <1>3 DEF LedgerInv, ReadsStillHold
<1>5. /\ due'[d].amount = due[d].amount
      /\ due'[d].status = NextStatus(call[s].paid + call[s].amount, call[s].seen)
  BY <1>2, CommitShape DEF LedgerInv, Discipline, CommitStep
<1>6. PaidTotal(d) \in Nat /\ call[s].amount \in Nat /\ due[d].amount \in Nat
  <2>1. TypeOK
    BY DEF LedgerInv
  <2>2. PaidTotal(d) \in Nat
    BY <2>1, PaidTotalNat
  <2>3. call[s].amount \in Amounts /\ due[d].amount \in Amounts
    BY <2>1 DEF TypeOK, Call, DueRow
  <2> QED BY <2>2, <2>3, LedgerAssumption DEF Amounts
<1>7. call[s].paid + call[s].amount = PaidTotal(d)' /\ due'[d].amount = call[s].seen
  BY <1>2, <1>4, <1>5
<1>8. PaidTotal(d)' <= due'[d].amount
  BY <1>2, <1>4, <1>5, <1>6
<1> QED BY <1>5, <1>7, <1>8

(* Money is counted only by the two committing steps. *)
LEMMA OnlyCommitsCount ==
    ASSUME LedgerInv, TypeOK', [Next]_vars,
           ~\E s \in Sessions : RecordCommit(s) \/ ConfirmCommit(s)
    PROVE  \A d \in Dues : PaidTotal(d)' = PaidTotal(d)
<1>1. CASE UNCHANGED receipt
  BY <1>1, PaidTotalUnchanged
<1>2. ASSUME NEW e \in Dues, NEW a \in Amounts, NEW r \in ReceiptIds, UploadReceipt(e, a, r)
      PROVE  \A d \in Dues : PaidTotal(d)' = PaidTotal(d)
  BY <1>2, PaidTotalUpload DEF LedgerInv
<1>3. ASSUME NEW s \in Sessions, OutsideAction(s) PROVE UNCHANGED receipt
  BY <1>3, OutsideShape DEF LedgerInv, Discipline, OutsideStep
<1>4. UNCHANGED receipt \/ \E e \in Dues, a \in Amounts, r \in ReceiptIds : UploadReceipt(e, a, r)
  BY StepKinds, <1>3
     DEF RollBack, RecordLock, PassSum, ConfirmLockReceipt, ConfirmLockDue, tables, vars
<1> QED BY <1>1, <1>2, <1>4

(* A payment never takes more than the due is worth at that moment and      *)
(* leaves the status its total calls for, also beside unlocked corrections  *)
(* and cancellations.                                                       *)
THEOREM PaymentsSettle == Spec => PaymentSettles
<1> DEFINE Settled == \A d \in Dues :
              PaidTotal(d)' # PaidTotal(d) =>
                  /\ PaidTotal(d)' <= due'[d].amount
                  /\ due'[d].status = NextStatus(PaidTotal(d)', due'[d].amount)
<1>1. LedgerInv /\ LedgerInv' /\ [Next]_vars => [Settled]_vars
  <2> SUFFICES ASSUME LedgerInv, LedgerInv', [Next]_vars PROVE Settled
    OBVIOUS
  <2>1. TypeOK'
    BY DEF LedgerInv
  <2>2. CASE \E s \in Sessions : RecordCommit(s) \/ ConfirmCommit(s)
    BY <2>1, <2>2, CommitSettles
  <2>3. CASE ~\E s \in Sessions : RecordCommit(s) \/ ConfirmCommit(s)
    BY <2>1, <2>3, OnlyCommitsCount
  <2> QED BY <2>2, <2>3
<1> QED BY <1>1, Invariance, PTL DEF Spec, PaymentSettles

(* An amount changes only to one that a retained correction announces, for  *)
(* any number of corrections that interleave or die half way.               *)
THEOREM AmountsAreLogged == Spec => AmountChangesAreLogged
<1> DEFINE Logged == \A d \in Dues :
              Exists(d) /\ due'[d].amount # due[d].amount =>
                  \E i \in 1..Len(corrections[d]) : corrections[d][i].new = due'[d].amount
<1>1. LedgerInv /\ LedgerInv' /\ [Next]_vars => [Logged]_vars
  <2> SUFFICES ASSUME LedgerInv, LedgerInv', [Next]_vars PROVE Logged
    OBVIOUS
  <2>0. TypeOK /\ CallsHaveDues /\ CorrectionAnnounced
    BY DEF LedgerInv, Discipline
  <2>1. CASE \A d \in Dues : Exists(d) => due'[d].amount = due[d].amount
    BY <2>1
  <2>2. ASSUME NEW s \in Sessions, UpdateAmount(s) PROVE Logged
    <3>1. call[s].pc = "update" /\ call[s].due \in Dues
      BY <2>0, <2>2 DEF UpdateAmount, CallsHaveDues
    <3>2. \A d \in Dues : due'[d].amount = IF d = call[s].due THEN call[s].amount
                                                              ELSE due[d].amount
      BY <2>0, <2>2, <3>1 DEF UpdateAmount, TypeOK, DueRow
    <3> QED BY <2>0, <3>1, <3>2 DEF CorrectionAnnounced
  <2>3. ASSUME NEW s \in Sessions, RecordCommit(s) \/ ConfirmCommit(s)
        PROVE  \A d \in Dues : due'[d].amount = due[d].amount
    BY <2>0, <2>3, CommitShape DEF CommitStep
  <2>4. ASSUME NEW s \in Sessions, OutsideAction(s), ~UpdateAmount(s)
        PROVE  \A d \in Dues : Exists(d) => due'[d].amount = due[d].amount
    <3>1. CASE UNCHANGED due
      BY <3>1
    <3>2. ASSUME NEW e \in Dues, NEW a \in Amounts, AssessDue(s, e, a)
          PROVE  \A d \in Dues : Exists(d) => due'[d].amount = due[d].amount
      BY <2>0, <3>2 DEF AssessDue, TypeOK, Exists
    <3>3. CASE AssessBasis(s)
      BY <2>0, <3>3 DEF AssessBasis, TypeOK, DueRow
    <3>4. CASE CancelMark(s)
      BY <2>0, <3>4 DEF CancelMark, TypeOK, DueRow
    <3> QED BY <2>4, <3>1, <3>2, <3>3, <3>4 DEF OutsideAction, CorrectFind, CancelFind,
            LogCorrection, CancelReceipts, CancelCorrectFind, tables
  <2>5. \/ \E s \in Sessions : UpdateAmount(s)
        \/ \A d \in Dues : Exists(d) => due'[d].amount = due[d].amount
    <3>1. CASE UNCHANGED due
      BY <3>1
    <3> QED BY StepKinds, <2>3, <2>4, <3>1 DEF UploadReceipt, RollBack, RecordLock, PassSum,
            ConfirmLockReceipt, ConfirmLockDue, tables, vars
  <2> QED BY <2>1, <2>2, <2>5
<1> QED BY <1>1, Invariance, PTL DEF Spec, AmountChangesAreLogged

-----------------------------------------------------------------------------
(* What keeps money off a cancelled due while payments stay apart: a due    *)
(* that is cancelled, or being cancelled after its receipts were looked at, *)
(* has received nothing.                                                    *)
CancelsAreMarked == \A s \in Sessions : call[s].pc \in CancelPc => call[s].cancelling
GivenUp(d) == due[d].status = "cancelled" \/ \E s \in Sessions : Cancelling(s, d)
CancelInv == CancelsAreMarked /\ \A d \in Dues : GivenUp(d) => PaidTotal(d) = 0

(* What a call outside the payment transactions does to its own marks. *)
LEMMA MarksMove ==
    ASSUME call \in [Sessions -> Call], NEW s \in Sessions
    PROVE  /\ Return(s) => call'[s].pc = "idle" /\ ~call'[s].cancelling
           /\ \A pc \in {"cancel_find", "cancel_mark", "update"} : Goto(s, pc) =>
                  /\ call'[s].pc = pc /\ call'[s].cancelling = call[s].cancelling
                  /\ call'[s].due = call[s].due
           /\ \A d \in Dues, a \in Amounts : AssessDue(s, d, a) =>
                  call'[s].pc = "assess_basis" /\ ~call'[s].cancelling
           /\ \A d \in Dues, a \in Amounts : CorrectFind(s, d, a) =>
                  call'[s].pc = "log" /\ ~call'[s].cancelling
           /\ \A d \in Dues : CancelFind(s, d) =>
                  call'[s].pc = "cancel_receipts" /\ call'[s].cancelling
           /\ CancelCorrectFind(s) =>
                  \/ Return(s)
                  \/ /\ call'[s].pc = "log" /\ call'[s].cancelling = call[s].cancelling
                     /\ call'[s].due = call[s].due
<1>1. Return(s) => call'[s].pc = "idle" /\ ~call'[s].cancelling
  BY DEF Return, Idle
<1>2. ASSUME NEW pc \in {"cancel_find", "cancel_mark", "update"}, Goto(s, pc)
      PROVE  /\ call'[s].pc = pc /\ call'[s].cancelling = call[s].cancelling
             /\ call'[s].due = call[s].due
  BY <1>2 DEF Goto
<1>3. ASSUME NEW d \in Dues, NEW a \in Amounts, AssessDue(s, d, a)
      PROVE  call'[s].pc = "assess_basis" /\ ~call'[s].cancelling
  BY <1>3 DEF AssessDue, Idle
<1>4. ASSUME NEW d \in Dues, NEW a \in Amounts, CorrectFind(s, d, a)
      PROVE  call'[s].pc = "log" /\ ~call'[s].cancelling
  BY <1>4 DEF CorrectFind, Idle
<1>5. ASSUME NEW d \in Dues, CancelFind(s, d)
      PROVE  call'[s].pc = "cancel_receipts" /\ call'[s].cancelling
  BY <1>5 DEF CancelFind, Idle
<1>6. ASSUME CancelCorrectFind(s)
      PROVE  \/ Return(s)
             \/ /\ call'[s].pc = "log" /\ call'[s].cancelling = call[s].cancelling
                /\ call'[s].due = call[s].due
  <2>1. CASE Return(s)
    BY <2>1
  <2>2. CASE \E a : call' = [call EXCEPT ![s].pc = "log", ![s].seen = a]
    BY <2>2
  <2> QED BY <1>6, <2>1, <2>2 DEF CancelCorrectFind
<1> QED BY <1>1, <1>2, <1>3, <1>4, <1>5, <1>6

LEMMA CancelsAreMarkedStep ==
    ASSUME TypeOK, TypeOK', CallsHaveDues, CancelsAreMarked, [Next]_vars
    PROVE  CancelsAreMarked'
<1>0. call \in [Sessions -> Call]
  BY DEF TypeOK
<1>1. ASSUME NEW s \in Sessions, \A t \in Sessions : t # s => call'[t] = call[t],
             call'[s].pc \in CancelPc => call'[s].cancelling
      PROVE  CancelsAreMarked'
  BY <1>1 DEF CancelsAreMarked
<1>2. ASSUME NEW s \in Sessions, call[s].pc \in CancelPc PROVE call[s].cancelling
  BY <1>2 DEF CancelsAreMarked
<1>3. ASSUME NEW s \in Sessions, OutsideAction(s) PROVE CancelsAreMarked'
  <2>1. \A t \in Sessions : t # s => call'[t] = call[t]
    BY <1>3, OutsideShape DEF OutsideStep
  <2>2. call'[s].pc \in CancelPc => call'[s].cancelling
    <3>1. ASSUME NEW d \in Dues, NEW a \in Amounts, AssessDue(s, d, a)
          PROVE  call'[s].pc \notin CancelPc
      BY <1>0, <3>1, MarksMove DEF CancelPc
    <3>2. ASSUME NEW d \in Dues, NEW a \in Amounts, CorrectFind(s, d, a)
          PROVE  call'[s].pc \notin CancelPc
      BY <1>0, <3>2, MarksMove DEF CancelPc
    <3>3. ASSUME NEW d \in Dues, CancelFind(s, d) PROVE call'[s].cancelling
      BY <1>0, <3>3, MarksMove
    <3>4. CASE Return(s)
      BY <1>0, <3>4, MarksMove DEF CancelPc
    <3>5. CASE Goto(s, "update")
      BY <1>0, <3>5, MarksMove DEF CancelPc
    <3>6. CASE UpdateAmount(s)
      <4>1. Return(s) \/ (call[s].cancelling /\ Goto(s, "cancel_mark"))
        BY <3>6 DEF UpdateAmount
      <4>2. CASE call[s].cancelling /\ Goto(s, "cancel_mark")
        BY <1>0, <4>2, MarksMove
      <4> QED BY <3>4, <4>1, <4>2
    <3>7. CASE CancelReceipts(s)
      <4>1. Return(s) \/ Goto(s, "cancel_find")
        BY <3>7 DEF CancelReceipts
      <4>2. call[s].cancelling
        BY <1>2, <3>7 DEF CancelReceipts, CancelPc
      <4>3. CASE Goto(s, "cancel_find")
        BY <1>0, <4>2, <4>3, MarksMove
      <4> QED BY <3>4, <4>1, <4>3
    <3>8. CASE CancelCorrectFind(s)
      BY <1>0, <3>4, <3>8, MarksMove DEF CancelPc
    <3>9. AssessBasis(s) \/ CancelMark(s) => Return(s)
      BY DEF AssessBasis, CancelMark
    <3>10. LogCorrection(s) => Goto(s, "update")
      BY DEF LogCorrection
    <3> QED BY <1>3, <3>1, <3>2, <3>3, <3>4, <3>5, <3>6, <3>7, <3>8, <3>9, <3>10 DEF OutsideAction
  <2> QED BY <1>1, <2>1, <2>2
<1>4. CASE UNCHANGED call
  BY <1>4 DEF CancelsAreMarked
<1>5. ASSUME NEW s \in Sessions, Return(s) PROVE CancelsAreMarked'
  <2>1. call'[s].pc \notin CancelPc /\ \A t \in Sessions : t # s => call'[t] = call[t]
    BY <1>0, <1>5 DEF Return, Idle, CancelPc
  <2> QED BY <1>1, <2>1
<1>6. ASSUME NEW s \in Sessions, NEW d \in Dues, NEW a \in Amounts, NEW r \in ReceiptIds,
             RecordLock(s, d, a, r)
      PROVE  CancelsAreMarked'
  <2>1. call'[s].pc \notin CancelPc /\ \A t \in Sessions : t # s => call'[t] = call[t]
    BY <1>0, <1>6 DEF RecordLock, Idle, CancelPc
  <2> QED BY <1>1, <2>1
<1>7. ASSUME NEW s \in Sessions, NEW r \in ReceiptIds, ConfirmLockReceipt(s, r)
      PROVE  CancelsAreMarked'
  <2>1. call'[s].pc \notin CancelPc /\ \A t \in Sessions : t # s => call'[t] = call[t]
    BY <1>0, <1>7 DEF ConfirmLockReceipt, Idle, CancelPc
  <2> QED BY <1>1, <2>1
<1>8. ASSUME NEW s \in Sessions, NEW to \in {"record_commit", "confirm_commit"}, PassSum(s, to)
      PROVE  CancelsAreMarked'
  <2>1. call'[s].pc \notin CancelPc /\ \A t \in Sessions : t # s => call'[t] = call[t]
    BY <1>0, <1>8 DEF PassSum, CancelPc
  <2> QED BY <1>1, <2>1
<1>9. ASSUME NEW s \in Sessions, ConfirmLockDue(s) PROVE CancelsAreMarked'
  <2>1. call'[s].pc \notin CancelPc /\ \A t \in Sessions : t # s => call'[t] = call[t]
    BY <1>0, <1>9 DEF ConfirmLockDue, CancelPc
  <2> QED BY <1>1, <2>1
<1>10. UNCHANGED vars => UNCHANGED call
  BY DEF vars
<1>11. \A d \in Dues, a \in Amounts, r \in ReceiptIds : UploadReceipt(d, a, r) => UNCHANGED call
  BY DEF UploadReceipt
<1>12. \A s \in Sessions : RollBack(s) \/ RecordCommit(s) \/ ConfirmCommit(s) => Return(s)
  BY DEF RollBack, RecordCommit, ConfirmCommit, CommitPayment
<1> QED BY StepKinds, <1>3, <1>4, <1>5, <1>6, <1>7, <1>8, <1>10, <1>11, <1>12, <1>9

(* What cancelDue looks for, and what only that look begins to give up. *)
NoneVerified(d) ==
    ~\E r \in ReceiptIds : receipt[r].due = d /\ receipt[r].status = "verified"

LEMMA CancelShape ==
    ASSUME TypeOK, TypeOK', CallsHaveDues, CancelsAreMarked, NEW s \in Sessions, OutsideAction(s),
           NEW d \in Dues, GivenUp(d)'
    PROVE  GivenUp(d) \/ NoneVerified(d)
<1> USE DEF GivenUp, Cancelling
<1>1. \A t \in Sessions : t # s => call'[t] = call[t]
  BY OutsideShape DEF OutsideStep
<1>2. call \in [Sessions -> Call]
  BY DEF TypeOK
<1>3. ASSUME NEW e \in Dues, NEW a \in Amounts, AssessDue(s, e, a) PROVE GivenUp(d)
  BY <1>1, <1>3 DEF TypeOK, AssessDue, Idle
<1>4. ASSUME NEW e \in Dues, NEW a \in Amounts, CorrectFind(s, e, a) PROVE GivenUp(d)
  BY <1>1, <1>4 DEF TypeOK, CorrectFind, tables, Idle
<1>5. ASSUME NEW e \in Dues, CancelFind(s, e) PROVE GivenUp(d)
  BY <1>1, <1>5 DEF TypeOK, CancelFind, tables, Idle
<1>6. CASE AssessBasis(s)
  BY <1>1, <1>6 DEF TypeOK, DueRow, AssessBasis, Return, Idle
<1>7. CASE LogCorrection(s)
  BY <1>1, <1>7 DEF TypeOK, LogCorrection, Goto
<1>8. CASE UpdateAmount(s)
  <2>1. due'[d].status = due[d].status
    BY <1>8 DEF TypeOK, UpdateAmount, DueRow
  <2>2. call'[s].cancelling => /\ call[s].cancelling /\ call'[s].due = call[s].due
                              /\ call[s].pc = "update"
    <3>1. call[s].pc = "update" /\ (Return(s) \/ (call[s].cancelling /\ Goto(s, "cancel_mark")))
      BY <1>8 DEF UpdateAmount
    <3> QED BY <1>2, <3>1, MarksMove
  <2> QED BY <1>1, <2>1, <2>2
<1>9. CASE CancelReceipts(s)
  <2>1. due' = due /\ call[s].pc = "cancel_receipts"
    BY <1>9 DEF CancelReceipts, tables
  <2>2. CASE Return(s)
    <3>1. ~call'[s].cancelling
      BY <1>2, <2>2, MarksMove
    <3> QED BY <1>1, <2>1, <3>1
  <2>3. CASE Goto(s, "cancel_find")
    <3>1. call'[s].due = call[s].due
      BY <1>2, <2>3, MarksMove
    <3>2. NoneVerified(call[s].due) \/ Return(s)
      BY <1>9 DEF CancelReceipts, NoneVerified
    <3> QED BY <1>1, <2>1, <2>2, <3>1, <3>2
  <2> QED BY <1>9, <2>2, <2>3 DEF CancelReceipts
<1>10. CASE CancelCorrectFind(s)
  <2>1. call[s].cancelling /\ call[s].pc = "cancel_find"
    BY <1>10 DEF CancelCorrectFind, CancelsAreMarked, CancelPc
  <2>2. call'[s].cancelling => call'[s].due = call[s].due
    BY <1>10, <1>2, MarksMove
  <2> QED BY <1>1, <1>10, <2>1, <2>2 DEF CancelCorrectFind, tables
<1>11. CASE CancelMark(s)
  <2>1. call[s].cancelling /\ call[s].pc = "cancel_mark"
    BY <1>11 DEF CancelMark, CancelsAreMarked, CancelPc
  <2>2. ~call'[s].cancelling /\ (d # call[s].due => due'[d] = due[d])
    BY <1>11 DEF TypeOK, CancelMark, Return, Idle
  <2> QED BY <1>1, <2>1, <2>2
<1> QED BY <1>3, <1>4, <1>5, <1>6, <1>7, <1>8, <1>9, <1>10, <1>11 DEF OutsideAction

LEMMA GivenUpBefore ==
    ASSUME TypeOK, TypeOK', CallsHaveDues, CancelsAreMarked, [Next]_vars,
           ~\E s \in Sessions : RecordCommit(s) \/ ConfirmCommit(s),
           NEW d \in Dues, GivenUp(d)'
    PROVE  GivenUp(d) \/ NoneVerified(d)
<1> USE DEF GivenUp, Cancelling
<1>1. CASE \E s \in Sessions : OutsideAction(s)
  BY <1>1, CancelShape
<1>2. CASE due' = due /\ call' = call
  BY <1>2
<1>3. ASSUME NEW s \in Sessions, due' = due, ~call'[s].cancelling,
             \A t \in Sessions : t # s => call'[t] = call[t]
      PROVE  GivenUp(d)
  BY <1>3
<1>4. \A s \in Sessions : RollBack(s) =>
          /\ due' = due /\ ~call'[s].cancelling
          /\ \A t \in Sessions : t # s => call'[t] = call[t]
  BY DEF TypeOK, RollBack, Return, Idle, tables
<1>5. \A s \in Sessions, e \in Dues, a \in Amounts, r \in ReceiptIds : RecordLock(s, e, a, r) =>
          /\ due' = due /\ ~call'[s].cancelling
          /\ \A t \in Sessions : t # s => call'[t] = call[t]
  BY DEF TypeOK, RecordLock, Idle, tables
<1>6. \A s \in Sessions, r \in ReceiptIds : ConfirmLockReceipt(s, r) =>
          /\ due' = due /\ ~call'[s].cancelling
          /\ \A t \in Sessions : t # s => call'[t] = call[t]
  BY DEF TypeOK, ConfirmLockReceipt, Idle, tables
<1>7. ASSUME NEW s \in Sessions, due' = due, call[s].pc # "cancel_receipts",
             call'[s].cancelling = call[s].cancelling, call'[s].due = call[s].due,
             \A t \in Sessions : t # s => call'[t] = call[t]
      PROVE  GivenUp(d)
  BY <1>7
<1>8. ASSUME NEW s \in Sessions, NEW to, PassSum(s, to)
       PROVE  /\ due' = due /\ call'[s].cancelling = call[s].cancelling
              /\ call'[s].due = call[s].due /\ \A t \in Sessions : t # s => call'[t] = call[t]
  BY <1>8 DEF TypeOK, PassSum, tables
<1>9. ASSUME NEW s \in Sessions, ConfirmLockDue(s)
       PROVE  /\ due' = due /\ call'[s].cancelling = call[s].cancelling
              /\ call'[s].due = call[s].due /\ call[s].pc = "confirm_lock_due"
              /\ \A t \in Sessions : t # s => call'[t] = call[t]
  BY <1>9 DEF TypeOK, ConfirmLockDue, tables
<1>10. ASSUME \E s \in Sessions :
                  \/ call[s].pc = "record_sum" /\ PassSum(s, "record_commit")
                  \/ call[s].pc = "confirm_sum" /\ PassSum(s, "confirm_commit")
                  \/ ConfirmLockDue(s)
       PROVE  GivenUp(d)
  <2> HIDE DEF GivenUp
  <2>1. PICK s \in Sessions :
                  \/ call[s].pc = "record_sum" /\ PassSum(s, "record_commit")
                  \/ call[s].pc = "confirm_sum" /\ PassSum(s, "confirm_commit")
                  \/ ConfirmLockDue(s)
    BY <1>10
  <2> QED BY <1>7, <1>8, <1>9, <2>1
<1>11. \A e \in Dues, a \in Amounts, r \in ReceiptIds : UploadReceipt(e, a, r) => due' = due /\ call' = call
  BY DEF UploadReceipt
<1>12. UNCHANGED vars => due' = due /\ call' = call
  BY DEF vars
<1> QED
  <2> HIDE DEF GivenUp
  <2> QED BY StepKinds, <1>1, <1>2, <1>3, <1>4, <1>5, <1>6, <1>11, <1>12, <1>10

LEMMA NoneCounted ==
    ASSUME TypeOK, NEW d \in Dues, NoneVerified(d)
    PROVE  PaidTotal(d) = 0
BY CountedType, TotalZero DEF NoneVerified, Counted, PaidTotal

LEMMA CancelInvStep ==
    ASSUME LedgerInv, LedgerInv', CancelInv, PaymentsApart, [Next]_vars
    PROVE  CancelInv'
<1>0. /\ TypeOK /\ TypeOK' /\ CallsHaveDues /\ ReceiptsReserved /\ ReadsStillHold
      /\ CancelsAreMarked
  BY DEF LedgerInv, Discipline, CancelInv
<1>1. CancelsAreMarked'
  BY <1>0, CancelsAreMarkedStep
<1>2. ASSUME NEW d \in Dues, GivenUp(d)' PROVE PaidTotal(d)' = 0
  <2>1. CASE ~\E s \in Sessions : RecordCommit(s) \/ ConfirmCommit(s)
    <3>1. PaidTotal(d)' = PaidTotal(d)
      BY <1>0, <2>1, OnlyCommitsCount
    <3>2. GivenUp(d) \/ NoneVerified(d)
      BY <1>0, <1>2, <2>1, GivenUpBefore
    <3> QED BY <1>0, <3>1, <3>2, NoneCounted DEF CancelInv
  <2>2. ASSUME NEW s \in Sessions, RecordCommit(s) \/ ConfirmCommit(s)
        PROVE  PaidTotal(d)' = 0
    <3>1. CommitStep(s) /\ call[s].pc \in {"record_commit", "confirm_commit"}
      BY <1>0, <2>2, CommitShape DEF RecordCommit, ConfirmCommit
    <3>2. \A t \in Sessions : call'[t] = IF t = s THEN Idle ELSE call[t]
      BY <1>0, <3>1 DEF CommitStep, TypeOK
    <3>3. d # call[s].due /\ due'[d] = due[d]
      <4>1. due'[call[s].due].status # "cancelled"
        BY <3>1 DEF CommitStep, NextStatus
      <4>2. d # call[s].due
        BY <1>2, <3>1, <3>2, <4>1 DEF PaymentsApart, GivenUp, Cancelling, Idle
      <4> QED BY <3>1, <4>2 DEF CommitStep
    <3>4. GivenUp(d)
      BY <1>2, <3>2, <3>3 DEF GivenUp, Cancelling, Idle
    <3>5. PaidTotal(d)' = PaidTotal(d)
      BY <1>0, <2>2, <3>3, PaidTotalCommit
    <3> QED BY <3>4, <3>5 DEF CancelInv
  <2> QED BY <2>1, <2>2
<1> QED BY <1>1, <1>2 DEF CancelInv

(* A payment committed beside a cancellation, or after it, is the only      *)
(* cause of money on a cancelled due: without one there is none, for any    *)
(* number of corrections, cancellations and crashes.                        *)
THEOREM RacesAreTheOnlyCause == Spec => OnlyRacesStrand
<1>1. Init => CancelInv
  <2>1. ASSUME Init PROVE CancelsAreMarked
    BY <2>1 DEF Init, CancelsAreMarked, CancelPc, Idle
  <2>2. ASSUME Init, NEW d \in Dues PROVE ~GivenUp(d)
    BY <2>2 DEF Init, GivenUp, Cancelling, Idle
  <2> QED BY <2>1, <2>2 DEF CancelInv
<1>2. LedgerInv /\ LedgerInv' /\ CancelInv /\ PaymentsApart /\ [Next]_vars => CancelInv'
  BY CancelInvStep
<1>3. CancelInv => CancelledHoldsNoMoney
  BY DEF CancelInv, GivenUp, CancelledHoldsNoMoney
<1> QED BY <1>1, <1>2, <1>3, Invariance, PTL DEF Spec, OnlyRacesStrand

-----------------------------------------------------------------------------
(* Payments *)

PaymentInv == LedgerInv /\ BooksBalance

(* No money is counted on a due that is not assessed. *)
LEMMA AbsentHoldsNothing ==
    ASSUME LedgerInv, NEW d \in Dues, ~Exists(d)
    PROVE  PaidTotal(d) = 0
<1>1. Counted(d) \in [ReceiptIds -> Nat]
  BY CountedType DEF LedgerInv
<1>2. \A r \in ReceiptIds : Counted(d)[r] = 0
  <2>1. \A r \in ReceiptIds : receipt[r].status # "absent" => Exists(receipt[r].due)
    BY DEF LedgerInv, Discipline, ReceiptsBelong
  <2> QED BY <2>1 DEF Counted
<1> QED BY <1>1, <1>2, TotalZero DEF PaidTotal

(* A committed payment is positive, is made on an open due and leaves it    *)
(* balanced.                                                                *)
LEMMA CommitBalances ==
    ASSUME PaymentInv, TypeOK', NEW s \in Sessions, RecordCommit(s) \/ ConfirmCommit(s),
           NEW d \in Dues, d = call[s].due
    PROVE  LET x == call[s].amount
           IN  /\ x \in 1..MaxAmount
               /\ PaidTotal(d) \in Nat /\ due[d].amount \in Nat
               /\ PaidTotal(d)' = PaidTotal(d) + x
               /\ PaidTotal(d) + x <= due[d].amount
               /\ due[d].status \in {"unpaid", "partially_paid"}
               /\ due'[d].amount = due[d].amount
               /\ due'[d].status = IF PaidTotal(d) + x = due[d].amount
                                   THEN "paid" ELSE "partially_paid"
               /\ \A e \in Dues : e # d => due'[e] = due[e] /\ PaidTotal(e)' = PaidTotal(e)
<1> DEFINE x == call[s].amount
<1>0. /\ TypeOK /\ CallsHaveDues /\ ReceiptsReserved /\ ReadsStillHold /\ BooksBalance
      /\ call[s].pc \in {"record_commit", "confirm_commit"}
  BY DEF PaymentInv, LedgerInv, Discipline, RecordCommit, ConfirmCommit
<1>1. CommitStep(s)
  BY <1>0, CommitShape
<1>2. Exists(d) /\ x > 0
  BY <1>0, <1>1 DEF CommitStep, CallsHaveDues, PaymentPc
<1>3. x \in 1..MaxAmount /\ due[d].amount \in Nat
  <2>1. x \in Amounts /\ due[d].amount \in Amounts
    BY <1>0, <1>2 DEF TypeOK, Call, DueRow
  <2> QED BY <1>2, <2>1, LedgerAssumption DEF Amounts
<1>4. PaidTotal(d) \in Nat
  BY <1>0, <1>2, PaidTotalNat
<1>5. /\ PaidTotal(d)' = PaidTotal(d) + x
      /\ \A e \in Dues : e # d => PaidTotal(e)' = PaidTotal(e)
  BY <1>0, <1>2, PaidTotalCommit
<1>6. call[s].paid = PaidTotal(d) /\ call[s].seen = due[d].amount /\ x <= call[s].seen - call[s].paid
  BY <1>0 DEF ReadsStillHold
<1>7. PaidTotal(d) + x <= due[d].amount /\ PaidTotal(d) < due[d].amount
  BY <1>3, <1>4, <1>6
<1>8. due[d].status \in {"unpaid", "partially_paid"}
  <2>1. due[d].status = IF PaidTotal(d) = 0 THEN "unpaid"
                        ELSE NextStatus(PaidTotal(d), due[d].amount)
    BY <1>0, <1>2 DEF BooksBalance
  <2> QED BY <1>3, <1>4, <1>7, <2>1 DEF NextStatus
<1>9. due'[d].status = IF PaidTotal(d) + x = due[d].amount THEN "paid" ELSE "partially_paid"
  <2>1. due'[d].status = NextStatus(PaidTotal(d) + x, due[d].amount)
    BY <1>1, <1>6 DEF CommitStep
  <2> HIDE DEF x
  <2> QED BY <1>3, <1>4, <1>7, <2>1 DEF NextStatus
<1> QED BY <1>1, <1>2, <1>3, <1>4, <1>5, <1>7, <1>8, <1>9 DEF CommitStep

(* What the other steps of PaymentSpec do to the books. *)
LEMMA OtherPaymentSteps ==
    ASSUME LedgerInv, LedgerInv', [PaymentNext]_vars,
           ~\E s \in Sessions : RecordCommit(s) \/ ConfirmCommit(s)
    PROVE  /\ \A d \in Dues : PaidTotal(d)' = PaidTotal(d)
           /\ \/ \E s \in Sessions, d \in Dues, a \in Amounts : AssessDue(s, d, a)
              \/ \A d \in Dues : due'[d].status = due[d].status /\ due'[d].amount = due[d].amount
<1>1. [Next]_vars
  BY DEF Next
<1>2. \A d \in Dues : PaidTotal(d)' = PaidTotal(d)
  BY <1>1, OnlyCommitsCount DEF LedgerInv
<1>3. ASSUME NEW s \in Sessions, AssessBasis(s)
      PROVE  \A d \in Dues : due'[d].status = due[d].status /\ due'[d].amount = due[d].amount
  BY <1>3 DEF AssessBasis, LedgerInv, TypeOK, DueRow
<1>4. CASE UNCHANGED due
  BY <1>2, <1>4
<1> QED BY <1>2, <1>3, <1>4 DEF PaymentNext, UploadReceipt, RecordLock, RecordSum, ConfirmSum,
        SumReceipts, ConfirmLockReceipt, ConfirmLockDue, Crash, tables, vars

LEMMA BooksBalanceStep ==
    ASSUME PaymentInv, LedgerInv', [PaymentNext]_vars
    PROVE  BooksBalance'
<1>0. LedgerInv /\ TypeOK' /\ TypeOK
  BY DEF PaymentInv, LedgerInv
<1>1. ASSUME NEW s \in Sessions, RecordCommit(s) \/ ConfirmCommit(s)
      PROVE  BooksBalance'
  <2> DEFINE x == call[s].amount
  <2>0. PICK d \in Dues : d = call[s].due
    BY <1>0, <1>1, CommitShape DEF LedgerInv, Discipline, CommitStep
  <2>1. /\ x \in 1..MaxAmount
        /\ PaidTotal(d) \in Nat /\ due[d].amount \in Nat
        /\ PaidTotal(d)' = PaidTotal(d) + x
        /\ PaidTotal(d) + x <= due[d].amount
        /\ due'[d].amount = due[d].amount
        /\ due'[d].status = IF PaidTotal(d) + x = due[d].amount THEN "paid" ELSE "partially_paid"
        /\ \A e \in Dues : e # d => due'[e] = due[e] /\ PaidTotal(e)' = PaidTotal(e)
    BY <1>0, <1>1, <2>0, CommitBalances
  <2>2. ASSUME NEW e \in Dues, Exists(e)'
        PROVE  /\ PaidTotal(e)' <= due'[e].amount
               /\ due'[e].status = IF PaidTotal(e)' = 0 THEN "unpaid"
                                   ELSE NextStatus(PaidTotal(e)', due'[e].amount)
    <3>1. CASE e = d
      <4> DEFINE p == PaidTotal(d)
      <4>1. PaidTotal(e)' = p + x /\ due'[e].amount = due[d].amount
        BY <2>1, <3>1
      <4>2. /\ p + x <= due[d].amount /\ p + x # 0
            /\ due'[e].status = NextStatus(p + x, due[d].amount)
        <5> HIDE DEF p, x
        <5>1. p \in Nat /\ x \in 1..MaxAmount /\ due[d].amount \in Nat
              /\ p + x <= due[d].amount
          BY <2>1 DEF p
        <5>2. due'[e].status = IF p + x = due[d].amount THEN "paid" ELSE "partially_paid"
          BY <2>1, <3>1 DEF p
        <5> QED BY <5>1, <5>2, LedgerAssumption DEF NextStatus
      <4> QED BY <4>1, <4>2
    <3>2. CASE e # d
      <4>1. due'[e] = due[e] /\ PaidTotal(e)' = PaidTotal(e)
        BY <2>1, <3>2
      <4>2. Exists(e)
        BY <2>2, <4>1 DEF Exists
      <4> QED BY <4>1, <4>2 DEF PaymentInv, BooksBalance
    <3> QED BY <3>1, <3>2
  <2> QED BY <2>2 DEF BooksBalance
<1>2. ASSUME NEW s \in Sessions, NEW d \in Dues, NEW a \in Amounts, AssessDue(s, d, a),
             \A e \in Dues : PaidTotal(e)' = PaidTotal(e)
      PROVE  BooksBalance'
  <2>1. PaidTotal(d) = 0
    BY <1>0, <1>2, AbsentHoldsNothing DEF AssessDue
  <2>2. /\ due'[d].status = "unpaid" /\ due'[d].amount = a
        /\ \A e \in Dues : e # d => due'[e] = due[e]
    BY <1>0, <1>2 DEF AssessDue, TypeOK
  <2>3. 0 <= a
    BY LedgerAssumption DEF Amounts
  <2>4. ASSUME NEW e \in Dues, Exists(e)'
        PROVE  /\ PaidTotal(e)' <= due'[e].amount
               /\ due'[e].status = IF PaidTotal(e)' = 0 THEN "unpaid"
                                   ELSE NextStatus(PaidTotal(e)', due'[e].amount)
    <3>1. CASE e = d
      <4>1. PaidTotal(e)' = 0
        BY <1>2, <2>1, <3>1
      <4> QED BY <2>2, <2>3, <3>1, <4>1
    <3>2. CASE e # d
      <4>1. due'[e] = due[e] /\ PaidTotal(e)' = PaidTotal(e)
        BY <1>2, <2>2, <3>2
      <4>2. Exists(e)
        BY <2>4, <4>1 DEF Exists
      <4> QED BY <4>1, <4>2 DEF PaymentInv, BooksBalance
    <3> QED BY <3>1, <3>2
  <2> QED BY <2>4 DEF BooksBalance
<1>3. ASSUME \A e \in Dues : PaidTotal(e)' = PaidTotal(e),
             \A e \in Dues : due'[e].status = due[e].status /\ due'[e].amount = due[e].amount
      PROVE  BooksBalance'
  <2>1. ASSUME NEW e \in Dues, Exists(e)'
        PROVE  /\ PaidTotal(e)' <= due'[e].amount
               /\ due'[e].status = IF PaidTotal(e)' = 0 THEN "unpaid"
                                   ELSE NextStatus(PaidTotal(e)', due'[e].amount)
    <3>1. Exists(e)
      BY <1>3, <2>1 DEF Exists
    <3>2. /\ PaidTotal(e)' = PaidTotal(e)
          /\ due'[e].status = due[e].status /\ due'[e].amount = due[e].amount
      BY <1>3
    <3> QED BY <3>1, <3>2 DEF PaymentInv, BooksBalance
  <2> QED BY <2>1 DEF BooksBalance
<1> QED BY <1>0, <1>1, <1>2, <1>3, OtherPaymentSteps

LEMMA PaymentInvStep ==
    ASSUME PaymentInv, [PaymentNext]_vars
    PROVE  PaymentInv'
<1>1. LedgerInv'
  <2>1. [Next]_vars
    BY DEF Next
  <2> QED BY <2>1, InvStep DEF PaymentInv
<1> QED BY <1>1, BooksBalanceStep DEF PaymentInv

(* While nobody corrects or cancels, the counted total of every due stays   *)
(* within its amount and its status says how the two compare, for any       *)
(* number of concurrent recordPayment, confirmPayment and uploadReceipt.    *)
THEOREM BooksAlwaysBalance == PaymentSpec => []BooksBalance
<1>1. Init => PaymentInv
  BY InvInit DEF PaymentInv, BooksBalance, Init, Exists
<1>2. PaymentInv /\ [PaymentNext]_vars => PaymentInv'
  BY PaymentInvStep
<1>3. PaymentInv => BooksBalance
  BY DEF PaymentInv
<1> QED BY <1>1, <1>2, <1>3, PTL DEF PaymentSpec

-----------------------------------------------------------------------------
LEMMA AccountInit ==
    ASSUME Init
    PROVE  Ledger!Init
<1>1. LedgerInv
  BY InvInit
<1>2. \A d \in Dues : PaidTotal(d) = 0
  BY <1>1, AbsentHoldsNothing DEF Init, Exists
<1> QED BY <1>2 DEF Init, Account, Ledger!Init

(* A committing call is one instalment on the account of its due. *)
LEMMA CommitIsInstalment ==
    ASSUME PaymentInv, TypeOK', NEW s \in Sessions, RecordCommit(s) \/ ConfirmCommit(s)
    PROVE  \E d \in Dues, x \in 1..MaxAmount : Ledger!Receive(d, x)
<1>1. PICK d \in Dues : d = call[s].due
  BY CommitShape DEF PaymentInv, LedgerInv, Discipline, CommitStep
<1>2. PICK x \in 1..MaxAmount : x = call[s].amount
  BY <1>1, CommitBalances
<1>3. /\ PaidTotal(d) \in Nat /\ due[d].amount \in Nat
      /\ PaidTotal(d)' = PaidTotal(d) + x
      /\ PaidTotal(d) + x <= due[d].amount
      /\ due[d].status \in {"unpaid", "partially_paid"}
      /\ due'[d].amount = due[d].amount
      /\ due'[d].status = IF PaidTotal(d) + x = due[d].amount THEN "paid" ELSE "partially_paid"
      /\ \A e \in Dues : e # d => due'[e] = due[e] /\ PaidTotal(e)' = PaidTotal(e)
  BY <1>1, <1>2, CommitBalances
<1> DEFINE acc(e) == [status |-> due[e].status, amount |-> due[e].amount, received |-> PaidTotal(e)]
           after == [status |-> IF PaidTotal(d) + x = due[d].amount THEN "paid"
                                ELSE "partially_paid",
                     amount |-> due[d].amount, received |-> PaidTotal(d) + x]
<1>4. Account = [e \in Dues |-> acc(e)] /\ Account' = [e \in Dues |-> acc(e)']
  BY DEF Account
<1>5. acc(d)' = after
  BY <1>3
<1>6. ASSUME NEW e \in Dues, e # d PROVE acc(e)' = acc(e)
  BY <1>3, <1>6
<1>7. /\ Account[d].status = due[d].status /\ Account[d].amount = due[d].amount
      /\ Account[d].received = PaidTotal(d)
  BY <1>4
<1>8. Account' = [Account EXCEPT ![d] = after]
  <2> HIDE DEF acc, after
  <2> QED BY <1>4, <1>5, <1>6
<1>9. Ledger!Receive(d, x)
  BY <1>3, <1>7, <1>8 DEF Ledger!Receive
<1> QED BY <1>9

LEMMA AssessIsAssess ==
    ASSUME PaymentInv, NEW s \in Sessions, NEW d \in Dues, NEW a \in Amounts,
           AssessDue(s, d, a), \A e \in Dues : PaidTotal(e)' = PaidTotal(e)
    PROVE  Ledger!Assess(d, a)
<1>1. PaidTotal(d) = 0 /\ due[d].status = "absent"
  BY AbsentHoldsNothing DEF PaymentInv, AssessDue, Exists
<1>2. /\ due'[d].status = "unpaid" /\ due'[d].amount = a
      /\ \A e \in Dues : e # d => due'[e] = due[e]
  BY DEF AssessDue, PaymentInv, LedgerInv, TypeOK
<1> DEFINE acc(e) == [status |-> due[e].status, amount |-> due[e].amount, received |-> PaidTotal(e)]
<1>3. Account = [e \in Dues |-> acc(e)] /\ Account' = [e \in Dues |-> acc(e)']
  BY DEF Account
<1>4. PaidTotal(d)' = 0
  BY <1>1
<1>5. acc(d)' = [status |-> "unpaid", amount |-> a, received |-> 0]
  BY <1>2, <1>4
<1>6. ASSUME NEW e \in Dues, e # d PROVE acc(e)' = acc(e)
  BY <1>2, <1>6
<1>7. Account[d].status = "absent"
  BY <1>1, <1>3
<1>8. Account' = [Account EXCEPT ![d] = [status |-> "unpaid", amount |-> a, received |-> 0]]
  <2> HIDE DEF acc
  <2> QED BY <1>3, <1>5, <1>6
<1> QED BY <1>7, <1>8 DEF Ledger!Assess

(* The concurrent payment transactions, their locks and their crashes do    *)
(* what PaymentLedger promises: each step is one instalment within what is  *)
(* owed, one assessment, or nothing the account shows.                      *)
THEOREM PaymentsRefine == PaymentSpec => PaymentsAreInstalments
<1>1. Init => PaymentInv
  BY InvInit DEF PaymentInv, BooksBalance, Init, Exists
<1>2. PaymentInv /\ [PaymentNext]_vars => PaymentInv'
  BY PaymentInvStep
<1>3. Init => Ledger!Init
  BY AccountInit
<1>4. PaymentInv /\ PaymentInv' /\ [PaymentNext]_vars => [Ledger!Next]_Account
  <2> SUFFICES ASSUME PaymentInv, PaymentInv', [PaymentNext]_vars
               PROVE  Ledger!Next \/ Account' = Account
    OBVIOUS
  <2>0. LedgerInv /\ LedgerInv' /\ TypeOK'
    BY DEF PaymentInv, LedgerInv
  <2>1. CASE \E s \in Sessions : RecordCommit(s) \/ ConfirmCommit(s)
    BY <2>0, <2>1, CommitIsInstalment DEF Ledger!Next
  <2>2. CASE ~\E s \in Sessions : RecordCommit(s) \/ ConfirmCommit(s)
    <3>1. \A d \in Dues : PaidTotal(d)' = PaidTotal(d)
      BY <2>0, <2>2, OtherPaymentSteps
    <3>2. ASSUME NEW s \in Sessions, NEW d \in Dues, NEW a \in Amounts, AssessDue(s, d, a)
          PROVE  Ledger!Next
      <4>1. Ledger!Assess(d, a)
        BY <3>1, <3>2, AssessIsAssess
      <4> QED BY <4>1 DEF Ledger!Next, Amounts
    <3>3. ASSUME \A d \in Dues : due'[d].status = due[d].status /\ due'[d].amount = due[d].amount
          PROVE  Account' = Account
      BY <3>1, <3>3 DEF Account
    <3> QED BY <2>0, <2>2, <3>2, <3>3, OtherPaymentSteps
  <2> QED BY <2>1, <2>2
<1> QED BY <1>1, <1>2, <1>3, <1>4, PTL DEF PaymentSpec, PaymentsAreInstalments, Ledger!Spec
=============================================================================
