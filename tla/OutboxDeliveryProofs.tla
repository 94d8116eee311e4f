------------------------ MODULE OutboxDeliveryProofs ------------------------
(***************************************************************************)
(* What the outbox and its workers guarantee for any number of messages,   *)
(* workers and overlapping ticks, any retry budget and any set of faults.  *)
(*                                                                         *)
(* TypeOK, OneTickPerMessage and BudgetKept are not inductive by           *)
(* themselves.  OutboxInv adds what ties a tick to its row: a tick that    *)
(* has selected a row finds it open until it commits (it holds the row     *)
(* lock), a tick that goes on to send it finds it 'processing', and only   *)
(* a row with attempts left is open.                                       *)
(***************************************************************************)
EXTENDS OutboxDelivery, FiniteSetTheorems, TLAPS

(* What a tick may rely on about the row it works on. *)
TickHoldsRow ==
    \A t \in Tick :
        /\ pc[t] = "idle" <=> job[t] = NoMessage
        /\ pc[t] = "claim" => state[job[t]] \in Open
        /\ pc[t] \in {"resolve", "deliver", "succeed"} => state[job[t]] = "processing"
        /\ pc[t] \in {"fail", "failing"} =>
              \/ state[job[t]] = "processing"
              \/ state[job[t]] = "published" /\ "database" \in Faults
        /\ pc[t] \in {"resolve", "deliver"} =>
              sent[job[t]] + strayed[job[t]] < attempts[job[t]]
        /\ pc[t] = "failing" => seen[t] = attempts[job[t]]

(* A row that can still be claimed has attempts left. *)
BudgetInv ==
    \A m \in Messages :
        /\ sent[m] + strayed[m] <= attempts[m]
        /\ state[m] \in Open \cup {"absent", "written"} => attempts[m] < MaxAttempts
        /\ state[m] = "dead" => attempts[m] = MaxAttempts

OutboxInv == TypeOK /\ TickHoldsRow /\ OneTickPerMessage /\ BudgetInv

-----------------------------------------------------------------------------
(* Outbox rows begin unsent with the whole budget, and no tick runs. *)
LEMMA InitInv == Init => OutboxInv
  BY OutboxAssumption
     DEF Init, OutboxInv, TypeOK, TickHoldsRow, OneTickPerMessage, BudgetInv,
         State, Open, Pc, Busy

(* The API adds messages and rows; time passes; workers start and stop:     *)
(* none of this touches a row that a tick holds.                            *)
LEMMA EnvironmentInv ==
    ASSUME OutboxInv,
           \/ \E m \in Messages : \/ CreateMessage(m) \/ CreateOutboxMessage(m)
                                  \/ ApiCrash(m) \/ Elapse(m)
           \/ \E w \in Workers : Start(w) \/ Stop(w) \/ Crash(w)
           \/ UNCHANGED vars
    PROVE  OutboxInv'
<1> USE OutboxAssumption DEF OutboxInv, TypeOK, TickHoldsRow, OneTickPerMessage,
        BudgetInv, State, Open, Pc, Busy, rowVars, sendVars, tickVars
<1>1. CASE \E m \in Messages : CreateMessage(m)
  BY <1>1 DEF CreateMessage
<1>2. CASE \E m \in Messages : CreateOutboxMessage(m)
  BY <1>2 DEF CreateOutboxMessage
<1>3. CASE \E m \in Messages : ApiCrash(m)
  BY <1>3 DEF ApiCrash
<1>4. CASE \E m \in Messages : Elapse(m)
  BY <1>4 DEF Elapse
<1>5. CASE \E w \in Workers : Start(w) \/ Stop(w)
  <2>1. CASE \E w \in Workers : Start(w)
    BY <2>1 DEF Start
  <2>2. CASE \E w \in Workers : Stop(w)
    BY <2>2 DEF Stop
  <2>3. QED BY <1>5, <2>1, <2>2
<1>6. CASE \E w \in Workers : Crash(w)
  BY <1>6 DEF Crash
<1>7. CASE UNCHANGED vars
  BY <1>7 DEF vars
<1>8. QED BY <1>1, <1>2, <1>3, <1>4, <1>5, <1>6, <1>7

(* Each step of a tick keeps the invariant: the row it changes is its own,  *)
(* and no other tick is busy with that row.                                 *)
LEMMA TickInv ==
    ASSUME OutboxInv, NEW t \in Tick, TickStep(t)
    PROVE  OutboxInv'
<1> USE OutboxAssumption DEF OutboxInv, TypeOK, TickHoldsRow, OneTickPerMessage,
        BudgetInv, State, Open, Pc, Busy, rowVars, sendVars, tickVars, Goto, End
<1>1. CASE ClaimSelect(t)
  BY <1>1 DEF ClaimSelect, Due, Locked
<1>2. CASE ClaimCommit(t)
  BY <1>2 DEF ClaimCommit, MarkClaimed
<1>3. CASE ClaimError(t)
  <2>1. CASE MarkClaimed(job[t])
    <3>1. job[t] \in Messages /\ attempts[job[t]] \in 0..MaxAttempts /\ attempts[job[t]] < MaxAttempts
      BY <1>3 DEF ClaimError
    <3>2. TypeOK'
      BY <1>3, <2>1, <3>1 DEF ClaimError, MarkClaimed
    <3>3. TickHoldsRow'
      BY <1>3, <2>1, <3>1 DEF ClaimError, MarkClaimed
    <3>4. OneTickPerMessage' /\ BudgetInv'
      BY <1>3, <2>1, <3>1 DEF ClaimError, MarkClaimed
    <3>5. QED BY <3>2, <3>3, <3>4
  <2>2. CASE UNCHANGED rowVars
    BY <1>3, <2>2 DEF ClaimError
  <2>3. QED BY <1>3, <2>1, <2>2 DEF ClaimError
<1>4. CASE Resolve(t)
  BY <1>4 DEF Resolve
<1>5. CASE Deliver(t)
  <2>1. CASE Accept(t)
    BY <1>5, <2>1 DEF Deliver, Accept
  <2>2. CASE UNCHANGED sendVars
    BY <1>5, <2>2 DEF Deliver, Accept
  <2>3. QED BY <1>5, <2>1, <2>2 DEF Deliver
<1>6. CASE RecordSucceeded(t)
  BY <1>6 DEF RecordSucceeded, Publish, RecordAttempt
<1>7. CASE RecordSucceededError(t)
  <2>1. CASE Publish(job[t])
    BY <1>7, <2>1 DEF RecordSucceededError, Publish, RecordAttempt
  <2>2. CASE UNCHANGED <<rowVars, recorded>>
    BY <1>7, <2>2 DEF RecordSucceededError
  <2>3. QED BY <1>7, <2>1, <2>2 DEF RecordSucceededError
<1>8. CASE EvidenceError(t)
  BY <1>8 DEF EvidenceError
<1>9. CASE FailedRead(t)
  BY <1>9 DEF FailedRead
<1>10. CASE RecordFailed(t)
  <2>1. /\ job[t] \in Messages
        /\ seen[t] = attempts[job[t]]
        /\ attempts[job[t]] \in 0..MaxAttempts
    BY <1>10 DEF RecordFailed
  <2>2. CASE IsDead(seen[t])
    <3>1. attempts[job[t]] = MaxAttempts
      <4>1. seen[t] >= MaxAttempts
        BY <2>2 DEF IsDead
      <4>2. QED BY <2>1, <4>1
    <3>2. /\ state' = [state EXCEPT ![job[t]] = "dead"]
          /\ waiting' = [waiting EXCEPT ![job[t]] = FALSE]
      BY <1>10, <2>2 DEF RecordFailed
    <3>3. TypeOK'
      BY <1>10, <2>1, <3>2 DEF RecordFailed, RecordAttempt
    <3>4. TickHoldsRow' /\ OneTickPerMessage'
      BY <1>10, <2>1, <3>2 DEF RecordFailed
    <3>5. BudgetInv'
      BY <1>10, <2>1, <3>1, <3>2 DEF RecordFailed
    <3>6. QED BY <3>3, <3>4, <3>5
  <2>3. CASE ~IsDead(seen[t])
    <3>1. attempts[job[t]] < MaxAttempts
      BY <2>1, <2>3 DEF IsDead
    <3>2. /\ state' = [state EXCEPT ![job[t]] = "retry"]
          /\ waiting' = [waiting EXCEPT ![job[t]] = TRUE]
      BY <1>10, <2>3 DEF RecordFailed
    <3>3. TypeOK'
      BY <1>10, <2>1, <3>2 DEF RecordFailed, RecordAttempt
    <3>4. TickHoldsRow' /\ OneTickPerMessage'
      BY <1>10, <2>1, <3>2 DEF RecordFailed
    <3>5. BudgetInv'
      BY <1>10, <2>1, <3>1, <3>2 DEF RecordFailed
    <3>6. QED BY <3>3, <3>4, <3>5
  <2>4. QED BY <2>2, <2>3
<1>11. CASE RecordFailedError(t)
  BY <1>11 DEF RecordFailedError
<1>12. QED
  BY <1>1, <1>2, <1>3, <1>4, <1>5, <1>6, <1>7, <1>8, <1>9, <1>10, <1>11 DEF TickStep

(* Every reachable state satisfies the inductive invariant. *)
THEOREM Invariance == Spec => []OutboxInv
<1>1. OutboxInv /\ [Next]_vars => OutboxInv'
  BY EnvironmentInv, TickInv DEF Next
<1>2. QED BY InitInv, <1>1, PTL DEF Spec

(* Every state of the outbox is well typed; attempt_count stays within the  *)
(* budget.                                                                  *)
THEOREM TypeCorrect == Spec => []TypeOK
<1>1. OutboxInv => TypeOK
  BY DEF OutboxInv
<1>2. QED BY Invariance, <1>1, PTL

(* claimNext is exclusive: no two ticks of any workers ever work on the     *)
(* same message.                                                            *)
THEOREM ClaimIsExclusive == Spec => []OneTickPerMessage
<1>1. OutboxInv => OneTickPerMessage
  BY DEF OutboxInv
<1>2. QED BY Invariance, <1>1, PTL

(* No message is sent more often than its attempts were counted, and a dead *)
(* one has used them all and is in no tick's hands.                         *)
THEOREM BudgetIsKept == Spec => []BudgetKept
<1>1. OutboxInv => BudgetKept
  BY DEF OutboxInv, BudgetKept, BudgetInv, TickHoldsRow, TypeOK, Busy, Pc, Open
<1>2. QED BY Invariance, <1>1, PTL

-----------------------------------------------------------------------------
(* A message that is settled for good, as FinalStates means it. *)
Settled(m) == \/ state[m] = "dead"
              \/ state[m] = "published" /\ "database" \notin Faults

(* Only the tick that holds a row changes it, and no tick holds a settled   *)
(* one.                                                                     *)
LEMMA SettledStays ==
    ASSUME OutboxInv, [Next]_vars, NEW m \in Messages, Settled(m)
    PROVE  state'[m] = state[m] /\ sent'[m] = sent[m]
<1> USE DEF OutboxInv, TypeOK, TickHoldsRow, Settled, Open, Pc, rowVars, sendVars, tickVars
<1>1. CASE UNCHANGED vars
  BY <1>1 DEF vars
<1>2. ASSUME NEW k \in Messages,
             CreateMessage(k) \/ CreateOutboxMessage(k) \/ ApiCrash(k) \/ Elapse(k)
      PROVE  state'[m] = state[m] /\ sent'[m] = sent[m]
  BY <1>2 DEF CreateMessage, CreateOutboxMessage, ApiCrash, Elapse
<1>3. ASSUME NEW w \in Workers, Start(w) \/ Stop(w) \/ Crash(w)
      PROVE  state'[m] = state[m] /\ sent'[m] = sent[m]
  BY <1>3 DEF Start, Stop, Crash
<1>4. ASSUME NEW t \in Tick, TickStep(t)
      PROVE  state'[m] = state[m] /\ sent'[m] = sent[m]
  <2>1. pc[t] # "idle" => job[t] \in Messages /\ job[t] # m
    OBVIOUS
  <2>2. CASE ClaimSelect(t) \/ Resolve(t) \/ EvidenceError(t) \/ FailedRead(t)
                \/ RecordFailedError(t)
    BY <2>2 DEF ClaimSelect, Resolve, EvidenceError, FailedRead, RecordFailedError
  <2>3. CASE ClaimCommit(t) \/ ClaimError(t)
    BY <2>1, <2>3 DEF ClaimCommit, ClaimError, MarkClaimed
  <2>4. CASE Deliver(t)
    BY <2>1, <2>4 DEF Deliver, Accept
  <2>5. CASE RecordSucceeded(t) \/ RecordSucceededError(t)
    BY <2>1, <2>5 DEF RecordSucceeded, RecordSucceededError, Publish
  <2>6. CASE RecordFailed(t)
    BY <2>1, <2>6 DEF RecordFailed
  <2>7. QED BY <1>4, <2>2, <2>3, <2>4, <2>5, <2>6 DEF TickStep
<1>5. QED BY <1>1, <1>2, <1>3, <1>4 DEF Next

(* Dead is final, and published too unless a COMMIT may lose its answer. *)
THEOREM SettledIsFinal == Spec => FinalStates
<1>1. OutboxInv /\ [Next]_vars =>
        [\A m \in Messages :
            \/ state[m] = "dead"
            \/ state[m] = "published" /\ "database" \notin Faults
            => state'[m] = state[m] /\ sent'[m] = sent[m]]_vars
  BY SettledStays DEF Settled
<1>2. QED BY Invariance, <1>1, PTL DEF Spec, FinalStates

-----------------------------------------------------------------------------
(***************************************************************************)
(* Attempts and their rows.  The tick that has counted an attempt has not  *)
(* yet added its row; there is one such tick at most (OneTickPerMessage).  *)
(***************************************************************************)
UnderWay(t) == pc[t] \notin {"idle", "claim"}

RecordedInv ==
    /\ \A t \in Tick : UnderWay(t) => attempts[job[t]] = recorded[job[t]] + 1
    /\ \A m \in Messages :
          attempts[m] = recorded[m] \/ \E t \in Tick : UnderWay(t) /\ job[t] = m

(* The faults that leave an attempt without its row. *)
Faultless == Faults \cap {"worker", "database", "evidence"} = {}

LEMMA RecordedStep ==
    ASSUME Faultless, OutboxInv, RecordedInv, [Next]_vars
    PROVE  RecordedInv'
<1> USE DEF Faultless, OutboxInv, TypeOK, TickHoldsRow, OneTickPerMessage, Busy, RecordedInv,
            UnderWay, Pc, rowVars, sendVars, tickVars, Goto, End
<1>1. CASE UNCHANGED vars
  BY <1>1 DEF vars
<1>2. ASSUME NEW k \in Messages,
             CreateMessage(k) \/ CreateOutboxMessage(k) \/ ApiCrash(k) \/ Elapse(k)
      PROVE  RecordedInv'
  <2>1. UNCHANGED <<attempts, recorded, pc, job>>
    BY <1>2 DEF CreateMessage, CreateOutboxMessage, ApiCrash, Elapse
  <2>2. QED BY <2>1
<1>3. ASSUME NEW w \in Workers, Start(w) \/ Stop(w) \/ Crash(w)
      PROVE  RecordedInv'
  <2>1. UNCHANGED <<attempts, recorded, pc, job>>
    BY <1>3 DEF Start, Stop, Crash
  <2>2. QED BY <2>1
<1>4. ASSUME NEW t \in Tick, TickStep(t)
      PROVE  RecordedInv'
  <2>1. CASE ClaimSelect(t)
    BY <2>1 DEF ClaimSelect
  <2>2. CASE ClaimCommit(t)
    <3>1. /\ job[t] \in Messages /\ UNCHANGED <<recorded, job>> /\ pc[t] = "claim"
          /\ pc' = [pc EXCEPT ![t] = "resolve"]
          /\ attempts' = [attempts EXCEPT ![job[t]] = @ + 1]
      BY <2>2 DEF ClaimCommit, MarkClaimed
    <3>2. \A u \in Tick : UnderWay(u) => job[u] # job[t]
      BY <3>1
    <3>3. attempts[job[t]] = recorded[job[t]]
      BY <3>1, <3>2
    <3>4. \A u \in Tick : UnderWay(u)' => attempts'[job'[u]] = recorded'[job'[u]] + 1
      BY <3>1, <3>2, <3>3
    <3>5. \A m \in Messages :
            attempts'[m] = recorded'[m] \/ \E u \in Tick : UnderWay(u)' /\ job'[u] = m
      BY <3>1, <3>2, <3>3
    <3>6. QED BY <3>4, <3>5
  <2>3. CASE Resolve(t) \/ Deliver(t) \/ FailedRead(t)
    <3>1. /\ UNCHANGED <<attempts, recorded, job>> /\ UnderWay(t)
          /\ \E l \in {"deliver", "succeed", "fail", "failing"} : pc' = [pc EXCEPT ![t] = l]
      BY <2>3 DEF Resolve, Deliver, FailedRead
    <3>2. \A u \in Tick : UnderWay(u)' <=> UnderWay(u)
      BY <3>1
    <3>3. QED BY <3>1, <3>2
  <2>4. CASE RecordSucceeded(t) \/ RecordFailed(t)
    <3>1. /\ UNCHANGED attempts /\ UnderWay(t) /\ job[t] \in Messages
          /\ pc' = [pc EXCEPT ![t] = "idle"] /\ job' = [job EXCEPT ![t] = NoMessage]
          /\ recorded' = [recorded EXCEPT ![job[t]] = @ + 1]
      BY <2>4 DEF RecordSucceeded, RecordFailed, Publish, RecordAttempt
    <3>2. \A u \in Tick : u # t /\ UnderWay(u) => job[u] # job[t]
      BY <3>1
    <3>3. \A u \in Tick : UnderWay(u)' => u # t /\ UnderWay(u) /\ job'[u] = job[u]
      BY <3>1
    <3>4. \A u \in Tick : UnderWay(u)' => attempts'[job'[u]] = recorded'[job'[u]] + 1
      BY <3>1, <3>2, <3>3
    <3>5. recorded'[job[t]] = attempts'[job[t]]
      BY <3>1
    <3>6. ASSUME NEW m \in Messages, m # job[t]
          PROVE  attempts'[m] = recorded'[m] \/ \E u \in Tick : UnderWay(u)' /\ job'[u] = m
      <4>1. CASE attempts[m] = recorded[m]
        BY <3>1, <3>6, <4>1
      <4>2. ASSUME NEW u \in Tick, UnderWay(u), job[u] = m
            PROVE  UnderWay(u)' /\ job'[u] = m
        BY <3>1, <3>6, <4>2
      <4>3. QED BY <4>1, <4>2
    <3>7. QED BY <3>4, <3>5, <3>6
  <2>5. ~(ClaimError(t) \/ RecordSucceededError(t) \/ EvidenceError(t) \/ RecordFailedError(t))
    BY DEF ClaimError, RecordSucceededError, EvidenceError, RecordFailedError
  <2>6. QED BY <1>4, <2>1, <2>2, <2>3, <2>4, <2>5 DEF TickStep
<1>5. QED BY <1>1, <1>2, <1>3, <1>4 DEF Next

(* At most one attempt is under way, so the rows tell all the others. *)
LEMMA RecordedCount ==
    ASSUME OutboxInv, RecordedInv
    PROVE  EveryAttemptRecorded
<1> SUFFICES ASSUME NEW m \in Messages
             PROVE  attempts[m] = recorded[m] +
                      Cardinality({t \in Tick : job[t] = m /\ pc[t] \notin {"idle", "claim"}})
  BY DEF EveryAttemptRecorded
<1>1. attempts[m] \in Nat /\ recorded[m] \in Nat
  BY DEF OutboxInv, TypeOK
<1>2. CASE \E t \in Tick : UnderWay(t) /\ job[t] = m
  <2>1. PICK t \in Tick : UnderWay(t) /\ job[t] = m
    BY <1>2
  <2>2. {u \in Tick : job[u] = m /\ pc[u] \notin {"idle", "claim"}} = {t}
    BY <2>1 DEF OutboxInv, OneTickPerMessage, Busy, UnderWay
  <2>3. Cardinality({t}) = 1
    BY FS_Singleton
  <2>4. attempts[m] = recorded[m] + 1
    BY <2>1 DEF RecordedInv
  <2>5. QED BY <2>2, <2>3, <2>4
<1>3. CASE ~\E t \in Tick : UnderWay(t) /\ job[t] = m
  <2>1. {u \in Tick : job[u] = m /\ pc[u] \notin {"idle", "claim"}} = {}
    BY <1>3 DEF UnderWay
  <2>2. Cardinality({}) = 0
    BY FS_EmptySet
  <2>3. attempts[m] = recorded[m]
    BY <1>3 DEF RecordedInv
  <2>4. QED BY <1>1, <2>1, <2>2, <2>3
<1>4. QED BY <1>2, <1>3

(* As long as no worker stops, no transaction fails and no attempt row is   *)
(* refused, delivery_attempts tells every attempt that attempt_count counts *)
(* but the one under way, whatever the provider and the lookup do.          *)
THEOREM AttemptsAreRecorded == Faultless => (Spec => []EveryAttemptRecorded)
<1> SUFFICES ASSUME Faultless PROVE Spec => []EveryAttemptRecorded
  OBVIOUS
<1>1. Init => RecordedInv
  BY DEF Init, RecordedInv, UnderWay
<1>2. OutboxInv /\ RecordedInv /\ [Next]_vars => RecordedInv'
  BY RecordedStep
<1>3. OutboxInv /\ RecordedInv => EveryAttemptRecorded
  BY RecordedCount
<1>4. QED BY Invariance, <1>1, <1>2, <1>3, PTL DEF Spec

-----------------------------------------------------------------------------
(***************************************************************************)
(* Which faults make the provider take a message twice: a row that has     *)
(* been handed over is tried again only if its tick came to recordFailed   *)
(* after the provider had taken it.                                        *)
(***************************************************************************)
AnswersArrive == Faults \cap {"answer", "database"} = {}

SentInv ==
    /\ \A m \in Messages :
          \/ sent[m] + strayed[m] = 0
          \/ sent[m] + strayed[m] = 1 /\ state[m] \in {"processing", "published"}
    /\ \A t \in Tick : pc[t] \in {"resolve", "deliver", "fail", "failing"} =>
          sent[job[t]] + strayed[job[t]] = 0

LEMMA SentStep ==
    ASSUME AnswersArrive, OutboxInv, SentInv, [Next]_vars
    PROVE  SentInv'
<1> USE DEF OutboxInv, TypeOK, TickHoldsRow, OneTickPerMessage, Busy, SentInv, Open, Pc,
            rowVars, sendVars, tickVars, Goto, End
<1>1. CASE UNCHANGED vars
  BY <1>1 DEF vars
<1>2. ASSUME NEW k \in Messages,
             CreateMessage(k) \/ CreateOutboxMessage(k) \/ ApiCrash(k) \/ Elapse(k)
      PROVE  SentInv'
  <2>1. UNCHANGED <<sendVars, pc, job>>
    BY <1>2 DEF CreateMessage, CreateOutboxMessage, ApiCrash, Elapse
  <2>2. \A m \in Messages :
          state[m] \in {"processing", "published"} => state'[m] = state[m]
    BY <1>2 DEF CreateMessage, CreateOutboxMessage, ApiCrash, Elapse
  <2>3. QED BY <2>1, <2>2
<1>3. ASSUME NEW w \in Workers, Start(w) \/ Stop(w) \/ Crash(w)
      PROVE  SentInv'
  <2>1. /\ UNCHANGED <<state, sendVars>>
        /\ \A u \in Tick : pc'[u] # "idle" => pc'[u] = pc[u] /\ job'[u] = job[u]
    BY <1>3 DEF Start, Stop, Crash
  <2>2. QED BY <2>1
<1>4. ASSUME NEW t \in Tick, TickStep(t)
      PROVE  SentInv'
  <2>1. pc[t] # "idle" =>
          /\ job[t] \in Messages
          /\ \A u \in Tick : u # t /\ pc[u] # "idle" => job[u] # job[t]
    OBVIOUS
  <2>2. CASE ClaimSelect(t)
    BY <2>2 DEF ClaimSelect
  <2>3. CASE ClaimCommit(t)
    BY <2>1, <2>3 DEF ClaimCommit, MarkClaimed
  <2>4. CASE Resolve(t) \/ FailedRead(t)
    BY <2>1, <2>4 DEF Resolve, FailedRead
  <2>5. CASE Deliver(t)
    <3>1. /\ UNCHANGED <<state, job>>
          /\ sent[job[t]] + strayed[job[t]] = 0 /\ state[job[t]] = "processing"
      BY <2>1, <2>5 DEF Deliver
    <3>2. CASE Accept(t) /\ Goto(t, "succeed")
      <4>1. /\ sent'[job[t]] + strayed'[job[t]] \in {0, 1}
            /\ \A m \in Messages : m # job[t] => sent'[m] = sent[m] /\ strayed'[m] = strayed[m]
        BY <2>1, <2>5, <3>1, <3>2 DEF Accept, Deliver
      <4>2. pc[t] = "deliver" /\ pc' = [pc EXCEPT ![t] = "succeed"]
        BY <2>5, <3>2 DEF Deliver
      <4>3. ASSUME NEW m \in Messages
            PROVE  \/ sent'[m] + strayed'[m] = 0
                   \/ sent'[m] + strayed'[m] = 1 /\ state'[m] \in {"processing", "published"}
        BY <3>1, <4>1
      <4>4. ASSUME NEW u \in Tick, pc'[u] \in {"resolve", "deliver", "fail", "failing"}
            PROVE  sent'[job'[u]] + strayed'[job'[u]] = 0
        <5>1. u # t /\ pc[u] = pc'[u] /\ job'[u] = job[u] /\ job[u] \in Messages
          BY <3>1, <4>2, <4>4
        <5>2. job[u] # job[t]
          BY <2>1, <4>2, <4>4, <5>1
        <5>3. QED BY <4>1, <4>4, <5>1, <5>2
      <4>5. QED BY <4>3, <4>4
    <3>3. CASE UNCHANGED sendVars
      BY <2>1, <2>5, <3>1, <3>3 DEF Deliver
    <3>4. QED BY <2>5, <3>2, <3>3 DEF Deliver, AnswersArrive
  <2>6. CASE RecordSucceeded(t)
    BY <2>1, <2>6 DEF RecordSucceeded, Publish
  <2>7. CASE EvidenceError(t)
    BY <2>1, <2>7 DEF EvidenceError
  <2>8. CASE RecordFailed(t)
    BY <2>1, <2>8 DEF RecordFailed
  <2>9. ~(ClaimError(t) \/ RecordSucceededError(t) \/ RecordFailedError(t))
    BY DEF AnswersArrive, ClaimError, RecordSucceededError, RecordFailedError
  <2>10. QED BY <1>4, <2>2, <2>3, <2>4, <2>5, <2>6, <2>7, <2>8, <2>9 DEF TickStep
<1>5. QED BY <1>1, <1>2, <1>3, <1>4 DEF Next

(* The provider takes no message twice, however workers crash and overlap   *)
(* and whatever else fails, unless its answer is lost or a transaction of   *)
(* the worker fails: deliver sends no key by which it could know the        *)
(* message again.                                                           *)
THEOREM DuplicatesNeedALostAnswer == AnswersArrive => (Spec => []SentOnce)
<1> SUFFICES ASSUME AnswersArrive PROVE Spec => []SentOnce
  OBVIOUS
<1>1. Init => SentInv
  BY DEF Init, SentInv
<1>2. OutboxInv /\ SentInv /\ [Next]_vars => SentInv'
  BY SentStep
<1>3. OutboxInv /\ SentInv => SentOnce
  BY DEF SentOnce, SentInv, OutboxInv, TypeOK
<1>4. QED BY Invariance, <1>1, <1>2, <1>3, PTL DEF Spec

-----------------------------------------------------------------------------
(* Only the step that ends a tick takes it from its row, and only a fault   *)
(* of Faultless ends it without a new state for the row.                    *)
LEMMA ProcessingStep ==
    ASSUME Faultless, OutboxInv, ProcessingHasTick, [Next]_vars
    PROVE  ProcessingHasTick'
<1> USE DEF Faultless, OutboxInv, TypeOK, Busy, ProcessingHasTick, Open, Pc,
            rowVars, sendVars, tickVars, Goto, End
<1>1. CASE UNCHANGED vars
  BY <1>1 DEF vars
<1>2. ASSUME NEW k \in Messages,
             CreateMessage(k) \/ CreateOutboxMessage(k) \/ ApiCrash(k) \/ Elapse(k)
      PROVE  ProcessingHasTick'
  BY <1>2 DEF CreateMessage, CreateOutboxMessage, ApiCrash, Elapse
<1>3. ASSUME NEW w \in Workers, Start(w) \/ Stop(w) \/ Crash(w)
      PROVE  ProcessingHasTick'
  BY <1>3 DEF Start, Stop, Crash
<1>4. ASSUME NEW t \in Tick, TickStep(t)
      PROVE  ProcessingHasTick'
  <2>1. pc[t] # "idle" => job[t] \in Messages
    BY DEF TickHoldsRow
  <2>2. CASE ClaimSelect(t)
    BY <2>2 DEF ClaimSelect
  <2>3. CASE ClaimCommit(t)
    BY <2>1, <2>3 DEF ClaimCommit, MarkClaimed
  <2>4. CASE Resolve(t) \/ Deliver(t) \/ FailedRead(t)
    BY <2>1, <2>4 DEF Resolve, Deliver, FailedRead
  <2>5. CASE RecordSucceeded(t) \/ RecordFailed(t)
    <3>1. /\ pc[t] # "idle"
          /\ pc' = [pc EXCEPT ![t] = "idle"] /\ job' = [job EXCEPT ![t] = NoMessage]
          /\ \E s \in {"published", "dead", "retry"} : state' = [state EXCEPT ![job[t]] = s]
      BY <2>5 DEF RecordSucceeded, RecordFailed, Publish
    <3>2. ASSUME NEW m \in Messages, state'[m] = "processing"
          PROVE  \E u \in Tick : pc'[u] # "idle" /\ job'[u] = m
      <4>1. m # job[t] /\ state[m] = "processing"
        BY <2>1, <3>1, <3>2
      <4>2. PICK u \in Tick : pc[u] # "idle" /\ job[u] = m
        BY <4>1
      <4>3. u # t
        BY <4>1, <4>2
      <4>4. QED BY <3>1, <4>2, <4>3
    <3>3. QED BY <3>2
  <2>6. ~(ClaimError(t) \/ RecordSucceededError(t) \/ EvidenceError(t) \/ RecordFailedError(t))
    BY DEF ClaimError, RecordSucceededError, EvidenceError, RecordFailedError
  <2>7. QED BY <1>4, <2>2, <2>3, <2>4, <2>5, <2>6 DEF TickStep
<1>5. QED BY <1>1, <1>2, <1>3, <1>4 DEF Next

(* A row is left behind in 'processing' by nothing but a worker that stops  *)
(* or an outcome that cannot be recorded: with neither, each such row has   *)
(* a tick that still works on it, whatever the provider does.               *)
THEOREM StuckRowsNeedAFault == Faultless => (Spec => []ProcessingHasTick)
<1> SUFFICES ASSUME Faultless PROVE Spec => []ProcessingHasTick
  OBVIOUS
<1>1. Init => ProcessingHasTick
  BY DEF Init, ProcessingHasTick
<1>2. OutboxInv /\ ProcessingHasTick /\ [Next]_vars => ProcessingHasTick'
  BY ProcessingStep
<1>3. QED BY Invariance, <1>1, <1>2, PTL DEF Spec

-----------------------------------------------------------------------------
(***************************************************************************)
(* The outbox implements MessageDelivery.  The phase of a message in the   *)
(* hands of a tick follows from what the tick does next, because no other  *)
(* tick works on it.                                                       *)
(***************************************************************************)
TickPhases ==
    \A t \in Tick :
        /\ pc[t] # "idle" => job[t] \in Messages
        /\ pc[t] = "claim" => Phase(job[t]) = "queued"
        /\ pc[t] \in {"resolve", "deliver"} => Phase(job[t]) = "held"
        /\ pc[t] = "succeed" => Phase(job[t]) = "passed"
        /\ pc[t] \in {"fail", "failing"} =>
              Phase(job[t]) = IF state[job[t]] = "published" THEN "published" ELSE "failed"

LEMMA PhaseOfTick == OutboxInv => TickPhases
<1> SUFFICES ASSUME OutboxInv, NEW t \in Tick
             PROVE  /\ pc[t] # "idle" => job[t] \in Messages
                    /\ pc[t] = "claim" => Phase(job[t]) = "queued"
                    /\ pc[t] \in {"resolve", "deliver"} => Phase(job[t]) = "held"
                    /\ pc[t] = "succeed" => Phase(job[t]) = "passed"
                    /\ pc[t] \in {"fail", "failing"} =>
                         Phase(job[t]) = IF state[job[t]] = "published" THEN "published" ELSE "failed"
  BY DEF TickPhases
<1> USE DEF OutboxInv, TypeOK, TickHoldsRow, OneTickPerMessage, Busy, Open, Pc, Phase, Progress, InTick
<1>1. pc[t] # "idle" => job[t] \in Messages
  OBVIOUS
<1>2. \A u \in Tick : pc[t] # "idle" /\ job[u] = job[t] => u = t
  BY <1>1
<1>3. CASE pc[t] \in {"claim", "resolve", "deliver", "succeed"}
  BY <1>1, <1>2, <1>3
<1>4. CASE pc[t] \in {"fail", "failing"}
  BY <1>1, <1>2, <1>4
<1>5. QED BY <1>1, <1>3, <1>4

(* A row no tick works on is read off its state alone. *)
FreePhases ==
    \A m \in Messages : (\A t \in Tick : job[t] # m) =>
        Phase(m) = CASE state[m] \in {"absent", "written", "orphan"} -> "none"
                     [] state[m] \in Open                            -> "queued"
                     [] state[m] = "processing"                      -> "failed"
                     [] state[m] \in {"published", "dead"}           -> state[m]

LEMMA PhaseWithoutTick == OutboxInv => FreePhases
  BY DEF FreePhases, Phase, Progress, InTick, OutboxInv, TypeOK, State, Open

(* A message whose row and ticks do not change is what it was. *)
LEMMA PhaseKept ==
    ASSUME NEW k \in Messages, state'[k] = state[k],
           \A t \in Tick : \/ pc'[t] = pc[t] /\ job'[t] = job[t]
                           \/ job[t] # k /\ job'[t] # k
    PROVE  Phase(k)' = Phase(k)
<1>1. ASSUME NEW pcs PROVE InTick(k, pcs)' <=> InTick(k, pcs)
  BY DEF InTick
<1>2. InTick(k, {"resolve", "deliver"})' <=> InTick(k, {"resolve", "deliver"})
  BY <1>1
<1>3. InTick(k, {"succeed"})' <=> InTick(k, {"succeed"})
  BY <1>1
<1>4. QED BY <1>2, <1>3 DEF Phase, Progress

(* The message in the hands of a tick, and the rest of the office: what a   *)
(* step that changes at most the row of m leaves of every other message.    *)
LEMMA OthersKept ==
    ASSUME OutboxInv, NEW t \in Tick, NEW m \in Messages,
           \A k \in Messages : k # m => /\ state'[k] = state[k] /\ attempts'[k] = attempts[k]
                                         /\ sent'[k] = sent[k] /\ strayed'[k] = strayed[k],
           \A u \in Tick : u # t => pc'[u] = pc[u] /\ job'[u] = job[u],
           job[t] \in {m, NoMessage}, job'[t] \in {m, NoMessage}
    PROVE  \A k \in Messages : k # m => Parcel'[k] = Parcel[k]
<1> SUFFICES ASSUME NEW k \in Messages, k # m PROVE Parcel'[k] = Parcel[k]
  OBVIOUS
<1>1. Phase(k)' = Phase(k)
  <2>1. job[t] # k /\ job'[t] # k
    BY OutboxAssumption
  <2>2. \A u \in Tick : \/ pc'[u] = pc[u] /\ job'[u] = job[u]
                        \/ job[u] # k /\ job'[u] # k
    BY <2>1
  <2>3. QED BY <2>2, PhaseKept
<1>2. QED BY <1>1 DEF Parcel

(* What the promises say of a message that moves, or is handed over. *)
LEMMA ParcelMoves ==
    ASSUME NEW m \in Messages, NEW p, \A k \in Messages : k # m => Parcel'[k] = Parcel[k],
           Phase(m)' = p, attempts'[m] = attempts[m],
           sent'[m] + strayed'[m] = sent[m] + strayed[m]
    PROVE  Parcel' = [Parcel EXCEPT ![m].phase = p]
  BY DEF Parcel

LEMMA ParcelCharged ==
    ASSUME NEW m \in Messages, NEW p, \A k \in Messages : k # m => Parcel'[k] = Parcel[k],
           Phase(m)' = p, attempts'[m] = attempts[m] + 1,
           sent'[m] + strayed'[m] = sent[m] + strayed[m]
    PROVE  Parcel' = [Parcel EXCEPT ![m].phase = p, ![m].charged = @ + 1]
  BY DEF Parcel

LEMMA ParcelHanded ==
    ASSUME NEW m \in Messages, NEW p, \A k \in Messages : k # m => Parcel'[k] = Parcel[k],
           Phase(m)' = p, attempts'[m] = attempts[m],
           sent'[m] + strayed'[m] = sent[m] + strayed[m] + 1
    PROVE  Parcel' = [Parcel EXCEPT ![m].phase = p, ![m].handed = @ + 1]
  BY DEF Parcel

(* A tick that selects a row changes nothing the owner of a message can see. *)
LEMMA SelectionIsHidden ==
    ASSUME OutboxInv, NEW t \in Tick, ClaimSelect(t)
    PROVE  Parcel' = Parcel
<1>1. PICK k \in Messages : Due(k) /\ ~Locked(k) /\ job' = [job EXCEPT ![t] = k]
  BY DEF ClaimSelect
<1>2. /\ pc[t] = "idle" /\ job[t] = NoMessage
      /\ UNCHANGED <<state, attempts, sent, strayed>> /\ pc' = [pc EXCEPT ![t] = "claim"]
  BY DEF ClaimSelect, OutboxInv, TickHoldsRow, Goto, rowVars, sendVars
<1>3. \A j \in Messages : j # k => Parcel'[j] = Parcel[j]
  BY <1>1, <1>2, OthersKept DEF OutboxInv, TypeOK
<1>4. Phase(k) = "queued" /\ Phase(k)' = "queued"
  BY <1>1, <1>2 DEF Due, Phase, Open
<1>5. QED
  BY <1>2, <1>3, <1>4 DEF Parcel

(* Every other step of a tick moves the message it works on as promised, or *)
(* changes nothing that its owner can see.                                  *)
LEMMA TickDelivers ==
    ASSUME OutboxInv, OutboxInv', NEW t \in Tick, NEW m \in Messages,
           job[t] = m, pc[t] # "idle", TickStep(t)
    PROVE  [Delivery!Next]_Parcel
<1>1. TickPhases /\ TickPhases' /\ FreePhases /\ FreePhases'
  BY PhaseOfTick, PhaseWithoutTick, PTL
<1>2. ASSUME job' = [job EXCEPT ![t] = NoMessage]
      PROVE  \A u \in Tick : job'[u] # m
  <2>1. \A u \in Tick : u # t => job[u] # m
    BY OutboxAssumption DEF OutboxInv, TickHoldsRow, OneTickPerMessage, Busy
  <2>2. QED BY <1>2, <2>1, OutboxAssumption DEF OutboxInv, TypeOK
<1>3. CASE ClaimCommit(t)
  <2>1. /\ pc[t] = "claim" /\ UNCHANGED <<sent, strayed, job>>
        /\ pc' = [pc EXCEPT ![t] = "resolve"]
        /\ state' = [state EXCEPT ![m] = "processing"]
        /\ attempts' = [attempts EXCEPT ![m] = @ + 1]
    BY <1>3 DEF ClaimCommit, MarkClaimed, Goto, sendVars, tickVars
  <2>2. m \in Messages
    BY <2>1
  <2>3. \A k \in Messages : k # m => Parcel'[k] = Parcel[k]
    BY <2>1, <2>2, OthersKept DEF OutboxInv, TypeOK
  <2>4. Phase(m) = "queued" /\ Phase(m)' = "held"
    BY <1>1, <2>1 DEF TickPhases, OutboxInv, TypeOK
  <2>5. attempts[m] < MaxAttempts /\ attempts'[m] = attempts[m] + 1
    BY <2>1, <2>2 DEF OutboxInv, TypeOK, TickHoldsRow, BudgetInv, Open
  <2>6. Parcel' = [Parcel EXCEPT ![m].phase = "held", ![m].charged = @ + 1]
    BY <2>1, <2>2, <2>3, <2>4, <2>5, ParcelCharged
  <2>7. Delivery!Charge(m, "held")
    BY <2>2, <2>4, <2>5, <2>6 DEF Delivery!Charge, Delivery!Phase, Parcel
  <2>8. QED BY <2>2, <2>7 DEF Delivery!Next
<1>4. CASE ClaimError(t)
  <2>1. /\ pc[t] = "claim" /\ UNCHANGED <<sent, strayed>>
        /\ pc' = [pc EXCEPT ![t] = "idle"] /\ job' = [job EXCEPT ![t] = NoMessage]
    BY <1>4 DEF ClaimError, End, sendVars
  <2>2. m \in Messages /\ Phase(m) = "queued"
    BY <1>1, <2>1 DEF TickPhases
  <2>3. CASE MarkClaimed(m)
    <3>1. /\ state' = [state EXCEPT ![m] = "processing"]
          /\ attempts' = [attempts EXCEPT ![m] = @ + 1]
      BY <2>3 DEF MarkClaimed
    <3>2. \A k \in Messages : k # m => Parcel'[k] = Parcel[k]
      BY <2>1, <2>2, <3>1, OthersKept DEF OutboxInv, TypeOK
    <3>3. Phase(m)' = "failed"
      BY <1>1, <1>2, <2>1, <2>2, <3>1 DEF FreePhases, OutboxInv, TypeOK, Open
    <3>4. attempts[m] < MaxAttempts /\ attempts'[m] = attempts[m] + 1
      BY <2>1, <2>2, <3>1 DEF OutboxInv, TypeOK, TickHoldsRow, BudgetInv, Open
    <3>5. Parcel' = [Parcel EXCEPT ![m].phase = "failed", ![m].charged = @ + 1]
      BY <2>1, <2>2, <3>2, <3>3, <3>4, ParcelCharged
    <3>6. Delivery!Charge(m, "failed")
      BY <2>2, <3>4, <3>5 DEF Delivery!Charge, Delivery!Phase, Parcel
    <3>7. QED BY <2>2, <3>6 DEF Delivery!Next
  <2>4. CASE UNCHANGED rowVars
    <3>1. \A k \in Messages : k # m => Parcel'[k] = Parcel[k]
      BY <2>1, <2>2, <2>4, OthersKept DEF OutboxInv, TypeOK, rowVars
    <3>2. Phase(m)' = "queued"
      BY <1>1, <2>1, <2>2, <2>4 DEF Phase, Open, OutboxInv, TickHoldsRow, rowVars
    <3>3. Parcel' = Parcel
      BY <2>1, <2>2, <2>4, <3>1, <3>2 DEF Parcel, rowVars
    <3>4. QED BY <3>3
  <2>5. QED BY <1>4, <2>3, <2>4 DEF ClaimError
<1>5. CASE Resolve(t) \/ FailedRead(t)
  <2>1. /\ UNCHANGED <<state, attempts, sent, strayed, job>> /\ pc[t] # "idle"
        /\ \/ pc[t] = "resolve" /\ pc' = [pc EXCEPT ![t] = "deliver"]
           \/ pc[t] = "fail" /\ pc' = [pc EXCEPT ![t] = "failing"]
    BY <1>5 DEF Resolve, FailedRead, Goto, rowVars, sendVars
  <2>2. m \in Messages
    BY <2>1
  <2>3. \A k \in Messages : k # m => Parcel'[k] = Parcel[k]
    BY <2>1, <2>2, OthersKept DEF OutboxInv, TypeOK
  <2>4. Phase(m)' = Phase(m)
    BY <1>1, <2>1 DEF TickPhases, OutboxInv, TypeOK
  <2>5. Parcel' = Parcel
    BY <2>1, <2>3, <2>4 DEF Parcel
  <2>6. QED BY <2>5
<1>6. CASE Deliver(t)
  <2>1. /\ pc[t] = "deliver" /\ UNCHANGED <<state, attempts, job>>
        /\ pc' \in {[pc EXCEPT ![t] = "succeed"], [pc EXCEPT ![t] = "fail"]}
    BY <1>6 DEF Deliver, Goto, rowVars, tickVars
  <2>2. m \in Messages /\ Phase(m) = "held"
    BY <1>1, <2>1 DEF TickPhases
  <2>3. Phase(m)' = IF pc'[t] = "succeed" THEN "passed" ELSE "failed"
    BY <1>1, <2>1 DEF TickPhases, OutboxInv, TypeOK, TickHoldsRow
  <2>4. \A k \in Messages : k # m => sent'[k] = sent[k] /\ strayed'[k] = strayed[k]
    <3>1. Accept(t) => \A k \in Messages : k # m => sent'[k] = sent[k] /\ strayed'[k] = strayed[k]
      BY <2>2 DEF Accept, OutboxInv, TypeOK
    <3>2. Accept(t) \/ UNCHANGED sendVars
      BY <1>6 DEF Deliver
    <3>3. QED BY <3>1, <3>2 DEF sendVars
  <2>5. \A k \in Messages : k # m => Parcel'[k] = Parcel[k]
    <3>1. job' = job /\ \A u \in Tick : u # t => pc'[u] = pc[u] /\ job'[u] = job[u]
      BY <2>1 DEF OutboxInv, TypeOK
    <3>2. \A k \in Messages : k # m => state'[k] = state[k] /\ attempts'[k] = attempts[k]
      BY <2>1
    <3>3. QED BY <2>2, <2>4, <3>1, <3>2, OthersKept
  <2>6. CASE Accept(t)
    <3>1. target[t] \in {"recipient", "mock"}
      BY <2>6, OutboxAssumption, <2>2
         DEF Accept, Skips, Undeliverable, OutboxInv, TypeOK
    <3>2. sent'[m] + strayed'[m] = sent[m] + strayed[m] + 1
      BY <2>2, <2>6, <3>1 DEF Accept, OutboxInv, TypeOK
    <3>3. Parcel' = [Parcel EXCEPT ![m].phase = Phase(m)', ![m].handed = @ + 1]
      BY <2>1, <2>2, <2>5, <3>2, ParcelHanded
    <3>4. Delivery!HandOver(m, "passed") \/ Delivery!HandOver(m, "failed")
      BY <2>2, <2>3, <3>3 DEF Delivery!HandOver, Delivery!Phase, Parcel
    <3>5. QED BY <2>2, <3>4 DEF Delivery!Next
  <2>7. CASE UNCHANGED sendVars
    <3>1. sent'[m] + strayed'[m] = sent[m] + strayed[m]
      BY <2>7 DEF sendVars
    <3>2. Parcel' = [Parcel EXCEPT ![m].phase = Phase(m)']
      BY <2>1, <2>2, <2>5, <3>1, ParcelMoves
    <3>3. CASE pc'[t] = "succeed"
      <4>1. Skips(t) \/ Accept(t)
        BY <1>6, <2>1, <3>3 DEF Deliver, Goto, OutboxInv, TypeOK
      <4>2. CASE Skips(t)
        <5>1. Channel[m] # "sms"
          BY <4>2 DEF Skips
        <5>2. Delivery!Skip(m)
          BY <2>2, <2>3, <3>2, <3>3, <5>1 DEF Delivery!Skip, Delivery!Move, Delivery!Phase, Parcel
        <5>3. QED BY <2>2, <5>2 DEF Delivery!Next
      <4>3. QED BY <2>6, <4>1, <4>2
    <3>4. CASE pc'[t] # "succeed"
      <4>1. Parcel' = [j \in Messages |->
                          IF j \in {m} THEN [Parcel[j] EXCEPT !.phase = "failed"] ELSE Parcel[j]]
        BY <2>3, <3>2, <3>4 DEF Parcel
      <4>2. Delivery!Fail({m})
        BY <2>2, <4>1 DEF Delivery!Fail, Delivery!Phase, Parcel
      <4>3. QED BY <2>2, <4>2 DEF Delivery!Next
    <3>5. QED BY <3>3, <3>4
  <2>8. QED BY <1>6, <2>6, <2>7 DEF Deliver
<1>7. CASE EvidenceError(t) \/ RecordFailedError(t)
  <2>1. /\ pc[t] \in {"succeed", "fail", "failing"}
        /\ UNCHANGED <<state, attempts, sent, strayed>>
        /\ pc' = [pc EXCEPT ![t] = "idle"] /\ job' = [job EXCEPT ![t] = NoMessage]
    BY <1>7 DEF EvidenceError, RecordFailedError, End, rowVars, sendVars
  <2>2. m \in Messages
    BY <2>1
  <2>3. \A k \in Messages : k # m => Parcel'[k] = Parcel[k]
    BY <2>1, <2>2, OthersKept DEF OutboxInv, TypeOK
  <2>4. /\ state[m] \in {"processing", "published"}
        /\ Phase(m)' = IF state[m] = "published" THEN "published" ELSE "failed"
    BY <1>1, <1>2, <2>1, <2>2 DEF FreePhases, OutboxInv, TickHoldsRow, Open
  <2>5. CASE pc[t] = "succeed"
    <3>1. Phase(m) = "passed" /\ Phase(m)' = "failed"
      BY <1>1, <2>1, <2>4, <2>5 DEF TickPhases, OutboxInv, TickHoldsRow
    <3>2. Parcel' = [j \in Messages |->
                        IF j \in {m} THEN [Parcel[j] EXCEPT !.phase = "failed"] ELSE Parcel[j]]
      BY <2>1, <2>2, <2>3, <3>1 DEF Parcel
    <3>3. Delivery!Fail({m})
      BY <2>2, <3>1, <3>2 DEF Delivery!Fail, Delivery!Phase, Parcel
    <3>4. QED BY <2>2, <3>3 DEF Delivery!Next
  <2>6. CASE pc[t] # "succeed"
    <3>1. Phase(m) = Phase(m)'
      BY <1>1, <2>1, <2>4, <2>6 DEF TickPhases
    <3>2. Parcel' = Parcel
      BY <2>1, <2>3, <3>1 DEF Parcel
    <3>3. QED BY <3>2
  <2>7. QED BY <2>5, <2>6
<1>8. CASE RecordSucceeded(t) \/ RecordSucceededError(t)
  <2>1. pc[t] = "succeed" /\ UNCHANGED <<sent, strayed>>
    BY <1>8 DEF RecordSucceeded, RecordSucceededError, sendVars
  <2>2. m \in Messages /\ Phase(m) = "passed" /\ state[m] = "processing"
    BY <1>1, <2>1 DEF TickPhases, OutboxInv, TickHoldsRow
  <2>3. \/ pc' = [pc EXCEPT ![t] = "idle"] /\ job' = [job EXCEPT ![t] = NoMessage]
        \/ pc' = [pc EXCEPT ![t] = "fail"] /\ job' = job
    BY <1>8 DEF RecordSucceeded, RecordSucceededError, End, Goto, tickVars
  <2>4. CASE Publish(m)
    <3>1. attempts' = attempts /\ state' = [state EXCEPT ![m] = "published"]
      BY <2>4 DEF Publish
    <3>2. \A k \in Messages : k # m => Parcel'[k] = Parcel[k]
      BY <2>1, <2>2, <2>3, <3>1, OthersKept DEF OutboxInv, TypeOK
    <3>3. Phase(m)' = "published"
      BY <2>2, <3>1 DEF Phase, OutboxInv, TypeOK, Open
    <3>4. Parcel' = [Parcel EXCEPT ![m].phase = "published"]
      BY <2>1, <2>2, <3>1, <3>2, <3>3, ParcelMoves
    <3>5. Delivery!Publish(m)
      BY <2>2, <3>4 DEF Delivery!Publish, Delivery!Move, Delivery!Phase, Parcel
    <3>6. QED BY <2>2, <3>5 DEF Delivery!Next
  <2>5. CASE UNCHANGED <<rowVars, recorded>> /\ pc' = [pc EXCEPT ![t] = "fail"] /\ job' = job
    <3>1. \A k \in Messages : k # m => Parcel'[k] = Parcel[k]
      BY <2>1, <2>2, <2>5, OthersKept DEF OutboxInv, TypeOK, rowVars
    <3>2. Phase(m)' = "failed"
      BY <1>1, <2>2, <2>5 DEF TickPhases, OutboxInv, TypeOK, rowVars
    <3>3. Parcel' = [j \in Messages |->
                        IF j \in {m} THEN [Parcel[j] EXCEPT !.phase = "failed"] ELSE Parcel[j]]
      BY <2>1, <2>2, <2>5, <3>1, <3>2 DEF Parcel, rowVars
    <3>4. Delivery!Fail({m})
      BY <2>2, <3>3 DEF Delivery!Fail, Delivery!Phase, Parcel
    <3>5. QED BY <2>2, <3>4 DEF Delivery!Next
  <2>6. QED BY <1>8, <2>4, <2>5 DEF RecordSucceeded, RecordSucceededError, Goto, tickVars
<1>9. CASE RecordFailed(t)
  <2>1. /\ pc[t] = "failing" /\ UNCHANGED <<attempts, sent, strayed>>
        /\ pc' = [pc EXCEPT ![t] = "idle"] /\ job' = [job EXCEPT ![t] = NoMessage]
        /\ state' = [state EXCEPT ![m] = IF IsDead(seen[t]) THEN "dead" ELSE "retry"]
    BY <1>9 DEF RecordFailed, End, sendVars
  <2>2. m \in Messages /\ seen[t] = attempts[m] /\ attempts[m] \in 0..MaxAttempts
    BY <2>1 DEF OutboxInv, TypeOK, TickHoldsRow
  <2>3. Delivery!Failed(m)
    BY <1>1, <2>1, <2>2 DEF TickPhases, OutboxInv, TickHoldsRow, Delivery!Failed, Delivery!Phase, Parcel
  <2>4. \A k \in Messages : k # m => Parcel'[k] = Parcel[k]
    BY <2>1, <2>2, OthersKept DEF OutboxInv, TypeOK
  <2>5. CASE IsDead(attempts[m])
    <3>1. attempts[m] = MaxAttempts
      BY <2>2, <2>5, OutboxAssumption DEF IsDead
    <3>2. Phase(m)' = "dead"
      BY <2>1, <2>2, <2>5 DEF Phase, OutboxInv, TypeOK, Open
    <3>3. Parcel' = [Parcel EXCEPT ![m].phase = "dead"]
      BY <2>1, <2>2, <2>4, <3>2, ParcelMoves
    <3>4. Delivery!GiveUp(m)
      BY <2>2, <2>3, <3>1, <3>3 DEF Delivery!GiveUp, Delivery!Move, Parcel
    <3>5. QED BY <2>2, <3>4 DEF Delivery!Next
  <2>6. CASE ~IsDead(attempts[m])
    <3>1. attempts[m] < MaxAttempts
      BY <2>2, <2>6, OutboxAssumption DEF IsDead
    <3>2. Phase(m)' = "queued"
      BY <2>1, <2>2, <2>6 DEF Phase, OutboxInv, TypeOK, Open
    <3>3. Parcel' = [Parcel EXCEPT ![m].phase = "queued"]
      BY <2>1, <2>2, <2>4, <3>2, ParcelMoves
    <3>4. Delivery!Retry(m)
      BY <2>2, <2>3, <3>1, <3>3 DEF Delivery!Retry, Delivery!Move, Parcel
    <3>5. QED BY <2>2, <3>4 DEF Delivery!Next
  <2>7. QED BY <2>5, <2>6
<1>10. QED
  BY <1>3, <1>4, <1>5, <1>6, <1>7, <1>8, <1>9 DEF TickStep, ClaimSelect

(* Messages are written and become due, and workers start, stop and die: a  *)
(* process that dies fails the attempts of its ticks and nothing else.      *)
LEMMA EnvironmentDelivers ==
    ASSUME OutboxInv, OutboxInv',
           \/ \E m \in Messages : \/ CreateMessage(m) \/ CreateOutboxMessage(m)
                                  \/ ApiCrash(m) \/ Elapse(m)
           \/ \E w \in Workers : Start(w) \/ Stop(w) \/ Crash(w)
           \/ UNCHANGED vars
    PROVE  [Delivery!Next]_Parcel
<1>1. TickPhases /\ TickPhases' /\ FreePhases /\ FreePhases'
  BY PhaseOfTick, PhaseWithoutTick, PTL
<1>2. ASSUME NEW m \in Messages,
             CreateMessage(m) \/ CreateOutboxMessage(m) \/ ApiCrash(m) \/ Elapse(m)
      PROVE  [Delivery!Next]_Parcel
  <2>1. UNCHANGED <<attempts, sent, strayed, pc, job>>
    BY <1>2 DEF CreateMessage, CreateOutboxMessage, ApiCrash, Elapse, sendVars, tickVars
  <2>2. \A k \in Messages : k # m => state'[k] = state[k]
    BY <1>2 DEF CreateMessage, CreateOutboxMessage, ApiCrash, Elapse, OutboxInv, TypeOK
  <2>3. \A k \in Messages : k # m => Parcel'[k] = Parcel[k]
    <3>1. ASSUME NEW k \in Messages, k # m PROVE Phase(k)' = Phase(k)
      BY <2>1, <2>2, <3>1, PhaseKept
    <3>2. QED BY <2>1, <3>1 DEF Parcel
  <2>4. CASE CreateOutboxMessage(m)
    <3>1. Phase(m) = "none" /\ Phase(m)' = "queued"
      BY <2>4 DEF CreateOutboxMessage, Phase, Open, OutboxInv, TypeOK
    <3>2. Parcel' = [Parcel EXCEPT ![m].phase = "queued"]
      BY <2>1, <2>3, <3>1, ParcelMoves
    <3>3. Delivery!Enqueue(m)
      BY <3>1, <3>2 DEF Delivery!Enqueue, Delivery!Move, Delivery!Phase, Parcel
    <3>4. QED BY <3>3 DEF Delivery!Next
  <2>5. CASE CreateMessage(m) \/ ApiCrash(m)
    <3>1. Phase(m) = "none" /\ Phase(m)' = "none"
      BY <2>5 DEF CreateMessage, ApiCrash, Phase, Open, OutboxInv, TypeOK
    <3>2. QED BY <2>1, <2>3, <3>1 DEF Parcel
  <2>6. CASE Elapse(m)
    <3>1. Phase(m)' = Phase(m)
      BY <2>1, <2>6, PhaseKept DEF Elapse
    <3>2. QED BY <2>1, <2>3, <3>1 DEF Parcel
  <2>7. QED BY <1>2, <2>4, <2>5, <2>6
<1>3. CASE UNCHANGED <<state, attempts, sent, strayed, pc, job>>
  <2>1. ASSUME NEW k \in Messages PROVE Phase(k)' = Phase(k)
    BY <1>3, PhaseKept
  <2>2. Parcel' = Parcel
    BY <1>3, <2>1 DEF Parcel
  <2>3. QED BY <2>2
<1>4. ASSUME NEW w \in Workers, Crash(w)
      PROVE  [Delivery!Next]_Parcel
  <2> DEFINE Mine(t) == t[1] = w /\ pc[t] \in {"resolve", "deliver", "succeed"}
             M == {m \in Messages : \E t \in Tick : Mine(t) /\ job[t] = m}
  <2>1. /\ UNCHANGED <<state, attempts, sent, strayed>>
        /\ pc' = [t \in Tick |-> IF t[1] = w THEN "idle" ELSE pc[t]]
        /\ job' = [t \in Tick |-> IF t[1] = w THEN NoMessage ELSE job[t]]
    BY <1>4 DEF Crash, rowVars, sendVars
  <2>2. ASSUME NEW m \in M
        PROVE  Phase(m) \in {"held", "passed"} /\ Phase(m)' = "failed"
    <3>1. PICK t \in Tick : t[1] = w /\ pc[t] \in {"resolve", "deliver", "succeed"} /\ job[t] = m
      OBVIOUS
    <3>2. Phase(m) \in {"held", "passed"} /\ state[m] = "processing"
      BY <1>1, <3>1 DEF TickPhases, OutboxInv, TickHoldsRow
    <3>3. \A u \in Tick : job'[u] # m
      BY <2>1, <3>1, OutboxAssumption DEF OutboxInv, TickHoldsRow, OneTickPerMessage, Busy
    <3>4. Phase(m)' = "failed"
      BY <1>1, <2>1, <3>2, <3>3 DEF FreePhases, Open
    <3>5. QED BY <3>2, <3>4
  <2>3. ASSUME NEW m \in Messages, m \notin M
        PROVE  Phase(m)' = Phase(m)
    <3>1. CASE \E t \in Tick : t[1] = w /\ job[t] = m
      <4>1. PICK t \in Tick : t[1] = w /\ job[t] = m
        BY <3>1
      <4>2. pc[t] \in {"claim", "fail", "failing"}
        BY <2>3, <4>1, OutboxAssumption DEF OutboxInv, TypeOK, TickHoldsRow, Pc
      <4>3. \A u \in Tick : job'[u] # m
        BY <2>1, <4>1, <4>2, OutboxAssumption DEF OutboxInv, TickHoldsRow, OneTickPerMessage, Busy
      <4>4. /\ state[m] \in Open \cup {"processing", "published"}
            /\ Phase(m) = IF state[m] \in Open THEN "queued"
                          ELSE IF state[m] = "processing" THEN "failed" ELSE "published"
        BY <1>1, <4>1, <4>2 DEF TickPhases, OutboxInv, TickHoldsRow, Open
      <4>5. Phase(m)' = IF state[m] \in Open THEN "queued"
                        ELSE IF state[m] = "processing" THEN "failed" ELSE "published"
        BY <1>1, <2>1, <4>3, <4>4 DEF FreePhases, Open
      <4>6. QED BY <4>4, <4>5
    <3>2. CASE ~\E t \in Tick : t[1] = w /\ job[t] = m
      <4>1. \A t \in Tick : \/ pc'[t] = pc[t] /\ job'[t] = job[t]
                            \/ job[t] # m /\ job'[t] # m
        BY <2>1, <3>2, OutboxAssumption
      <4>2. QED BY <2>1, <4>1, PhaseKept
    <3>3. QED BY <3>1, <3>2
  <2> HIDE DEF M
  <2>4. M \subseteq Messages
    BY DEF M
  <2>5. Parcel' = [m \in Messages |->
                      IF m \in M THEN [Parcel[m] EXCEPT !.phase = "failed"] ELSE Parcel[m]]
    BY <2>1, <2>2, <2>3, <2>4 DEF Parcel
  <2>6. Delivery!Fail(M)
    BY <2>2, <2>4, <2>5 DEF Delivery!Fail, Delivery!Phase, Parcel
  <2>7. QED BY <2>4, <2>6 DEF Delivery!Next
<1>5. CASE UNCHANGED vars
  BY <1>3, <1>5 DEF vars, rowVars, sendVars, tickVars
<1>6. CASE \E w \in Workers : Start(w) \/ Stop(w)
  BY <1>3, <1>6 DEF Start, Stop, rowVars, sendVars, tickVars
<1>7. QED BY <1>2, <1>4, <1>5, <1>6

(* The outbox and its workers, with every overlap of ticks and every set of *)
(* faults, implement the delivery promised to the owner of a message: one   *)
(* hand-over per charged attempt, no text published unless the publishing   *)
(* attempt handed it over, and nothing after the end.                       *)
THEOREM OutboxRefines == Spec => DeliversAsPromised
<1>1. Init => Delivery!Init
  <2> SUFFICES ASSUME Init PROVE Delivery!Init
    OBVIOUS
  <2>1. ASSUME NEW m \in Messages PROVE Phase(m) = "none"
    BY DEF Init, Phase, Open
  <2>2. QED BY <2>1 DEF Delivery!Init, Parcel, Init
<1>2. OutboxInv /\ OutboxInv' /\ [Next]_vars => [Delivery!Next]_Parcel
  <2> SUFFICES ASSUME OutboxInv, OutboxInv', [Next]_vars PROVE [Delivery!Next]_Parcel
    OBVIOUS
  <2>1. ASSUME NEW t \in Tick, TickStep(t)
        PROVE  [Delivery!Next]_Parcel
    <3>1. CASE pc[t] = "idle"
      <4>1. ClaimSelect(t)
        BY <2>1, <3>1 DEF TickStep, ClaimCommit, ClaimError, Resolve, Deliver, RecordSucceeded,
           RecordSucceededError, EvidenceError, FailedRead, RecordFailed, RecordFailedError
      <4>2. QED BY <4>1, SelectionIsHidden
    <3>2. CASE pc[t] # "idle"
      <4>1. job[t] \in Messages
        BY <3>2, OutboxAssumption DEF OutboxInv, TypeOK, TickHoldsRow
      <4>2. QED BY <2>1, <3>2, <4>1, TickDelivers
    <3>3. QED BY <3>1, <3>2
  <2>2. QED BY <2>1, EnvironmentDelivers DEF Next
<1>3. QED BY Invariance, <1>1, <1>2, PTL DEF Spec, DeliversAsPromised, Delivery!Spec
=============================================================================
