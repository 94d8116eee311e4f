--------------------------- MODULE OutboxDelivery ---------------------------
(***************************************************************************)
(* The notification outbox and the worker that empties it.                 *)
(*                                                                         *)
(* The API writes a notification message and then its outbox row, in two   *)
(* statements.  A worker process starts a tick every two seconds, whether  *)
(* or not the earlier ticks have ended: a tick claims the oldest due row   *)
(* (SELECT ... FOR UPDATE SKIP LOCKED, then UPDATE, in one transaction),   *)
(* looks up where to send it, hands it to the provider, and records the    *)
(* outcome in a second transaction.  Nothing else ever reads a row that is *)
(* 'processing'.                                                           *)
(*                                                                         *)
(* What can go wrong is listed in Faults, so that a run says which faults  *)
(* it admits.  An outbox row is known by the message it sends: the API     *)
(* writes one row per message.                                             *)
(***************************************************************************)
EXTENDS Integers, FiniteSets

CONSTANTS
    Messages,      \* notification messages
    Channel,       \* Channel[m]: the channel of its template
    Workers,       \* worker processes
    Slots,         \* bound: ticks of one process that run at the same time
    MaxAttempts,   \* attempts before a message is dead: 5 in the code
    ClaimRuns,     \* does the database accept the claim statement?
    Faults,        \* the faults that may happen
    NoMessage      \* not a message

FaultKinds == {"api",       \* the API process dies between its two inserts
               "worker",    \* a worker process dies or is stopped
               "provider",  \* the provider refuses or cannot be reached
               "answer",    \* the provider accepts and its answer is lost
               "lookup",    \* the statement that finds the address fails
               "database",  \* a transaction fails, or the answer to COMMIT is lost
               "evidence"}  \* the insert of the attempt row fails

ASSUME OutboxAssumption ==
    /\ NoMessage \notin Messages
    /\ Channel \in [Messages -> {"sms", "push", "local"}]
    /\ MaxAttempts \in Nat \ {0}
    /\ ClaimRuns \in BOOLEAN
    /\ Faults \subseteq FaultKinds

VARIABLES
    state,     \* publication_state; "absent" and "orphan" before and without a row
    attempts,  \* attempt_count
    waiting,   \* next_attempt_at is in the future
    born,      \* created_at of the outbox row, 0 while there is none
    clock,     \* the latest created_at
    recorded,  \* rows of notify.delivery_attempts
    sent,      \* times the provider took it for its recipient
    strayed,   \* times the provider took it for another number
    up,        \* the worker process ticks
    pc,        \* what a tick does next
    job,       \* the message a tick works on
    target,    \* whom the tick will send it to
    seen       \* the attempt_count that recordFailed read

rowVars == <<state, attempts, waiting, born, clock>>
sendVars == <<sent, strayed>>
tickVars == <<job, target, seen>>
vars == <<rowVars, recorded, sendVars, up, pc, tickVars>>

Tick == Workers \X Slots
Open == {"pending", "retry"}
State == Open \cup {"absent", "written", "orphan", "processing", "published", "dead"}
Pc == {"idle", "claim", "resolve", "deliver", "succeed", "fail", "failing"}

Locked(m) == \E t \in Tick : pc[t] = "claim" /\ job[t] = m

(* Mutant: rows in 'processing' are taken again, whoever works on them. *)
BugReclaimsProcessing(m) == state[m] \in Open \cup {"processing"} /\ ~waiting[m]

Due(m) == state[m] \in Open /\ ~waiting[m]

Goto(t, next) == pc' = [pc EXCEPT ![t] = next]

(* The tick returns; what it held in its variables is gone. *)
End(t) ==
    /\ pc' = [pc EXCEPT ![t] = "idle"]
    /\ job' = [job EXCEPT ![t] = NoMessage]
    /\ target' = [target EXCEPT ![t] = "nobody"]
    /\ seen' = [seen EXCEPT ![t] = 0]

-----------------------------------------------------------------------------
Init ==
    /\ state = [m \in Messages |-> "absent"]
    /\ attempts = [m \in Messages |-> 0]
    /\ waiting = [m \in Messages |-> FALSE]
    /\ born = [m \in Messages |-> 0]
    /\ clock = 0
    /\ recorded = [m \in Messages |-> 0]
    /\ sent = [m \in Messages |-> 0]
    /\ strayed = [m \in Messages |-> 0]
    /\ up = [w \in Workers |-> TRUE]
    /\ pc = [t \in Tick |-> "idle"]
    /\ job = [t \in Tick |-> NoMessage]
    /\ target = [t \in Tick |-> "nobody"]
    /\ seen = [t \in Tick |-> 0]

-----------------------------------------------------------------------------
(***************************************************************************)
(* enqueueNotification: the message row, then the outbox row.  A caller    *)
(* that retries after a crash in between is refused by the unique index on *)
(* the message's idempotency_key, so the message stays without a row.      *)
(***************************************************************************)
CreateMessage(m) ==
    /\ state[m] = "absent"
    /\ state' = [state EXCEPT ![m] = "written"]
    /\ UNCHANGED <<attempts, waiting, born, clock, recorded, sendVars, up, pc, tickVars>>

CreateOutboxMessage(m) ==
    /\ state[m] = "written"
    /\ state' = [state EXCEPT ![m] = "pending"]
    /\ clock' = clock + 1
    /\ born' = [born EXCEPT ![m] = clock + 1]
    /\ UNCHANGED <<attempts, waiting, recorded, sendVars, up, pc, tickVars>>

ApiCrash(m) ==
    /\ "api" \in Faults
    /\ state[m] = "written"
    /\ state' = [state EXCEPT ![m] = "orphan"]
    /\ UNCHANGED <<attempts, waiting, born, clock, recorded, sendVars, up, pc, tickVars>>

-----------------------------------------------------------------------------
(***************************************************************************)
(* claimNext, in a transaction: lock the oldest due row nobody else has    *)
(* locked, then mark it and count the attempt.                             *)
(***************************************************************************)
(* Mutant: the row is read without FOR UPDATE SKIP LOCKED. *)
BugSelectsWithoutLock(t) ==
    /\ ClaimRuns /\ up[t[1]] /\ pc[t] = "idle"
    /\ \E m \in Messages :
          /\ Due(m)
          /\ job' = [job EXCEPT ![t] = m]
    /\ Goto(t, "claim")
    /\ UNCHANGED <<rowVars, recorded, sendVars, up, target, seen>>

ClaimSelect(t) ==
    /\ ClaimRuns
    /\ up[t[1]]
    /\ pc[t] = "idle"
    /\ \E m \in Messages :
          /\ Due(m) /\ ~Locked(m)
          /\ \A k \in Messages : Due(k) /\ ~Locked(k) => born[m] <= born[k]
          /\ job' = [job EXCEPT ![t] = m]
    /\ Goto(t, "claim")
    /\ UNCHANGED <<rowVars, recorded, sendVars, up, target, seen>>

(* Mutant: the attempt is not counted. *)
BugClaimsWithoutCounting(m) ==
    /\ state' = [state EXCEPT ![m] = "processing"]
    /\ UNCHANGED <<attempts, waiting, born, clock>>

(* The effect of the UPDATE, visible at COMMIT. *)
MarkClaimed(m) ==
    /\ state' = [state EXCEPT ![m] = "processing"]
    /\ attempts' = [attempts EXCEPT ![m] = @ + 1]
    /\ UNCHANGED <<waiting, born, clock>>

ClaimCommit(t) ==
    /\ pc[t] = "claim"
    /\ MarkClaimed(job[t])
    /\ Goto(t, "resolve")
    /\ UNCHANGED <<recorded, sendVars, up, tickVars>>

(* The transaction fails, or it commits and the answer is lost: tick logs  *)
(* the error and ends.                                                     *)
ClaimError(t) ==
    /\ "database" \in Faults
    /\ pc[t] = "claim"
    /\ MarkClaimed(job[t]) \/ UNCHANGED rowVars
    /\ End(t)
    /\ UNCHANGED <<recorded, sendVars, up>>

-----------------------------------------------------------------------------
(***************************************************************************)
(* claimNext after its transaction: the phone number and the device tokens *)
(* of the recipient, each of which may not exist.  A failed statement is   *)
(* swallowed and a fixed number or token takes its place.                  *)
(***************************************************************************)
Resolve(t) ==
    /\ pc[t] = "resolve"
    /\ \E who \in {"recipient", "nobody"}
             \cup (IF "lookup" \in Faults THEN {"mock"} ELSE {}) :
          target' = [target EXCEPT ![t] = who]
    /\ Goto(t, "deliver")
    /\ UNCHANGED <<rowVars, recorded, sendVars, up, job, seen>>

(* Mutant: a text to an unknown number is skipped like a push. *)
BugSkipsUnknownNumber(t) == Channel[job[t]] = "local" \/ target[t] = "nobody"

(* Local channels only log; a push to nobody's device is skipped. *)
Skips(t) == \/ Channel[job[t]] = "local"
            \/ Channel[job[t]] = "push" /\ target[t] = "nobody"

(* No phone number: an error before any call.  The provider knows no mock token. *)
Undeliverable(t) == \/ Channel[job[t]] = "sms" /\ target[t] = "nobody"
                    \/ Channel[job[t]] = "push" /\ target[t] = "mock"

(* The provider takes the message. *)
Accept(t) ==
    /\ ~Skips(t) /\ ~Undeliverable(t)
    /\ sent' = [sent EXCEPT ![job[t]] = IF target[t] = "recipient" THEN @ + 1 ELSE @]
    /\ strayed' = [strayed EXCEPT ![job[t]] = IF target[t] = "mock" THEN @ + 1 ELSE @]

(* deliver: accepted, skipped, refused, or accepted with the answer lost   *)
(* on the way back (response.json() throws, the connection drops).         *)
Deliver(t) ==
    /\ pc[t] = "deliver"
    /\ \/ Accept(t) /\ Goto(t, "succeed")
       \/ Skips(t) /\ Goto(t, "succeed") /\ UNCHANGED sendVars
       \/ Undeliverable(t) /\ Goto(t, "fail") /\ UNCHANGED sendVars
       \/ /\ "provider" \in Faults
          /\ ~Skips(t)
          /\ Goto(t, "fail") /\ UNCHANGED sendVars
       \/ /\ "answer" \in Faults
          /\ Accept(t) /\ Goto(t, "fail")
    /\ UNCHANGED <<rowVars, recorded, up, tickVars>>

-----------------------------------------------------------------------------
RecordAttempt(m) == recorded' = [recorded EXCEPT ![m] = @ + 1]

(* recordSucceeded: publish by id, whatever the state, and add the attempt. *)
Publish(m) ==
    /\ state' = [state EXCEPT ![m] = "published"]
    /\ waiting' = [waiting EXCEPT ![m] = FALSE]
    /\ RecordAttempt(m)
    /\ UNCHANGED <<attempts, born, clock>>

RecordSucceeded(t) ==
    /\ pc[t] = "succeed"
    /\ Publish(job[t])
    /\ End(t)
    /\ UNCHANGED <<sendVars, up>>

(* recordSucceeded throws inside the same try as deliver: its error, also  *)
(* one that comes after the commit, goes on to recordFailed.               *)
RecordSucceededError(t) ==
    /\ "database" \in Faults
    /\ pc[t] = "succeed"
    /\ Publish(job[t]) \/ UNCHANGED <<rowVars, recorded>>
    /\ Goto(t, "fail")
    /\ UNCHANGED <<sendVars, up, tickVars>>

(* The failed insert of the attempt is caught inside the transaction, which *)
(* PostgreSQL has aborted by then: COMMIT rolls it back and raises nothing. *)
EvidenceError(t) ==
    /\ "evidence" \in Faults
    /\ pc[t] \in {"succeed", "failing"}
    /\ End(t)
    /\ UNCHANGED <<rowVars, recorded, sendVars, up>>

(* recordFailed: read attempt_count, then decide between retry and dead. *)
FailedRead(t) ==
    /\ pc[t] = "fail"
    /\ seen' = [seen EXCEPT ![t] = attempts[job[t]]]
    /\ Goto(t, "failing")
    /\ UNCHANGED <<rowVars, recorded, sendVars, up, job, target>>

(* Mutant: one attempt too many. *)
BugIsDeadLate(n) == n > MaxAttempts

IsDead(n) == n >= MaxAttempts

RecordFailed(t) ==
    /\ pc[t] = "failing"
    /\ state' = [state EXCEPT ![job[t]] = IF IsDead(seen[t]) THEN "dead" ELSE "retry"]
    /\ waiting' = [waiting EXCEPT ![job[t]] = ~IsDead(seen[t])]
    /\ RecordAttempt(job[t])
    /\ End(t)
    /\ UNCHANGED <<attempts, born, clock, sendVars, up>>

(* recordFailed fails: tick logs the error and ends.  (A lost answer to a   *)
(* COMMIT that succeeded leaves what RecordFailed leaves.)                  *)
RecordFailedError(t) ==
    /\ "database" \in Faults
    /\ pc[t] \in {"fail", "failing"}
    /\ End(t)
    /\ UNCHANGED <<rowVars, recorded, sendVars, up>>

-----------------------------------------------------------------------------
(* The backoff min(300000, 5000 * 2^attempts) ms has passed. *)
Elapse(m) ==
    /\ waiting[m]
    /\ waiting' = [waiting EXCEPT ![m] = FALSE]
    /\ UNCHANGED <<state, attempts, born, clock, recorded, sendVars, up, pc, tickVars>>

(* stop(): no new tick; ticks that run go on. *)
Stop(w) ==
    /\ "worker" \in Faults
    /\ up[w]
    /\ up' = [up EXCEPT ![w] = FALSE]
    /\ UNCHANGED <<rowVars, recorded, sendVars, pc, tickVars>>

Start(w) ==
    /\ ~up[w]
    /\ up' = [up EXCEPT ![w] = TRUE]
    /\ UNCHANGED <<rowVars, recorded, sendVars, pc, tickVars>>

(* All ticks of the process are lost; a transaction that is open rolls back. *)
Crash(w) ==
    /\ "worker" \in Faults
    /\ up' = [up EXCEPT ![w] = FALSE]
    /\ pc' = [t \in Tick |-> IF t[1] = w THEN "idle" ELSE pc[t]]
    /\ job' = [t \in Tick |-> IF t[1] = w THEN NoMessage ELSE job[t]]
    /\ target' = [t \in Tick |-> IF t[1] = w THEN "nobody" ELSE target[t]]
    /\ seen' = [t \in Tick |-> IF t[1] = w THEN 0 ELSE seen[t]]
    /\ UNCHANGED <<rowVars, recorded, sendVars>>

TickStep(t) ==
    \/ ClaimSelect(t) \/ ClaimCommit(t) \/ ClaimError(t)
    \/ Resolve(t) \/ Deliver(t)
    \/ RecordSucceeded(t) \/ RecordSucceededError(t) \/ EvidenceError(t)
    \/ FailedRead(t) \/ RecordFailed(t) \/ RecordFailedError(t)

Next ==
    \/ \E m \in Messages : CreateMessage(m) \/ CreateOutboxMessage(m) \/ ApiCrash(m) \/ Elapse(m)
    \/ \E w \in Workers : Start(w) \/ Stop(w) \/ Crash(w)
    \/ \E t \in Tick : TickStep(t)

Spec == Init /\ [][Next]_vars

(***************************************************************************)
(* Fairness: the API goes on with a call it has begun, time passes, the    *)
(* supervisor starts a worker that is down, and setInterval begins ticks,  *)
(* which run to their end: fetch gives up after 300 s without an answer.   *)
(***************************************************************************)
Fairness ==
    /\ \A m \in Messages : WF_vars(CreateOutboxMessage(m)) /\ WF_vars(Elapse(m))
    /\ \A w \in Workers : WF_vars(Start(w))
    /\ \A t \in Tick : WF_vars(TickStep(t))

FairSpec == Spec /\ Fairness

-----------------------------------------------------------------------------
TypeOK ==
    /\ state \in [Messages -> State]
    /\ attempts \in [Messages -> 0..MaxAttempts]
    /\ waiting \in [Messages -> BOOLEAN]
    /\ born \in [Messages -> Nat]
    /\ clock \in Nat
    /\ recorded \in [Messages -> Nat]
    /\ sent \in [Messages -> Nat]
    /\ strayed \in [Messages -> Nat]
    /\ up \in [Workers -> BOOLEAN]
    /\ pc \in [Tick -> Pc]
    /\ job \in [Tick -> Messages \cup {NoMessage}]
    /\ target \in [Tick -> {"recipient", "nobody", "mock"}]
    /\ seen \in [Tick -> 0..MaxAttempts]

Busy(t) == pc[t] # "idle"

(* A message is in the hands of one tick at most, also when the ticks of    *)
(* several workers overlap and transactions fail half way: the row lock of  *)
(* claimNext and the state 'processing'.                                    *)
OneTickPerMessage ==
    \A t, u \in Tick : Busy(t) /\ Busy(u) /\ job[t] = job[u] => t = u

(* The retry budget, whatever fails: a message is handed to the provider at *)
(* most once per counted attempt, and it is dead only when all the attempts *)
(* were used up, and then no tick will send it again.                       *)
BudgetKept ==
    \A m \in Messages :
        /\ sent[m] + strayed[m] <= attempts[m]
        /\ state[m] = "dead" =>
              /\ attempts[m] = MaxAttempts
              /\ \A t \in Tick : job[t] = m => ~Busy(t)

(* Dead is final, and so is published as long as the answer to COMMIT is    *)
(* not lost: only then does recordFailed run after recordSucceeded.         *)
FinalStates ==
    [][\A m \in Messages :
          \/ state[m] = "dead"
          \/ state[m] = "published" /\ "database" \notin Faults
          => state'[m] = state[m] /\ sent'[m] = sent[m]]_vars

(* While the database and the workers do not fail, every attempt leaves its *)
(* row in delivery_attempts: rows and the attempt under way make up the     *)
(* attempt_count.                                                           *)
EveryAttemptRecorded ==
    \A m \in Messages :
        LET underway == {t \in Tick : job[t] = m /\ pc[t] \notin {"idle", "claim"}}
        IN  attempts[m] = recorded[m] + Cardinality(underway)

(* No message reaches the provider twice, for its recipient or a stranger.  *)
(* Not so when an answer is lost, the provider's or that of the COMMIT of   *)
(* recordSucceeded: the tick takes it for a refusal and tries again.        *)
SentOnce == \A m \in Messages : sent[m] + strayed[m] <= 1

(* A row in 'processing', which no claim ever reads, is in a tick's hands.  *)
(* Not so when a worker dies or an outcome cannot be recorded.              *)
ProcessingHasTick ==
    \A m \in Messages : state[m] = "processing" => \E t \in Tick : Busy(t) /\ job[t] = m

(* A message that has its outbox row ends published or dead.  Not so where  *)
(* the database refuses the claim statement: the tick logs the error and    *)
(* the message stays pending, whatever else is fair.                        *)
EverySettles ==
    \A m \in Messages : state[m] = "pending" ~> state[m] \in {"published", "dead"}

-----------------------------------------------------------------------------
(***************************************************************************)
(* A message as its owner sees it, read off its row and the tick that      *)
(* works on it.  A 'processing' row that no tick will publish any more     *)
(* belongs to an attempt that has failed.                                  *)
(***************************************************************************)
InTick(m, pcs) == \E t \in Tick : job[t] = m /\ pc[t] \in pcs

Progress(m) == IF InTick(m, {"resolve", "deliver"}) THEN "held"
               ELSE IF InTick(m, {"succeed"}) THEN "passed" ELSE "failed"

Phase(m) ==
    CASE state[m] \in {"absent", "written", "orphan"} -> "none"
      [] state[m] \in Open                            -> "queued"
      [] state[m] = "processing"                      -> Progress(m)
      [] state[m] \in {"published", "dead"}           -> state[m]

Parcel == [m \in Messages |->
    [phase |-> Phase(m), charged |-> attempts[m], handed |-> sent[m] + strayed[m]]]

Delivery == INSTANCE MessageDelivery WITH
    parcel <- Parcel,
    Silent <- {m \in Messages : Channel[m] # "sms"},
    Reopens <- "database" \in Faults

(* Whatever fails and however ticks overlap, each attempt that was counted  *)
(* hands its message over once at most, a text counts as published only     *)
(* when the attempt that published it has handed it over, and what is dead, *)
(* or published while no COMMIT loses its answer, is never touched again.   *)
DeliversAsPromised == Delivery!Spec
=============================================================================
