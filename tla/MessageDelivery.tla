-------------------------- MODULE MessageDelivery --------------------------
(***************************************************************************)
(* What the outbox promises about a message, without workers, ticks or     *)
(* transactions.  An attempt is charged before anything is sent.  It hands *)
(* the message to the provider once at most, and no further attempt begins *)
(* until the message was given back.  A message counts as published only   *)
(* when the attempt under way has passed it on, and it is given up only    *)
(* when every attempt was charged.                                         *)
(***************************************************************************)
EXTENDS Integers

CONSTANTS
    Messages,     \* notification messages
    MaxAttempts,  \* attempts a message may be charged
    Silent,       \* messages that may count as passed on though nobody took them
    Reopens       \* may a published message be taken for a failed one?

VARIABLE parcel   \* parcel[m]: its phase, the attempts charged, the times it was handed over

Init == parcel = [m \in Messages |-> [phase |-> "none", charged |-> 0, handed |-> 0]]

Phase(m) == parcel[m].phase
Move(m, phase) == parcel' = [parcel EXCEPT ![m].phase = phase]

Enqueue(m) == Phase(m) = "none" /\ Move(m, "queued")

(* The attempt is charged; it goes on, or it ends here. *)
Charge(m, phase) ==
    /\ Phase(m) = "queued"
    /\ parcel[m].charged < MaxAttempts
    /\ parcel' = [parcel EXCEPT ![m].phase = phase, ![m].charged = @ + 1]

(* The provider takes the message; the attempt may or may not learn of it. *)
HandOver(m, phase) ==
    /\ Phase(m) = "held"
    /\ parcel' = [parcel EXCEPT ![m].phase = phase, ![m].handed = @ + 1]

Skip(m) == m \in Silent /\ Phase(m) = "held" /\ Move(m, "passed")

(* Attempts end without an outcome: one, or all those of a process that dies. *)
Fail(M) ==
    /\ \A m \in M : Phase(m) \in {"held", "passed"}
    /\ parcel' = [m \in Messages |->
                     IF m \in M THEN [parcel[m] EXCEPT !.phase = "failed"] ELSE parcel[m]]

Publish(m) == Phase(m) = "passed" /\ Move(m, "published")

(* A failed attempt gives the message back, or gives it up. *)
Failed(m) == Phase(m) = "failed" \/ (Phase(m) = "published" /\ Reopens)
Retry(m) == Failed(m) /\ parcel[m].charged < MaxAttempts /\ Move(m, "queued")
GiveUp(m) == Failed(m) /\ parcel[m].charged = MaxAttempts /\ Move(m, "dead")

Next ==
    \/ \E m \in Messages : \/ Enqueue(m) \/ Skip(m) \/ Publish(m) \/ Retry(m) \/ GiveUp(m)
                           \/ Charge(m, "held") \/ Charge(m, "failed")
                           \/ HandOver(m, "passed") \/ HandOver(m, "failed")
    \/ \E M \in SUBSET Messages : Fail(M)

Spec == Init /\ [][Next]_parcel
=============================================================================
