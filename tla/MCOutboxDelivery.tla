-------------------------- MODULE MCOutboxDelivery --------------------------
(***************************************************************************)
(* Instances of OutboxDelivery for TLC.                                    *)
(***************************************************************************)
EXTENDS OutboxDelivery, TLC

CONSTANTS text, push, note   \* messages on the three kinds of channel

MCChannel == [m \in Messages |->
    CASE m = text -> "sms" [] m = push -> "push" [] OTHER -> "local"]

(* Worker processes are interchangeable. *)
WorkerSymmetry == Permutations(Workers)

AllFaults == FaultKinds
NoFaults == {}
ProviderFaults == {"provider", "answer", "lookup"}
=============================================================================
