-------------------------- MODULE RequestLifecycle --------------------------
(***************************************************************************)
(* What the office promises of a request: it moves along the approved      *)
(* transitions only, one at a time, and its trail tells every move.        *)
(***************************************************************************)
EXTENDS Sequences, RequestStates

CONSTANT Requests

VARIABLES
    status,   \* the state of each request, "absent" before it exists
    trail     \* its moves so far, in order

Init ==
    /\ status = [r \in Requests |-> "absent"]
    /\ trail = [r \in Requests |-> <<>>]

Move(r, to) ==
    /\ status' = [status EXCEPT ![r] = to]
    /\ trail' = [trail EXCEPT ![r] = Append(@, [from |-> status[r], to |-> to])]

Open(r) == status[r] = "absent" /\ Move(r, "draft")

Transition(r) == \E to \in Allowed(status[r]) : Move(r, to)

Next == \E r \in Requests : Open(r) \/ Transition(r)

Spec == Init /\ [][Next]_<<status, trail>>
=============================================================================
