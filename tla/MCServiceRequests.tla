------------------------- MODULE MCServiceRequests -------------------------
(***************************************************************************)
(* Instances of ServiceRequests for TLC: requests to open a tax file       *)
(* (FR-101) and two versions of its form, which ask for different          *)
(* identity documents.                                                     *)
(***************************************************************************)
EXTENDS ServiceRequests, TLC

MCService == [r \in Requests |-> "FR-101"]
MCIsCompany == [r \in Requests |-> FALSE]

PassportForm == [service |-> "FR-101", identity |-> "passport"]
CardForm == [service |-> "FR-101", identity |-> "national_id"]

OwnForms == {PassportForm, CardForm}

AllCalls == {"edit", "submit", "draft_edit", "draft_submit", "upload", "transition"}

SessionSymmetry == Permutations(Sessions)
=============================================================================
