---------------------------- MODULE MCDuesLedger ----------------------------
(***************************************************************************)
(* Instances of DuesLedger for TLC.                                        *)
(***************************************************************************)
EXTENDS DuesLedger, TLC

(* Sessions are interchangeable: nothing orders them. *)
SessionSymmetry == Permutations(Sessions)
=============================================================================
