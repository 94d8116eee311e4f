-------------------------- MODULE MCMobileSession --------------------------
(* Two calls of a screen at a time, besides what the taxpayer does. *)
EXTENDS MobileSession

CONSTANTS c1, c2

MCCalls == {c1, c2}
=============================================================================
