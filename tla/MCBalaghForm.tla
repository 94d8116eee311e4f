---------------------------- MODULE MCBalaghForm ----------------------------
(* Two sends of one of two forms, the first with one activity out of two. *)
EXTENDS BalaghForm, TLC

CONSTANTS b1, b2, c1, c2, a1, a2

MCBalaghs == {b1, b2}
MCNotices == {}
MCCalls == {c1, c2}
MCActivities == {a1, a2}
MCTypes == {"FR-204", "FR-205"}
MCSymmetry ==
    Permutations(MCBalaghs) \cup Permutations(MCCalls) \cup Permutations(MCActivities)
=============================================================================
