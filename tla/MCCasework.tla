----------------------------- MODULE MCCasework -----------------------------
(* A balagh or a notice, a visit of it by one inspector with one report,    *)
(* and a decision on a notice, by two calls at a time.  What the calls on   *)
(* one filing do does not depend on another one.                            *)
EXTENDS Casework, TLC

CONSTANTS b1, n1, c1, c2, v1, s1, x, a1

MCBalaghs == {b1}
MCNotices == {n1}
MCActivities == {a1}
MCTypes == {"FR-204", "FR-205"}
MCVisits == {v1}
MCCalls == {c1, c2}
MCStaff == {s1}
MCReports == {x}
MCSymmetry == Permutations(MCCalls)
=============================================================================
