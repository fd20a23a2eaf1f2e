----------------------------- MODULE MCConnPool -----------------------------
(* Two callers, who share one or two slots, and two administrator calls. *)
EXTENDS ConnPool

CONSTANTS p1, p2

MCProcs == {p1, p2}
\* Enough identities that a dial never lacks one: one per caller, plus one
\* per idle connection an administrator call may have taken.
MCIds == 1..6
MCLimits == 1..2
=============================================================================
