------------------------------ MODULE MCFailover ------------------------------
(* Two callers of two servers, and three callers of one. *)
EXTENDS Failover

CONSTANTS r1, r2, r3

TwoReqs == {r1, r2}
ThreeReqs == {r1, r2, r3}
ProviderOutcomes == {"ok", "gone", "noyenc", "denied", "lost"}
===============================================================================
