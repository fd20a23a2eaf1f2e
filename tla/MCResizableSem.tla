--------------------------- MODULE MCResizableSem ---------------------------
(* Three callers and limits 0 (raised to 1), 1 and 2. *)
EXTENDS ResizableSem

CONSTANTS p1, p2, p3

MCProcs == {p1, p2, p3}
MCLimits == 0..2
=============================================================================
