------------------------------ MODULE MCScanner ------------------------------
(* Small instances of Scanner: one group with a handful of article numbers. *)
EXTENDS Scanner

MCCaps == {0, 2}
MCOld == {1, 2}
==============================================================================
