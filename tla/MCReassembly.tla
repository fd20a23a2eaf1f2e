---------------------------- MODULE MCReassembly ----------------------------
(* A small instance of Reassembly: a part with an outdated grouping, a part  *)
(* of the same old binary that is right, a stub between them, and a part     *)
(* that a fresh parse puts into the stub's binary.                           *)
EXTENDS Reassembly

MCParts == 1..4
MCKeys == {"old", "post", "stub", "yenc"}
MCStored == [p \in MCParts |-> IF p = 2 THEN "stub" ELSE "old"]
MCParsed == [p \in MCParts |-> IF p = 1 THEN "post" ELSE IF p = 4 THEN "stub" ELSE MCStored[p]]
=============================================================================
