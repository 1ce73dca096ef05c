--------------------------- MODULE MCFencingLock ---------------------------
(* Small instances of FencingLock. *)
EXTENDS FencingLock, TLC

CONSTANTS c1, c2, p1

MCProcOf == [c \in Calls |-> p1]

Symmetric == Permutations(Owners) \cup Permutations(Calls)
=============================================================================
