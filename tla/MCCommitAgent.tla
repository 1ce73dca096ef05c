--------------------------- MODULE MCCommitAgent ---------------------------
(* Small instances of CommitAgent: an attempt, its retry, and another job. *)
EXTENDS CommitAgent

CONSTANTS w1, w2, w3, j1, j2, t1, t2

MCJobOf == [w \in Workers |-> IF w = w3 THEN j2 ELSE j1]
MCTokenOf == [w \in Workers |-> IF w = w3 THEN t2 ELSE t1]
=============================================================================
