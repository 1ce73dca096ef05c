--------------------------- MODULE MCMergeOutbox ---------------------------
(* Small instances of MergeOutbox. *)
EXTENDS MergeOutbox
=============================================================================
