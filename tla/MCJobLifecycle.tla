-------------------------- MODULE MCJobLifecycle --------------------------
(* Small instances of JobLifecycle. *)
EXTENDS JobLifecycle, TLC

(* Requests are interchangeable, and so are jobs of one kind. *)
Symmetric ==
    Permutations(Threads) \cup Permutations(CrossJobs) \cup Permutations(Jobs \ CrossJobs)
=============================================================================
