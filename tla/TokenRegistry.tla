--------------------------- MODULE TokenRegistry ---------------------------
(***************************************************************************)
(* What the fencing ledger promises the rest of the system, without Redis, *)
(* transactions or failovers: a register in which every token of a lock is *)
(* given to one owner, once, and that is never changed afterwards.         *)
(***************************************************************************)
VARIABLE given    \* entries [key, tok, owner]

(* The owner of a token is determined by the lock and the token. *)
Determined(entries) ==
    \A e, f \in entries : e.key = f.key /\ e.tok = f.tok => e.owner = f.owner

Init == given = {}

(* One transaction may give several tokens: a failover writes a row for
   every lock it finds. *)
Give ==
    /\ given \subseteq given'
    /\ Determined(given')

Spec == Init /\ [][Give]_given
=============================================================================
