---------------------------- MODULE Provisioner ----------------------------
(***************************************************************************)
(* The target provisioner: a service on the target host that installs the  *)
(* public key of one dispatch as a file of authorized_keys.d and enters it *)
(* in a ledger; a sweeper takes expired keys out of both.                  *)
(*                                                                         *)
(* The ledger is one JSON file, replaced by a rename under a mutex, so its *)
(* operations are atomic; nothing else is, and requests run concurrently.  *)
(* A key is named by the dispatch it was made for.  Time is left out: a    *)
(* key expires at some moment after it was installed.                      *)
(***************************************************************************)
EXTENDS Naturals, FiniteSets

CONSTANTS
  Jobs,
  MaxAttempts,   \* dispatches of a job
  MaxKeys,       \* MaxConcurrentKeys
  MaxSessions,   \* maxSessions of a request
  MaxFaults      \* bound on crashes, errors and lost answers

ASSUME ProvisionerAssumption ==
  /\ MaxAttempts \in Nat /\ MaxFaults \in Nat
  /\ MaxKeys \in Nat \ {0} /\ MaxSessions \in Nat \ {0}

Keys == Jobs \X (1 .. MaxAttempts)

VARIABLES
  handler,   \* the request for each key
  files,     \* the keys sshd accepts
  ledger,
  expired,   \* keys past their TTL
  revoked,   \* keys taken back
  removing,  \* what a sweep, or a revoke, has yet to unlink
  overlap,   \* two requests were between check and entry at a time
  faults

provVars == <<handler, files, ledger, expired, revoked, removing, overlap>>

ProvInit ==
  /\ handler = [k \in Keys |-> "none"]
  /\ files = {}
  /\ ledger = {}
  /\ expired = {}
  /\ revoked = {}
  /\ removing = [by \in {"sweep", "revoke"} |-> {}]
  /\ overlap = FALSE

Fault == faults < MaxFaults /\ faults' = faults + 1

To(k, pc) == handler' = [handler EXCEPT ![k] = pc]

\* Between the first look at the ledger and the entry.
InFlight == {k \in Keys : handler[k] \in {"job", "write", "enter"}}

Active == ledger \ expired
ActiveOf(j) == {k \in Active : k[1] = j}

BelowCeilingOneMore == Cardinality(Active) <= MaxKeys

\* The ceiling on all keys, then, in a second look, the one on the job's.
BelowCeiling == Cardinality(Active) < MaxKeys
BelowJobCeiling(j) == Cardinality(ActiveOf(j)) < MaxSessions

CheckCeiling(k) ==
  /\ handler[k] = "asked"
  /\ IF BelowCeiling
     THEN To(k, "job") /\ overlap' = (overlap \/ InFlight # {})
     ELSE To(k, "refused") /\ UNCHANGED overlap
  /\ UNCHANGED <<files, ledger, expired, revoked, removing, faults>>

CheckJobCeiling(k) ==
  /\ handler[k] = "job"
  /\ To(k, IF BelowJobCeiling(k[1]) THEN "write" ELSE "refused")
  /\ UNCHANGED <<files, ledger, expired, revoked, removing, overlap, faults>>

WriteKey(k) ==
  /\ handler[k] = "write"
  /\ files' = files \cup {k}
  /\ To(k, "enter")
  /\ UNCHANGED <<ledger, expired, revoked, removing, overlap, faults>>

EnterKey(k) ==
  /\ handler[k] = "enter"
  /\ ledger' = ledger \cup {k}
  /\ To(k, "ok")
  /\ UNCHANGED <<files, expired, revoked, removing, overlap, faults>>

\* A request that ends in an error before it has written anything: a wrong
\* token or an invalid body, a ledger that cannot be read, a key that is not
\* Ed25519 or an environment that authorized_keys cannot hold.
Refused(k, pc) ==
  /\ handler[k] = pc
  /\ Fault
  /\ To(k, "refused")
  /\ UNCHANGED <<files, ledger, expired, revoked, removing, overlap>>

RequestRefused(k) == Refused(k, "asked")
LedgerUnreadable(k) == Refused(k, "job")
KeyRefused(k) == Refused(k, "write")

\* The ledger cannot be saved; the file is removed again.
EntryFails(k) ==
  /\ handler[k] = "enter"
  /\ Fault
  /\ files' = files \ {k}
  /\ To(k, "refused")
  /\ UNCHANGED <<ledger, expired, revoked, removing, overlap>>

ProvisionFails(k) == RequestRefused(k) \/ LedgerUnreadable(k) \/ KeyRefused(k) \/ EntryFails(k)

\* handleRevoke: the ledger, then the file.
Revoke(k) ==
  /\ removing["revoke"] = {}
  /\ k \in ledger
  /\ ledger' = ledger \ {k}
  /\ revoked' = revoked \cup {k}
  /\ removing' = [removing EXCEPT !["revoke"] = {k}]
  /\ UNCHANGED <<handler, files, expired, overlap, faults>>

\* Sweeps that wait for all keys, or forget the files.
SweepWhenAllExpired ==
  /\ removing["sweep"] = {}
  /\ ledger # {}
  /\ ledger \subseteq expired
  /\ removing' = [removing EXCEPT !["sweep"] = ledger]
  /\ ledger' = {}
  /\ UNCHANGED <<handler, files, expired, revoked, overlap, faults>>

SweepLedgerOnly ==
  /\ removing["sweep"] = {}
  /\ ledger \cap expired # {}
  /\ ledger' = ledger \ expired
  /\ UNCHANGED <<removing, handler, files, expired, revoked, overlap, faults>>

\* PurgeExpired, which is saved only when there is something to purge.
SweepOnce ==
  /\ removing["sweep"] = {}
  /\ ledger \cap expired # {}
  /\ removing' = [removing EXCEPT !["sweep"] = ledger \cap expired]
  /\ ledger' = ledger \ expired
  /\ UNCHANGED <<handler, files, expired, revoked, overlap, faults>>

\* One os.Remove; when it fails nobody tries again.
RemoveFile(by, k) ==
  /\ k \in removing[by]
  /\ removing' = [removing EXCEPT ![by] = @ \ {k}]
  /\ \/ files' = files \ {k} /\ UNCHANGED faults
     \/ UNCHANGED files /\ Fault
  /\ UNCHANGED <<handler, ledger, expired, revoked, overlap>>

Expires(k) ==
  /\ k \in files
  /\ handler[k] # "enter"
  /\ expired' = expired \cup {k}
  /\ UNCHANGED <<handler, files, ledger, revoked, removing, overlap, faults>>

\* The process ends with its requests, sweep and revoke; files stay.
ProvisionerCrash ==
  /\ Fault
  /\ handler' = [k \in Keys |->
       IF k \in InFlight \/ handler[k] = "asked" THEN "refused" ELSE handler[k]]
  /\ removing' = [by \in DOMAIN removing |-> {}]
  /\ UNCHANGED <<files, ledger, expired, revoked, overlap>>

Handle(k) == CheckCeiling(k) \/ CheckJobCeiling(k) \/ WriteKey(k) \/ EnterKey(k)

Sweep == SweepOnce \/ \E k \in Keys : RemoveFile("sweep", k)

EndRevoke == \E k \in Keys : RemoveFile("revoke", k)

ProvNext ==
  \/ \E k \in Keys : Handle(k) \/ ProvisionFails(k) \/ Revoke(k) \/ Expires(k)
  \/ Sweep
  \/ EndRevoke
  \/ ProvisionerCrash

---------------------------------------------------------------------------
\* The ceilings hold as long as requests come one after the other: one more
\* key than they allow needs two requests between check and entry.
CeilingHeldAlone ==
  \/ overlap
  \/ /\ Cardinality(Active) <= MaxKeys
     /\ \A j \in Jobs : Cardinality(ActiveOf(j)) <= MaxSessions

\* What Config says of MaxConcurrentKeys: a hard ceiling on non-expired keys.
HardCeiling == Cardinality(Active) <= MaxKeys

\* sshd accepts no key that the ledger has lost, a key on its way in or out
\* apart, unless a request, a sweep or a revoke was cut short.
NoForgottenKey ==
  \A k \in files : \/ k \in ledger
                   \/ handler[k] = "enter"
                   \/ \E by \in DOMAIN removing : k \in removing[by]
                   \/ faults > 0

\* A key that expired is gone for good, from the ledger and from the files, or
\* was forgotten after a failure: the sweeper comes round every minute.
ExpiredKeysGo ==
  \A k \in Keys : (k \in expired) ~> [](k \notin ledger /\ (k \notin files \/ faults > 0))
=============================================================================
