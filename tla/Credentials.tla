---------------------------- MODULE Credentials ----------------------------
(***************************************************************************)
(* The credentials of a cross-machine dispatch: JobService.dispatchJob has *)
(* a key installed on the target, seals it with a fresh callback token in  *)
(* a secret envelope, stores the token's hash with the job and starts the  *)
(* workflow, whose worker exchanges the dispatch JWE for the envelope.     *)
(*                                                                         *)
(* Everything one dispatch makes is named by the job and the attempt.      *)
(***************************************************************************)
EXTENDS Provisioner

CONSTANTS Workers   \* workflow runs, first ones and re-runs

VARIABLES
  attempt,    \* the attempt a job is at
  dispatch,   \* dispatchJob of each job
  envelope,   \* the secret_references row of each dispatch
  lapsed,     \* the rows past expires_at
  callback,   \* the attempt whose token's hash the job has, 0 for none
  sent,       \* dispatches whose workflow was started
  worker      \* what a run is at, and the dispatch it belongs to

credVars == <<attempt, dispatch, envelope, lapsed, callback, sent, worker>>
vars == <<provVars, credVars, faults>>

Init ==
  /\ ProvInit
  /\ faults = 0
  /\ attempt = [j \in Jobs |-> 0]
  /\ dispatch = [j \in Jobs |-> "idle"]
  /\ envelope = [k \in Keys |-> "none"]
  /\ lapsed = {}
  /\ callback = [j \in Jobs |-> 0]
  /\ sent = {}
  /\ worker = [w \in Workers |-> <<"none">>]

Now(j) == <<j, attempt[j]>>
Step(j, pc) == dispatch' = [dispatch EXCEPT ![j] = pc]

---------------------------------------------------------------------------
\* dispatchJob, from the provision request on; it holds the job's lock.

ProvisionPublicKey(j) ==
  /\ dispatch[j] = "idle"
  /\ attempt[j] < MaxAttempts
  /\ attempt' = [attempt EXCEPT ![j] = @ + 1]
  /\ handler' = [handler EXCEPT ![<<j, attempt'[j]>>] = "asked"]
  /\ Step(j, "provision")
  /\ UNCHANGED <<files, ledger, expired, revoked, removing, overlap, envelope, lapsed, callback,
                 sent, worker, faults>>

\* Metadata without host or URL, or mTLS files that cannot be loaded: no
\* request is sent, and the job is retried.
ProvisionUnsent(j) ==
  /\ dispatch[j] = "idle"
  /\ attempt[j] < MaxAttempts
  /\ Fault
  /\ attempt' = [attempt EXCEPT ![j] = @ + 1]
  /\ UNCHANGED <<provVars, dispatch, envelope, lapsed, callback, sent, worker>>

\* The POST times out or its connection breaks while the handler goes on.
ProvisionAnswerLost(j) ==
  /\ dispatch[j] = "provision"
  /\ Fault
  /\ Step(j, "idle")
  /\ UNCHANGED <<provVars, attempt, envelope, lapsed, callback, sent, worker>>

\* A refusal is not looked at.
ProvisionAnsweredAny(j) ==
  /\ dispatch[j] = "provision"
  /\ handler[Now(j)] \in {"ok", "refused"}
  /\ Step(j, "envelope")
  /\ UNCHANGED <<provVars, attempt, envelope, lapsed, callback, sent, worker, faults>>

\* A refusal ends in failDispatchPreStart, and the job is retried.
ProvisionAnswered(j) ==
  /\ dispatch[j] = "provision"
  /\ \/ handler[Now(j)] = "ok" /\ Step(j, "envelope")
     \/ handler[Now(j)] = "refused" /\ Step(j, "idle")
  /\ UNCHANGED <<provVars, attempt, envelope, lapsed, callback, sent, worker, faults>>

CreateEnvelope(j) ==
  /\ dispatch[j] = "envelope"
  /\ envelope' = [envelope EXCEPT ![Now(j)] = "fresh"]
  /\ Step(j, "store")
  /\ UNCHANGED <<provVars, attempt, lapsed, callback, sent, worker, faults>>

\* The workflow is started before the hash is stored.
StoreAfterSend(j) ==
  /\ dispatch[j] = "store"
  /\ sent' = sent \cup {Now(j)}
  /\ \/ callback' = [callback EXCEPT ![j] = attempt[j]] /\ Step(j, "sent")
     \/ UNCHANGED <<callback, dispatch>>
  /\ UNCHANGED <<provVars, attempt, envelope, lapsed, worker, faults>>

StoreCallbackHash(j) ==
  /\ dispatch[j] = "store"
  /\ callback' = [callback EXCEPT ![j] = attempt[j]]
  /\ Step(j, "send")
  /\ UNCHANGED <<provVars, attempt, envelope, lapsed, sent, worker, faults>>

DispatchWorkflow(j) ==
  /\ dispatch[j] = "send"
  /\ sent' = sent \cup {Now(j)}
  /\ Step(j, "sent")
  /\ UNCHANGED <<provVars, attempt, envelope, lapsed, callback, worker, faults>>

\* The process ends, or GitHub's answer is lost, whether the workflow was
\* started or not.
DispatchCut(j) ==
  /\ dispatch[j] \in {"envelope", "store", "send"}
  /\ Fault
  /\ \/ UNCHANGED sent
     \/ dispatch[j] = "send" /\ sent' = sent \cup {Now(j)}
  /\ Step(j, "idle")
  /\ UNCHANGED <<provVars, attempt, envelope, lapsed, callback, worker>>

\* The dispatched job failed, or its lock went stale.
Retry(j) ==
  /\ dispatch[j] = "sent"
  /\ Step(j, "idle")
  /\ UNCHANGED <<provVars, attempt, envelope, lapsed, callback, sent, worker, faults>>

EnvelopeLapses(k) ==
  /\ envelope[k] # "none"
  /\ k \notin lapsed
  /\ lapsed' = lapsed \cup {k}
  /\ UNCHANGED <<provVars, attempt, dispatch, envelope, callback, sent, worker, faults>>

---------------------------------------------------------------------------
\* resolve-secrets.sh and POST /resolve-secret: one request per worker.

Goes(k, w, pc) == worker' = [worker EXCEPT ![w] = <<pc, k>>]

\* verifyCallbackToken.  The token outlives the envelope.
ResolveDispatchJwe(k, w) ==
  /\ k \in sent
  /\ worker[w] = <<"none">>
  /\ Goes(k, w, IF callback[k[1]] = k[2] THEN "verified" ELSE "refused")
  /\ UNCHANGED <<provVars, attempt, dispatch, envelope, lapsed, callback, sent, faults>>

ReadReference(k, w) ==
  /\ worker[w] = <<"verified", k>>
  /\ Goes(k, w, IF envelope[k] = "fresh" /\ k \notin lapsed THEN "read" ELSE "refused")
  /\ UNCHANGED <<provVars, attempt, dispatch, envelope, lapsed, callback, sent, faults>>

\* The row that was read decides.
ConsumeRead(k, w) ==
  /\ worker[w] = <<"read", k>>
  /\ envelope' = [envelope EXCEPT ![k] = "consumed"]
  /\ Goes(k, w, "got")
  /\ UNCHANGED <<provVars, attempt, dispatch, lapsed, callback, sent, faults>>

\* UPDATE ... WHERE consumed_at IS NULL RETURNING, and the answer, which may
\* be lost: the worker does not ask again.
Consume(k, w) ==
  /\ worker[w] = <<"read", k>>
  /\ envelope' = [envelope EXCEPT ![k] = "consumed"]
  /\ \/ Goes(k, w, IF envelope[k] = "fresh" THEN "got" ELSE "refused") /\ UNCHANGED faults
     \/ Goes(k, w, "refused") /\ Fault
  /\ UNCHANGED <<provVars, attempt, dispatch, lapsed, callback, sent>>

---------------------------------------------------------------------------
Dispatch(j) ==
  \/ ProvisionPublicKey(j)
  \/ ProvisionAnswered(j)
  \/ CreateEnvelope(j)
  \/ StoreCallbackHash(j)
  \/ DispatchWorkflow(j)

Resolve(k, w) == ResolveDispatchJwe(k, w) \/ ReadReference(k, w) \/ Consume(k, w)

Next ==
  \/ \E j \in Jobs : Dispatch(j) \/ Retry(j)
  \/ \E j \in Jobs : ProvisionUnsent(j) \/ ProvisionAnswerLost(j) \/ DispatchCut(j)
  \/ \E k \in Keys : EnvelopeLapses(k) \/ \E w \in Workers : Resolve(k, w)
  \/ ProvNext /\ UNCHANGED credVars

\* The sweeper has a ticker, and a revoke under way goes on.
Spec ==
  /\ Init
  /\ [][Next]_vars
  /\ WF_vars(Sweep /\ UNCHANGED credVars)
  /\ WF_vars(EndRevoke /\ UNCHANGED credVars)

---------------------------------------------------------------------------
Got(k) == {w \in Workers : worker[w] = <<"got", k>>}

\* Of all the runs that hold a dispatch JWE, at most one is given the secrets,
\* however their requests interleave.
SecretOnce == \A k \in Keys : Cardinality(Got(k)) <= 1

\* A run that has its secrets can log in on the target: the key is in a file
\* that sshd reads until it expires or is revoked.
KeyInstalled ==
  \A k \in Keys : Got(k) # {} => k \in files \cap ledger \/ k \in expired \cup revoked

\* The run of a dispatch is refused its secrets only when they were handed out
\* or lost on the way, have lapsed, or a newer dispatch of the job has taken
\* over: never because dispatchJob is not done with its own updates.
RefusedForCause ==
  \A k \in Keys : \A w \in Workers :
    worker[w] = <<"refused", k>> =>
      k \in lapsed \/ envelope[k] = "consumed" \/ callback[k[1]] > k[2]
=============================================================================
