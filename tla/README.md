# Verification of the PGOS orchestrator

TLA+ models, TLC runs and TLAPS proofs for the repository: an orchestrator
(`src/packages/orchestrator`, TypeScript) that lets one generation job at a time
write a Godot project, workers that run in GitHub Actions and call back, a commit
agent and an SSH-key provisioner on the target machine (Go), and the shared
status and fencing types (`src/packages/shared`).

`PROJECT.json` is the index: every component, every run with its properties, the
source lines of every definition, the hazards and what covers them.

## 1. Inventory

| Component | State | Operations | Interacts with |
| --- | --- | --- | --- |
| LockService + Lua scripts | Redis `<key>`, `lock_fencing_token:<key>`, `lock_fencing_seq:<key>`, instance id; Postgres `lock_fencing_seq` (ledger), `pg_locks`, `redis_instance_state`; cached id per process | acquire (free, reentrant), release, reclaim, rotate on failover, validate | JobService, health worker, `/locks` |
| Redis failover check | the three copies of the instance id | restore, rotate | LockService |
| Job status machine, dependency gate | none (pure) | transition table, gate, promotion decision | JobService |
| JobService | `jobs`, `dead_letter_jobs`, dispatch queue | create, dispatch, updateStatus, handleFailure, promote, heartbeat, admin reclaim, dead-letter retry | LockService, workers, GitHub, provisioner, envelopes |
| Health worker | BullMQ repeatable jobs, one at a time | stale-lock scan, failover check, tier-B probe, dead-letter escalation; resolver, outbox drain and uid reconcile on queues of their own | JobService, LockService, MergeService, scheduler |
| Generation workers (shell) | stage of the run, callback and fencing token | resolve secrets, post status, heartbeat, commit, verify | JobService, commit agent |
| Commit agent | nonce log, staged tree, `.bak` directories, the sidecar of a commit | snapshot, stage, commit, restore, recover, merge-apply | workers, orchestrator (token validation) |
| Target provisioner | `authorized_keys.d`, key ledger | provision, revoke, sweep | JobService, merge dispatch |
| Merge service and outbox | the scene file, `overrides`, `merge_outbox` | submit, drain, mark applied / dispatched / failed, run, complete | commit agent, GitHub |
| Scene merge | none (pure; the orchestrator's text, the same in the runner, and the agent's port) | merge a patch into a scene | outbox, runner, agent |
| Secret envelopes | `secret_references` | create, resolve once | JobService, runs |
| Auth and sessions, rate limits | `sessions`, `api_tokens`, `token_revocations`, `users`; `session:*`, revocation keys and windows in Redis | login, authenticate, logout, issue, revoke | every route |
| Uid registry | `uid_mappings`, uids in the project's files | reserve, commit, reconcile | jobs, target host |
| Scheduler and tier probes | `tier_health` | select, probe, ingest, enable | JobService, GitHub |
| Dead-letter notifications, alerts, mail | `dead_letter_jobs` and its two flags, queue `pgos-dead-letter` | bury, notify, escalate, retry | JobService, SMTP server |
| S3 client, sandbox service, extensions, MCP server, dashboard, release scripts | none the system depends on | calls | — |

What is hard here, and what correctness means:

* **Two stores, no common transaction.** A token is issued by a Redis script and
  recorded by a later Postgres transaction whose `now()` decides validation;
  sessions and revocations live in Postgres and are answered from Redis copies.
  Correct: one owner per token, only the newest validates, the instance ids agree
  again after any failure; what was revoked is refused afterwards.
* **Reads and writes of a row are separate statements.** Handlers of JobService,
  drains and reconciles read a row, decide, and write without a condition on what
  they read. Correct: the status machine is respected by what is *written*, one
  writer per project, final means final, nothing is said to be applied that is
  not, an override is not renamed.
* **Several recovery paths overlap**: retry, dispatch timeout, stale-lock scan,
  admin reclaim, dead-letter retry, re-dispatch of merges.
* **Late and repeated messages**: callbacks of an earlier attempt share the
  fencing token of the present one; dispatches are re-run; a merge is done again
  by another port of the same algorithm.
* **Crash points** in the rotation, the commit agent's two renames, the outbox,
  the key ledger, the burial of a job.
* **One worker slot**: whatever a health job waits for, all others wait for.

## 2. Modules

| Module | Models | State and actions |
| --- | --- | --- |
| `FencingLock` | `lock-service.ts`, the Lua scripts, `checkRedisFailover` | one variable per store; a Lua script is one action, a Postgres transaction two (`Begin` fixes `now()`, `...Commit` makes rows visible) |
| `TokenRegistry` | what the ledger promises | abstract: a write-once register of tokens |
| `FencingLockProofs` | theorems about `FencingLock` | |
| `JobStatus` | `job-status.ts`, `dependency-gate.ts` | operators only |
| `JobLifecycle` | `job-service.ts`, `scanStaleLocks`, `resolveDispatch`, `/jobs`, `/locks/reclaim`, worker scripts | a request is a thread with a stack of the calls still to make; a step is one read-and-decide or one write |
| `JobInvariants` | the invariants from which `JobLifecycleProofs` proves its theorems | |
| `JobLifecycleProofs` | theorems about `JobLifecycle` | |
| `CommitAgent` | `commit-agent/cmd/agent/main.go`, the cross-machine parts of `atomic-commit.sh` and `post-commit-verify.sh` | the directories, the sidecar and nonce log of one project on the target host; an action is one script step, or one file operation of `doCommit` and `restore` |
| `CommitAgentProofs` | theorems about `CommitAgent` | |
| `MergeOutbox` | `merge-service.ts`, `merge-outbox-worker.ts`, `merge-outbox-dispatch.ts`, `merge-apply.ts`, `routes/merge.ts`, `merge-apply.sh`, the agent's `merge-apply` | a request, a drain and a run each hold one task; an action is one awaited statement or file operation |
| `MergeOutboxProofs` | theorems about `MergeOutbox` | |
| `TscnMerge` | `tscn-merge.ts`, whose text `tscn-merge.mjs` repeats | operators: scenes are sequences of sections, nodes have lines |
| `AgentMerge` | `merge_apply.go`, translated from the Go text; extends `TscnMerge` for the sections | operators |
| `SceneMerge` | the merges applied to one file again and again | one action per port |
| `Provisioner` | `target-provisioner` | ledger operations are atomic (mutex and rename), file operations are steps |
| `Credentials` | `dispatchJob` from provisioning to the workflow dispatch, `secret-service.ts`, `ssh-provision.ts`, `routes/secrets.ts`, `resolve-secrets.sh`; extends `Provisioner` | everything a dispatch makes is named (job, attempt) |
| `CredentialsProofs` | theorems about `Credentials` and `Provisioner` | |
| `UidRegistry` | `uid-service.ts`, `uid-file-reconcile.ts`, `uid-remote-dispatch.ts`, `uid-reconcile.sh` | the table, the files, two reconciles |
| `UidRegistryProofs` | theorems about `UidRegistry` | |
| `Sessions` | `auth-service.ts`, `middleware/auth.ts`, `routes/auth.ts`, `rate-limit.ts`, `rate_limit.lua` | a request checks one credential, in as many steps as it awaits |
| `SessionsProofs` | theorems about `Sessions` | |
| `AlertMail` | recipients of `alert-service.ts`, `smtp-client.ts` | operators: every result a mail can have |
| `TierHealth` | `tier-probe.ts`, `probeTierBAvailability`, `selectTier`, `POST /tiers/B/probe` | operators |
| `HealthWorker` | `health-worker.ts` (job loop, probe), `dead-letter-service.ts`, the burial in `handleFailure`, the dead-letter consumer; extends `AlertMail` and `TierHealth` | two workers with one job each |
| `HealthWorkerProofs` | theorems about `HealthWorker` | |
| `MC*` | instances for TLC | |

### FencingLock

`call[c]` is where an in-flight LockService call is: `begin`/`commit` for an
acquire that has run its script, `abort` for the compensation
(`releaseRedisOnly`), `unledger` for a release, `rbegin`/`rcommit` for a reclaim,
`fbegin`/`fcommit`/`fset` for a rotation, `restore` for a failover check that
found Redis without an id. Between any two steps every other call, a TTL, a crash
of the process, a failed transaction (with or without the rows having been
committed), a promoted master (another id, no keys) and a restart of Redis
without persistence may happen. TTLs have no clock: a key may expire at any time.
Choices made:

* `withTransaction`'s timestamps are distinct (microseconds in Postgres).
* Migration `001_initial.sql` seeds `redis_instance_state`, so `Init` has a
  Postgres id; the `randomUUID` branch of `ensureInstanceId` is dead code and is
  left out. `ensureInstanceId` is one step: what it does after a crash in the
  middle is what it does when started afresh.
* `checkRedisFailover` reads both ids in one step; validation is a state
  predicate (`Accepts`) over the ledger and the id its process has cached.
* `released_at` is written by release and read by nothing that is modelled.
* After a reclaim the token key has no TTL in Redis; that it may expire here only
  adds behaviours, because nobody re-enters a reclaimed lock.
* `overtaken` records the tokens whose lock or token key went (release, compensation,
  reclaim, TTL) while their acquire was between its script and its COMMIT. Nothing in
  the code prevents that; `AcceptedIsNewest` is claimed for all other tokens (section 3
  says what happens to these).

### JobLifecycle

`stack[t]` is the list of calls request `t` has still to make: `updateStatus`
calls `handleFailure`, which calls `dispatchJob`, which may call `updateStatus`
again, and an exception (`Throw`) unwinds all of them. `answer[t]` is the worker
that waits for the answer to request `t`, and the status it posted. A LockService
call is one step here (`Acquired`, `Released`, `Reclaimed`, `Validates`);
`FencingLock` opens it. `run[n]` is the worker that was given the n-th callback
token; `Posts` is what its script may post next. Abstractions:

* one project; tier choice, storage prefixes, alerts, audit rows and metadata
  other than `targetPathLockKey` are left out, and so are lock *errors* (as
  opposed to denials) and the crash of the orchestrator;
* a lock row or a heartbeat may be stale at any time;
* a callback that is refused (401, 403, 409) makes the script exit; the worker
  waits for its answer, so a re-posted PATCH is not modelled yet;
* BullMQ remembers every `resolve-<job>-<attempt>` id (`removeOnComplete: 100`);
* `crossed` records two crossings that the code does not prevent and that it does not
  survive: a request replaces the callback token of a job while a callback that was
  authenticated with it has not read the row (`"callback"`), and a promotion begins
  while another is between reading the blocked jobs and setting one to QUEUED
  (`"promotion"`). Both happen in the model. The properties of running jobs are claimed
  until the first has happened (`CallbacksInTime`), `ReleasedIsFinal` until either has;
  section 3 says what happens then;
* the reads of `create`, of the dependency and of the active job, are two steps, and so
  are the workflow dispatch and the `dispatchQueue.add` that follows it;
* a worker writes the project while it commits and while it verifies, because
  `do_rollback` puts the old tree back in that phase (`Writing`).

### CommitAgent

A worker is one attempt of a job: its scripts take a snapshot, stage a tree,
call the commit verb, verify, and roll back from the S3 archive or else from the
backup on the host. A verb that changes the project runs in a process of its own
(`agent[w]`, the `-once` mode); of the socket daemon only its start is modelled
(`daemonUp`). A process, or the host with all of them, may die between any two file
operations; a worker may lose its connection while its process goes on, also beside
the next attempt. `valid` is the token the orchestrator accepts (what that means is the
subject of `FencingLock`); it changes with a dispatch and when the lock is released or
lost. Abstractions and choices:

* a generated project is one tree named after its attempt, `Partial` stands for
  any half-written directory; renames are atomic and durable, files survive a
  crash of the host; each rename may fail, the one that undoes a failed commit too;
* every attempt has a nonce of its own (`<job>-<seconds>`) if the script passes one, a
  retry has the fencing token of the attempt before it, which it re-enters. The process
  finds lock key and owner in its arguments, in its environment or nowhere (`by`);
  without them it commits unchecked, unless `PGOS_REQUIRE_FENCING` is set as it is in
  AgentCommit;
* the path checks of `paths.go`, the editor lock and the `.godot` exclusion are
  left out; the reimport either succeeds or fails for good;
* the workers' scripts commit `/tmp/staging-<job>` (atomic-commit.sh:98), so every
  sidecar is `/tmp/.pgos-pending-commit`, one file. `recoverPendingRenames` looks
  inside the directories `/tmp/staging-*`, where there is none: the start of the daemon
  finishes nothing (`DaemonStart`, the run AgentRecovery). The shipped systemd unit
  besides gives the daemon a /tmp of its own (`PrivateTmp=true`);
* `crowded` records the attempts that were dispatched while a process of an earlier one
  was at work, and `outrun` the ones whose token ceased to validate after their check
  of it. The code prevents neither; the properties say what holds otherwise.

### TokenRegistry

`FencingLock!LedgerIsRegister` is `Register!Spec`, with the register mapped to the
(key, token, owner) triples of the ledger. A step of any transaction must be a
`Give` (rows are added, all tokens still determine their owner) or a stutter; a
double-write that replaced the owner of a row, as an UPSERT would, is not.

### MergeOutbox, TscnMerge, AgentMerge, SceneMerge

`scene` is the set of overrides merged into the file, so a lost update is a
missing element; `overlap` records that two read-merge-rename of the file were
under way together, which nothing in the code prevents. The environment
(`redispatch`, `mode`, `mounted`, which overrides are not `.tscn`) is chosen
initially. `FOR UPDATE SKIP LOCKED` holds its locks for one statement, as no
transaction is open, so two drains may list the same row. `project_root` is NOT
NULL, so the branch "no project_root" is not reachable and is left out. The dispatch JWE
of a merge is direct, so that a run may be re-run; a run is a slot of `Runs`,
which strong fairness lets every dispatch have in the end.

What a drain does with a row that fails is `MarkFailed` and then the awaited
`sendAlert`. Two awaits of a remote row have no timeout, the POST over mTLS that
provisions a key and the SMTP session of the alert (its severity is high, and so mailed,
for a failed dispatch alone), so a drain may hang there (`DrainHangs`); it then keeps
the rest of its batch, and `Drains` are two to see whether the other one gets on.

`TscnMerge` keeps the sections, their order, and the lines of a node, each of which the
pattern of `setPropertyLines` takes for a property or not. What a merge writes is read
as lines again: a property whose key the pattern does not match (`OddKeys`; routes/merge.ts
admits any key) comes back as other text, and so do the further lines of a value of
several lines. A redo then writes them once more, and a further line that the *base* has
is moved behind the properties. `RedoChangesNothing` is therefore about patches whose
properties are found again (`FoundAgain`) and that name each node once, under the path it
then has (`Unambiguous`).

`AgentMerge` is a translation of its own of the Go port. Where the two languages read a
patch differently both modules have what their text does: an empty string hides what
follows it in `np.path ?? ...` and is absent in Go; any truthy `delete` deletes in
TypeScript, only `true` in Go; objects and large numbers are written by `JSON.stringify`
and by `renderPropValue` in different ways. `PortsAgree` is about the other patches
(`ReadAlike`), and the ports do differ on these. Go walks a map in any order, so
`AgentMerges` is a set: one scene per order of the flat entries (`FlatOrders`) and of the
properties of a node (`PropertyOrders`). The runner's `tscn-merge.mjs` is the
orchestrator's text without its types; no property compares those two.

### Provisioner, Credentials

`files` is what sshd accepts, `ledger` what the service remembers. `handler[k]` is
where the request of a dispatch is between `CheckCeiling` and `EnterKey`;
`removing` is what a sweep or a revoke has taken off the ledger and not unlinked.
There is no clock: a key expires at any time after it is installed, an envelope
lapses at any time after it is made (their TTLs start at different moments, the
key's first). Nobody calls `/v1/revoke` in the repository; it is modelled as an
operator's request. A run asks for its secrets once: the script does not retry an
exchange whose answer was lost.

### UidRegistry

`reserve` is one transaction under an advisory lock and one action. A reconcile
finds the duplicate uids, reads each group again, updates the rows one by one and
rewrites the files one by one; the map of replacements keeps only the last uid for
an old one. `rec[r].stale` are rows committed since the reconcile read its group.

### Sessions

A request is `get` (Redis), `select` (Postgres), `fill` (Redis) and then a handler;
`request[r].after` says whether the credential had been ended when the request
arrived. The rate limits run first (`preHandler` hooks in the order they are
added). Only the login limit is counted; a refusal of the other two changes
nothing.

### AlertMail, TierHealth, HealthWorker

`Results(to)` is evaluated once: every way a mail server can answer the script of
`sendSmtpMail` with at most `MaxTroubles` commands not simply obeyed. `TierHealth`
judges every pair of run lists with at most one run each; `RunTimes` are a run
95 minutes old, past the age limit of 90, one of 85 minutes, and two recent ones
(time is in half minutes, now is 200). `HealthWorker` uses the sets of judgements these give. The lock scan
and the failover check appear as a job that takes time and may fail; what they do
is in `JobLifecycle` and `FencingLock`. `told` are the jobs about whose first burial a
mail was sent, `lost` those about which a mail failed and none was sent: `sendAlert`
swallows the error, and the flag of the row is set all the same.

The comment at tier-probe.ts:48 says that runs of `godot_health.yml` are preferred. The
code sorts both lists together and takes the newest run, and so does `Latest`; what the
comment describes is the mutant `LatestHealthFirst`, under which an old failure of the
health workflow outweighs newer runs and `TierReturns` fails.

## 3. Runs

All runs set `CHECK_DEADLOCK FALSE`: a behaviour really ends when every job is
finished or a bounded event is used up.

| Run | Instance | Properties |
| --- | --- | --- |
| LockTimely | 1 key, 2 owners, 2 calls, 2 tokens under an id, 1 failover, 1 fault | TokenOwnerUnique, AcceptedIsNewest, LedgerIsRegister |
| LockConverge | 1 key, 1 owner, 2 calls, 1 failover, 1 loss of Redis, 1 fault, fair | InstanceIdConverges |
| JobRace | 2 jobs (one cross-machine), dependencies, 2 threads, 2 attempts | RunningHoldsLocks, SingleWriter, DispatchResolvable, DependencyRespected, FsmRespected |
| JobFaults | 2 same-machine jobs, 1 thread, 1 scan, 1 reclaim, 1 expiry, 1 dead-letter retry of any job | FencedWriter, LocksFreed, ReleasedIsFinal |
| AgentCommit | an attempt, its retry and another job, 2 faults | BackupRetained, WholeTreeLive, RollbackRestores, CommitFenced |
| AgentRecovery (violated) | one attempt, 1 fault, fair | TargetReturns |
| MergeDrain | 2 overrides (one with a script, one perhaps not a scene), 2 drains, 1 run at a time, 1 fault, fair | AppliedHasLanded, LostOnlyByOverlap, PendingSettles |
| SceneMerges | every patch of at most 2 of 10 node entries, with or without a flat map, or of one and a resource; 2 merges | RedoChangesNothing, PortsAgree |
| Credentials | 2 dispatches of a job, 1 key allowed in all, 2 runs, 1 fault, fair | SecretOnce, KeyInstalled, RefusedForCause, CeilingHeldAlone, NoForgottenKey, ExpiredKeysGo |
| UidReconcile | 2 assets, 2 jobs, 2 reconciles, 3 commits, 3 new uids, 1 fault, fair | ReservationExclusive, DuplicatesVanish, OverridesKept, CanonicalStays |
| Sessions | 1 session, 1 token, 2 requests, 2 passwords, 1 fault, fair | RefusedOnceEnded, DeniedForGood |
| HealthWorker | 1 job buried at most twice, 2 contacts and an administrator, 2 mail troubles, 1 fault, fair | SentIsTaken, EscalatedOnce, FirstBurialHeard, ScansGoOn, TierReturns |

Why the bounds are enough. Locks of different keys share nothing but the instance
id, so one key is the interesting case (the proofs cover the rest); a stale token
needs two owners and a token after it; two calls are an acquire and the
reclaim, release or rotation that overtakes it. Two jobs are an active and a
blocked one; with three a second job may finish while the first one's request
promotes the third (see below); two attempts give a retry and an exhaustion;
two threads are every pair of handlers. Scans, reclaims and dead-letter retries are run
with one thread because they overwrite `jobs` unconditionally and two threads break the
properties (see below). Three attempts of the agent are a retry with the same token and directory,
and a commit under another token; two faults are an interrupted commit and the
interruption of what should repair it. In the outbox a request, a drain and a run
are three writers of one file, the second drain goes on when the first one hangs, and a
batch of two leaves room behind one row nobody can apply. The node entries of the scene
merges set, add, delete, re-add and rename nodes, with a key of another form, a value of
two lines, an empty path and a `delete` that is no boolean among them. Two keys and a ceiling of one make every provision meet the
ceiling; two runs are a run and its re-run. Two paths are one duplicate pair, and
the third commit makes a new duplicate after a reconcile. Two requests are a check
and the logout or revocation that overtakes it. Two burials are a first and a
repeated one. Owners and calls, threads, and jobs of one kind are interchangeable
(`SYMMETRY`), except in the liveness runs.

**Fairness.**

* LockConverge: weak fairness of `ensureInstanceId` (called at start-up before the
  workers), of `checkRedisFailover` (a repeatable job) and of the steps of a call
  that has begun. None for requests, expiries, crashes or Redis faults. `MaxIds`
  is large enough never to stop a rotation.
* AgentRecovery: weak fairness of scripts and processes that have begun, and of the
  daemon's start (`Restart=on-failure`, systemd at boot).
* MergeDrain and UidReconcile: weak fairness of the repeated job
  (`scheduleRepeatableJobs`) and of a run that has started. A drain that hangs stays so:
  `PendingSettles` excepts the case that every drain does (`AllHung`), which one fault
  cannot bring about. `MaxCommits` and `MaxNew` bound what
  jobs do; a fair reconcile is stopped by `MaxNew` only when commits have made
  more duplicates than the bound allows for, which three commits do not.
* Credentials: weak fairness of the sweep (a ticker) and of an unlink in progress.
  None for dispatches and runs.
* Sessions: weak fairness of what the server does for a request it has, and of
  Redis dropping expired keys. None for clients.
* HealthWorker: weak fairness of the job in hand, of the dead-letter consumer and
  of the calendar; strong fairness of taking each *kind* of repeatable job:
  BullMQ is first in, first out and every repeatable is added again, so no kind
  is passed over for ever while the slot is free again and again.

### Where the code and its documents differ

Each item names the definition that states it. One, `TargetReturns`, is checked by a run
that expects the violation. Some are checked with the exception named here, and fail
without it; the others no run checks, because the code does not satisfy them under the
bounds given.

* `ReleasedIsFinal` without its condition on `crossed` (`JobLifecycle`, JobRace with three
  jobs, one attempt and no dependencies: no scan, reclaim or retry).
  `promoteBlockedJobs` reads the BLOCKED rows once and writes QUEUED without a
  condition (job-service.ts:826). Another request may promote the same job in
  between: it is dispatched twice, or, once it has run out of attempts, a
  DEAD_LETTER job starts again, although job-status.ts:54 says it will not. The
  same step breaks `FsmRespected` and, with four mints, `RunningHoldsLocks`: JobRace claims
  both for two jobs, whose promotions may overlap without harm, the theorems for any
  number until two promotions have overlapped.

* `RunningHoldsLocks`, `SingleWriter`, `FsmRespected` without `CallbacksInTime`
  (`JobLifecycle`, JobRace). `patchStatusHandler` compares the callback token,
  `updateStatus` reads the row afterwards. When the job fails, is requeued and dispatched
  again in between, the late callback is applied to the new attempt, whose row it writes
  by what it read.
* `AcceptedIsNewest` and `ReclaimRejectsPriorTokens` without `Overtaken`
  (`FencingLock`, LockTimely). An acquire starts its transaction after its script. When a
  reclaim's transaction starts in between, the reclaimed owner's row has the later
  `acquired_at` and its token validates, although lock-service.ts:336-338 says such
  workers are rejected.
* `ReacquiredTokenAccepted` (`FencingLock`). A rotation leaves
  `lock_fencing_token:<key>`; a holder that re-acquires, as lock-service.ts:146 asks, is
  handed its old token, which is refused.
* `NoStrandedJob` (`JobLifecycle`, two threads). `create` reads the active job and
  inserts its BLOCKED row separately; if the active job finishes in between,
  nothing promotes the new one (job-service.ts:155, :764).
* `ReleasedIsFinal` without its condition on expiries (`JobLifecycle`, one scan and one
  expiry). `release` leaves the `pg_locks` row when the Redis key is gone; the scan then
  restarts a finished job (job-status.ts:54).
* `FencedWriter` with `CrossJobs = {j1}` and one scan. Heartbeats refresh the row of
  the generation lock only; the target-path row goes stale under a healthy job,
  which is then dispatched twice with the same valid fencing token (E005.md:3).
* `DeadLettersListed` (`JobLifecycle`, `MaxScans = 1`). Exhaustion by stale locks
  makes a job DEAD_LETTER without a `dead_letter_jobs` row.
* `TargetReturns` (`CommitAgent`, the run AgentRecovery). `doCommit` writes the sidecar
  beside the staging directory, recovery looks inside it (main.go:732, :900): a
  crash between the two renames leaves the project without a tree, although
  README.md:211 lists the sidecar as the way back.
* `FailedRedispatched` (`MergeOutbox`). docs/errors/E014.md tells operators to set
  `PGOS_MERGE_OUTBOX_REDISPATCH` for failed rows; `listPending` takes rows with
  status `pending` only, and nothing resets `failed`.
* `HardCeiling` (`Provisioner`). handler.go:22 calls MaxConcurrentKeys "a hard
  ceiling"; two requests between check and entry pass it together.
  `CeilingHeldAlone` is what holds.
* `CanonicalFileKept` (`UidRegistry`). Files are rewritten by old uid, not by path,
  so the canonical asset's file loses the uid its row keeps (the comment on
  autoResolveDuplicates says it is kept).

Other conditions the passing instances rest on, each reproduced by changing the
constant named and checking that property alone:

* Redis restarted without persistence (`MaxLosses = 1` in LockTimely): counters
  restart under the restored id, so `TokenOwnerUnique` fails. It is the one
  assumption of the theorems.
* Scan and failure handling overlapping (two threads in JobFaults): both pass the
  check on attempts before either increments, and the scan may act on a row read
  before its job finished.
* A dead-letter retry (`MaxRetries = 1` in JobRace) resets `attempt`, the queue
  drops the repeated resolve-run id and `DispatchResolvable` fails; retrying a job
  that is still committing lets two workers write with one token, so `FencedWriter` is
  claimed until somebody retries.
* A cross-machine job that runs out of attempts keeps its target-path lock until its TTL:
  `handleFailure` releases the generation lock only. `LocksFreed` excepts that lock.
* An agent process that outlives its worker can make a tree live that the retry is
  still extracting, or replace the backup the retry needs: `WholeTreeLive`,
  `BackupRetained` and `RollbackRestores` except an attempt that was dispatched beside
  one (`crowded`). Its token may be replaced between its check and its rename
  (main.go:711, :760), so that its commit is not fenced: `CommitFenced` excepts a token
  that ceased to validate after the check (`outrun`). A process that comes to the check
  with a token that has already been replaced is stopped, in every interleaving.
* `LostOnlyByOverlap`: nothing locks the scene file, so two overlapping merges
  lose one although both rows say applied.
* `PendingSettles` needs fewer rows that the agent refuses than a batch holds:
  such rows stay pending, stay first in `ORDER BY created_at`, and fill the batch. It
  also needs a drain that does not hang (`AllHung`): `provisionTargetKey` and `sendAlert`
  are awaited without a timeout.
* `RefusedOnceEnded`: a check that read Postgres before a revocation and writes its
  answer after it brings the credential back until the key expires
  (auth-service.ts:123). `overlapped` names exactly these.
* `CanonicalStays`: two reconciles at a time give every member of a group a new uid.
* `FirstBurialHeard` counts a mail the server took (`told`) and excepts a job whose mail
  failed (`lost`): `sendAlert` swallows the failure (alert-service.ts:175), the
  escalation sets its flag all the same (dead-letter-service.ts:161, :171), and with every
  mail refused nobody hears of the job. It is about the first burial. The second one of a job is silent:
  the queue keeps the id `dlq-<job>` (`removeOnComplete: false`) and ignores the
  new event, and ON CONFLICT keeps `created_at` and both flags.
* `ScansGoOn`, `TierReturns`, `FirstBurialHeard` except a hung mail: `smtp-client.ts`
  has no timeout, so a server that falls silent keeps the only slot of
  `pgos-health` for ever (health-worker.ts:26 promises a scan every 15 s). It also
  reads one line per command: a reply of several lines, as to EHLO, is taken for
  the answers to the commands that follow and usually fails the mail.

From reading, not from a run: JOB_STATUS_TRANSITIONS has no BLOCKED → DEP_FAILED, so
`promoteBlockedJobs` throws when a dependency has failed and the dependent stays
BLOCKED. `resolveRunId` looks for any run of the job and may find the one of an
earlier attempt. The `preHandler` limiter runs before `authenticate`, so requests
are limited per IP, although rate-limit.ts:35 says per user or token; after a Redis restart the
cached script digest is unknown and a production server answers 503 until it is
restarted (in `Sessions`: `RateLimitHook`). A TMP reservation of a job that died
blocks its path for ever. A row of 72 hours that was never escalated gets the 72 h
mail first and the 24 h mail at the next scan. `pgos:job_priority_queue` is
written and never read. A failed *worker* run of either tier marks tier B
degraded, and `godot_health.yml` takes heartbeats older than two minutes for stale
although the probe and the escalation beat every five and sixty minutes.

## 4. Proofs

`FencingLockProofs` proves, for any sets of keys, owners, processes and calls and
any bounds, from the named assumptions of `FencingLock` (names are distinct,
every call has a process, bounds are natural numbers):

* `TypeCorrect`: `Spec => []TypeOK`, from `TypeInv`, which adds what the stage of
  a call says about its fields.
* `TokenOwnerUniqueThm`: `Spec => []TokenOwnerUnique` when `MaxLosses = 0`.
* `LedgerIsRegisterThm`: `Spec => LedgerIsRegister` under the same assumption, so
  `FencingLock` implements `TokenRegistry`. The initial ledger maps to the empty
  register; `LedgerGrows` says that no action removes a row; that the new register
  still determines owners is `TokenOwnerUnique` of the next state, from `IInv'`.

`TokenOwnerUnique` speaks of the ledger, but what keeps it true is in Redis and in
calls that have a token and no row yet, so it is not inductive. `IInv` speaks of
`Issued`, the tokens in the ledger or on their way to it:

* `IdInv`: a rotation in progress carries an id Redis never had;
* `IssuedMinted`, `TokenMinted`: every token was made by INCR, so under Redis's
  present id its counter is at most the key's counter — the next one is new;
* `IssuedUnique`: one owner per issued token;
* `HeldToken`: the token stored beside a held lock was issued to nobody but the
  holder, so that a reentrant acquire may hand it out again;
* `FailoverRows`, `Booted`, `Fresh`: rotation rows have counter 0 and belong to
  "system"; before Redis has an id nothing was issued.

Each action is either one that issues a token (`IssuingStep`) or one that does
not (`NonIssuingStep`); the two lemmas carry the argument and the actions only
establish their hypotheses.

`SessionsProofs` proves `RefusedOnceEndedThm`: `Spec => []RefusedOnceEnded`, for any
sets of logins, tokens and requests and any bound on failures. The property speaks
of accepted requests; its invariant `IInv` adds why they could be accepted:

* `EndedTokens`, `EndedSessions`: a credential whose end was answered has ended in
  Postgres, and Redis says otherwise only if a check overlapped that end;
* `RequestsOK`: what the stage of each request implies about its credential
  (`RequestOK`), and that a request which came too late is past no check that
  would accept it (`LateOK`).

A step moves one request and changes the stores for all of them; `Forward` lists
what stores never take back, and `RequestsKept` shows that this is all the
requests which stand still depend on.

`CredentialsProofs` proves all five safety properties of `Credentials` and
`Provisioner`, for any jobs, attempts, runs, ceilings and faults: `SecretOnceThm`,
`KeyInstalledThm`, `RefusedForCauseThm`, `NoForgottenKeyThm`, `CeilingHeldAloneThm`.
They share one inductive invariant, `IInv`, of four parts, each with its own lemmas:

* `KeysInv`: how far the request for a key has come decides whether it is in the
  ledger and in a file, and what a sweep or revoke still has to unlink;
* `RoomInv`: without an overlap at most one request is past the first ceiling and
  there is still room for its key, which is why entering it is safe;
* `DispatchInv`: an attempt that has not begun has made nothing (`Untouched`: a
  request is always for a new key), each step of `dispatchJob` implies what was made
  before it (`DispatchOK`), and a dispatch whose workflow was started has all of it
  (`SentOK`);
* `WorkersInv`: a run belongs to a started dispatch, and what it was given or refused
  agrees with the row, the hash and the clock.

`SentOK` is what carries `KeyInstalled` and `RefusedForCause` from the worker's side
back through the dispatch to the provisioner; neither is inductive without it.

`AcceptedIsNewestThm` and `ReclaimRejectsPriorThm` (again `FencingLockProofs`) say
that validation follows the order in which tokens were issued, except for tokens whose
acquire was overtaken, when `MaxLosses = 0`. Section 3 has the behaviours that break them
without the one or the other; every other interleaving of scripts, transactions,
expiries and reclaims is allowed. `validateFencingToken` goes by `acquired_at`, so
`NewestInv` relates the timestamps of transactions to their tokens: `StoredNewest` (no
token newer than the one in Redis was issued under its id), `WritingNewest` and
`WritingHeld` (while an acquire is on its way to its BEGIN, its lock is held and its
token is the stored one, or Redis is another by now, or it was overtaken), `StampedPast`
and `StampedOrder` (whoever has a later timestamp has a token at least as new, or one
that was overtaken). `QuietStep` and `HandOut` are the steps that issue nothing and those
that issue a token.

`CommitAgentProofs` proves `BackupRetainedThm`, `WholeTreeLiveThm`,
`RollbackRestoresThm` and `CommitFencedThm` for any jobs, attempts, tokens and faults,
with processes that outlive their attempts. The exceptions are those of the properties:
`crowded` and `outrun` are what has happened so far, not what may happen. `IInv` says that
one attempt at a time is active (`OneActive`) and an undisturbed one is alone with the
project (`Alone`, `Undisturbed`: no process of an earlier attempt was at work when it was
dispatched); for each stage of an undisturbed worker and of its process what the live tree,
the backup, the archive and the staged tree are (`WorkerOK`, `ProcessOK`); that whoever is
past the check, undisturbed or not, has a valid token or was outrun, or named no lock
where none is required (`TokenHeld`, `MayCommit`); and that until somebody is crowded half
a tree is live only while a restore is repeated (`WholeTrees`).

`MergeOutboxProofs` proves `AppliedHasLandedThm` and `LostOnlyByOverlapThm` for any
overrides, drains, runs, batch size and faults. `Landed`: whoever is about to say
"applied" has seen the merge written. `Undisturbed`: until two writers overlap, one
task at most is between its read and its rename (`Alone`), and what it read is
still the file (`Current`). Requests, drains and runs hold tasks of the same form,
so three lemmas about one step of *a* task carry the argument.

`UidRegistryProofs` proves `ReservationExclusiveThm`, `OverridesKeptThm` and
`CanonicalStaysThm` for any paths, jobs and reconciles. `autoResolveDuplicates`
writes by what it read: `Entries` says that a row it has listed still has the
namespace it had then, unless the row was committed since; `EntryUids` and
`CanonicalLeft`, that without a commit and without a second reconcile the listed
rows still have the duplicated uid and one row outside the list has it too.

`HealthWorkerProofs` proves `EscalatedOnceThm` for any jobs, mail results and
faults. The property counts mails against faults; `Counted` says how far the count
may be ahead: by a flag that is set, or by the one mail that is out (or stuck with
a silent server) and not flagged yet. `Unflagged` says that the scan mails about
rows whose flag is not set, although the flags were read at its beginning.

`SentIsTakenThm`, in the same module, holds for any list of contacts and any answers
of the server (`MaxTroubles` is any number). `Mailed` is its invariant: a worker
that has mailed holds a result that its alert can have. The rest is about those
results. The client reads one line per command, so the lines it compares are a prefix
of the concatenated replies (`Sums`). `FirstDisobeyed`: take the first command the
server does not just obey. A refusal or a reset puts 550 or 0 where a code is awaited;
silence leaves too few lines; a reply of two lines shifts all that follow, and the
first later command that awaits another code, 221 of QUIT at the latest, is not
answered as awaited. Hence a conversation that ends with "sent" was obeyed up to QUIT
(`SentObeyed`), the server took the text for every RCPT (`SentKeys`), and those are the
contacts and ADMIN_EMAIL without blanks and repeated spellings (`ResolvedKeys`). The
contacts and the commands are sequences of any length. The inductions over them use no
induction theorem with an operator parameter but sets of numbers: a nonempty one has a
least member (`LeastMember`, from `WFMin`), so one that holds 0 and goes on as far as
`m` holds `0..m` (`Climbs`), and functions may be defined step by step (`Recursion`).

`JobLifecycleProofs` proves, for any jobs, dependencies, requests, attempts and workers
and any bounds, `RunningHoldsLocksThm`, `SingleWriterThm`, `DispatchResolvableThm`,
`DependencyRespectedThm`, `FsmRespectedThm`, `TerminalIsFinalThm`, `LocksFreedThm` and
`TypeCorrectThm`. The last one is unconditional: `TInv` gives every call, answer, worker,
row and lock its type, whatever expires, is scanned, reclaimed or retried. The others are
about the behaviours *so far* `Calm`: no lock has expired, nothing was scanned, reclaimed
or retried, no callback came too late and no two promotions overlapped (`crossed = {}`).
`Calm` is a state of the system and no restriction of its steps: all of these events may
occur, and the theorems say what holds until the first one (the invariants as
`[](Calm => ...)`, `FsmRespectedThm` and `TerminalIsFinalThm` as `[][Calm => ...]_vars`).
Section 3 has the behaviours that break the properties after a crossing, a scan or a
retry. What holds after an expiry, a scan or a reclaim (`FencedWriter`, `LocksFreed`,
`ReleasedIsFinal` of JobFaults) is model-checked only. `LocksFreedThm` includes
cross-machine jobs, with the exception of `LocksFreed`.

The inductive invariant is `IInv`: while `Calm`, `Inv` holds. `Inv` is what one request may
rely on while others run between its read and its write, although nothing in the tables
says so:

* `Alone`: of the calls that will write a row or release a job's locks, at most one
  is current for any job (`Drives`); at most one request promotes; a worker waits for
  at most one answer. This is what makes the unconditional writes of the code safe;
* `Stores`: types; `Form` and `CallOK`: a request is at most three calls deep, and each
  call was made for a status its job still has (`StatusFits`, `UpdateFits`), with the
  attempt, locks and dependency it was made for (`Prepared`);
* `AnswerOK`, `WorkerOK`: a worker that has work has its job's callback token, and the
  status of the job is the one of its stage, unless its request is past the row's
  update and the answer is on its way;
* `JobOK`: a running job owns its locks and its dependency has COMPLETED; an entry of
  the dispatch queue belongs to a DISPATCHING job nobody drives, and attempts grow, so
  that an id of the queue is never used twice;
* `ListOK`: what promoteBlockedJobs has listed is still BLOCKED.

Most calls disturb one job. `Local` says what such a step may do, `StepKeeps` that
it leaves every other request, worker and job as the invariant has them; for each
action there remain the calling request and its job. `FsmRespectedThm` then compares
what `CallOK` says of a row with what each action writes. `LocksFreedThm` adds `Wanted`:
the owner of the generation lock has been dispatched and has not finished, unless a
request is about to record the lock or to release it (`LockWanted`, `Holding`); a call
that will end a job knows whether the job has had its lock (`KnowsLock`).

Only model-checked:

* every liveness property: liveness under fairness is out of the prover's reach;
* `FencedWriter` and `ReleasedIsFinal`, and `LocksFreed` after an expiry, a scan or a
  reclaim (JobFaults);
* `RedoChangesNothing` and `PortsAgree`: `TscnMerge` and `AgentMerge` are built from
  nested folds and filters of sequences of sections, attributes and resources. What it computes for
  every input would need an induction for each of them, as `SentIsTakenThm` has for two
  flat sequences, and no theorem with an operator parameter helps.

## 5. Not modelled

`PROJECT.json` lists every component with its status. The S3 client, the sandbox
runner, the extensions, the secret rotation and the parity scan, the dashboard and the MCP server keep no state the system
depends on, and the release scripts (`src/scripts/verify-*`) inspect the repository
rather than run in it; cryptography, SQL text and HTTP framing are out of scope.
Of modelled components, left out are: a crash of the orchestrator in the middle of a
request of JobService (except the burial and the dispatch), lock errors as opposed
to denials, the same-machine file moves of the worker scripts, the agent's path
checks and editor lock, the counts of the sustained and burst limits, tier A's
heartbeats, and the priority queue.

## 6. Plan

Done: all modules of section 2 with their runs; the refinement of `TokenRegistry`;
the theorems of section 4. Next:

1. `FencingLock` with two processes that cache the instance id.
2. `JobLifecycle`: a crash of the orchestrator between two steps, and a PATCH
   re-posted by curl while the first one runs.
3. An abstract single-writer project, implemented by `JobLifecycle`.
