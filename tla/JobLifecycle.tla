--------------------------- MODULE JobLifecycle ---------------------------
(***************************************************************************)
(* JobService, the stale-lock scan and the dispatch resolver of the health *)
(* worker, and the generation workers that call back, for one project.     *)
(*                                                                         *)
(* A request or queue job runs as a thread whose stack holds the calls it  *)
(* has still to make, the current one first: updateStatus calls            *)
(* handleFailure, which calls dispatchJob, which may call updateStatus.    *)
(* A thread is interrupted between its reads and the write they lead to    *)
(* and between any two writes.  A call of LockService is one step here;    *)
(* FencingLock opens it.                                                   *)
(***************************************************************************)
EXTENDS Naturals, Sequences, FiniteSets, JobStatus

CONSTANTS
    Jobs,         \* jobs of the project
    CrossJobs,    \* those with commitStrategy cross-machine
    NoJob,        \* absent job reference, owner or pg_locks row
    System,       \* owner of a reclaim row in the ledger
    Threads,      \* requests and queue jobs running at a time
    MaxAttempts,  \* jobs.max_attempts
    MaxMints,     \* bound on dispatches (callback tokens minted)
    MaxTokens,    \* bound on fencing tokens per lock
    MaxScans,     \* bound on stale-lock scans
    MaxReclaims,  \* bound on admin reclaims
    MaxRetries,   \* bound on dead-letter retries
    MaxExpiries,  \* bound on Redis TTL expiries
    Dependencies  \* whether jobs may be created with dependsOnJobId

ASSUME JobsAssumption ==
    /\ NoJob \notin Jobs /\ System \notin Jobs /\ NoJob # System
    /\ CrossJobs \subseteq Jobs
    /\ Dependencies \in BOOLEAN

ASSUME LimitsAssumption ==
    /\ MaxAttempts \in Nat \ {0} /\ MaxMints \in Nat /\ MaxTokens \in Nat
    /\ MaxScans \in Nat /\ MaxReclaims \in Nat /\ MaxRetries \in Nat
    /\ MaxExpiries \in Nat

VARIABLES
    job,       \* job[j]: row of the jobs table
    created,   \* jobs in created_at order
    lk,        \* lk[l]: a lock in Redis, the ledger's latest row, pg_locks
    stack,     \* stack[t]: calls thread t has still to make
    answer,    \* answer[t]: the worker thread t answers to and what it posted
    run,       \* run[n]: the worker that was given callback token n
    mints,     \* callback tokens minted so far
    pending,   \* resolve-run entries waiting in the dispatch queue
    queuedIds, \* ids of resolve-run entries the queue has ever seen
    dlq,       \* unarchived dead_letter_jobs
    budget,    \* occurrences of the bounded events
    crossed    \* history: which crossings of two requests there have been

vars == <<job, created, lk, stack, answer, run, mints, pending, queuedIds, dlq, budget,
          crossed>>
workers == <<run, answer>>
queueVars == <<pending, queuedIds>>
history == <<budget, crossed>>

-----------------------------------------------------------------------------
Locks == {"generation", "target-path"}
Mints == 1 .. MaxMints
Stages == {"none", "start", "validating", "validated", "committing", "verifying",
           "gone"}

NewRow == [status |-> "NONE", attempt |-> 1, lockKey |-> FALSE, cb |-> 0,
           dep |-> NoJob, blockedBy |-> NoJob, done |-> FALSE,
           target |-> FALSE, beat |-> FALSE]

FreeLock == [owner |-> NoJob, tok |-> 0, ctr |-> 0,
             lastOwner |-> NoJob, lastTok |-> 0, row |-> NoJob]

NoFrame == [op |-> "none", j |-> NoJob, l |-> "generation", s |-> "NONE", k |-> 0,
            n |-> 0, a |-> 0, b |-> NoJob, c |-> NoJob, f |-> FALSE, g |-> FALSE,
            q |-> {}, w |-> {}]

NoAnswer == [n |-> 0, s |-> "NONE"]

Call(op, j) == [NoFrame EXCEPT !.op = op, !.j = j]
Update(j, s) == [NoFrame EXCEPT !.op = "update", !.j = j, !.s = s]
Release(l, j) == [NoFrame EXCEPT !.op = "release", !.l = l, !.j = j]

Init ==
    /\ job = [j \in Jobs |-> NewRow]
    /\ created = <<>>
    /\ lk = [l \in Locks |-> FreeLock]
    /\ stack = [t \in Threads |-> <<>>]
    /\ answer = [t \in Threads |-> NoAnswer]
    /\ run = [n \in Mints |-> [job |-> NoJob, tok |-> 0, stage |-> "none"]]
    /\ mints = 0
    /\ pending = {} /\ queuedIds = {}
    /\ dlq = {}
    /\ budget = [scans |-> 0, reclaims |-> 0, retries |-> 0, expiries |-> 0]
    /\ crossed = {}

-----------------------------------------------------------------------------
(* Stacks *)

Idle(t) == stack[t] = <<>> /\ answer[t] = NoAnswer
Top(t) == Head(stack[t])
At(t, op) == stack[t] # <<>> /\ Head(stack[t]).op = op

(* The current call is replaced by the calls it makes, in order. *)
Continue(t, frames) == stack' = [stack EXCEPT ![t] = frames \o Tail(@)]

(* The worker thread t answers to, 0 when it is no callback. *)
Serves(t) == answer[t].n

(* An exception unwinds every caller; a worker that was waiting for the
   answer exits. *)
Throw(t) ==
    /\ stack' = [stack EXCEPT ![t] = <<>>]
    /\ answer' = [answer EXCEPT ![t] = NoAnswer]
    /\ run' = IF Serves(t) = 0 THEN run ELSE [run EXCEPT ![Serves(t)].stage = "gone"]

(* An event happens no more often than its bound. *)
Spend(event, bound) ==
    /\ budget[event] < bound
    /\ budget' = [budget EXCEPT ![event] = @ + 1]

Start(t, frames) == Idle(t) /\ stack' = [stack EXCEPT ![t] = frames]

-----------------------------------------------------------------------------
(* LockService, one step per call *)

CanAcquireAlways(l, j) == TRUE  \* mutant: the script ignores the holder
CanAcquire(l, j) == lk[l].owner \in {NoJob, j}

IssuedToken(l, j) ==
    IF lk[l].owner = j /\ lk[l].tok # 0 THEN lk[l].tok ELSE lk[l].ctr + 1

Acquired(l, j) ==
    LET t == IssuedToken(l, j) IN
    [owner |-> j, tok |-> t, ctr |-> IF t > lk[l].ctr THEN t ELSE lk[l].ctr,
     lastOwner |-> j, lastTok |-> t, row |-> j]

Released(l, j) ==
    IF lk[l].owner = j
    THEN [lk[l] EXCEPT !.owner = NoJob, !.tok = 0,
                       !.row = IF @ = j THEN NoJob ELSE @]
    ELSE lk[l]

Reclaimed(l) ==
    [lk[l] EXCEPT !.owner = NoJob, !.tok = lk[l].ctr + 1, !.ctr = @ + 1,
                  !.lastOwner = System, !.lastTok = lk[l].ctr + 1, !.row = NoJob]

ValidatesOwner(j, k) == lk["generation"].lastOwner = j  \* mutant: token not compared

(* validateFencingToken for owner job:<j>. *)
Validates(j, k) == lk["generation"].lastOwner = j /\ lk["generation"].lastTok = k

ReleaseLock(t) ==
    /\ At(t, "release")
    /\ lk' = [lk EXCEPT ![Top(t).l] = Released(Top(t).l, Top(t).j)]
    /\ Continue(t, <<>>)
    /\ UNCHANGED <<job, created, workers, mints, queueVars, dlq, history>>

-----------------------------------------------------------------------------
(* create *)

Exists(j) == job[j].status # "NONE"
DepStatus(j) == IF job[j].dep = NoJob THEN "NONE" ELSE job[job[j].dep].status

Earlier(i, j) == \E m, n \in DOMAIN created : created[m] = i /\ created[n] = j /\ m < n

(* ORDER BY created_at LIMIT 1: none, or the first one. *)
First(js) == IF js = {} THEN {NoJob} ELSE {j \in js : \A i \in js : ~ Earlier(i, j)}

Active == {j \in Jobs : job[j].status \in SlotActive}

(* The gate on the dependency of a job with a new id... *)
CreateRead(t, j, d) ==
    /\ ~ Exists(j)
    /\ \A u \in Threads : ~ ((At(u, "slot") \/ At(u, "insert")) /\ Top(u).j = j)
    /\ d # NoJob => Dependencies /\ DependencyGate(job[d].status) # "dep_failed"
    /\ Start(t, <<[Call("slot", j) EXCEPT !.b = d,
            !.f = d # NoJob /\ DependencyGate(job[d].status) = "block_dependency"]>>)
    /\ UNCHANGED <<job, created, lk, workers, mints, queueVars, dlq, history>>

(* ...the query for the job that has the project... *)
SlotRead(t) ==
    /\ At(t, "slot")
    /\ \E i \in First(Active) :
          Continue(t, <<[Top(t) EXCEPT !.op = "insert", !.c = i, !.f = @ \/ i # NoJob]>>)
    /\ UNCHANGED <<job, created, lk, workers, mints, queueVars, dlq, history>>

(* ...then the INSERT and, when nothing blocks, the dispatch. *)
CreateInsert(t) ==
    /\ At(t, "insert")
    /\ LET fr == Top(t) IN
       /\ job' = [job EXCEPT ![fr.j] =
             [NewRow EXCEPT !.status = IF fr.f THEN "BLOCKED" ELSE "QUEUED",
                            !.dep = fr.b, !.blockedBy = fr.c]]
       /\ created' = Append(created, fr.j)
       /\ Continue(t, IF fr.f THEN <<>> ELSE <<Call("dispatch", fr.j)>>)
    /\ UNCHANGED <<lk, workers, mints, queueVars, dlq, history>>

-----------------------------------------------------------------------------
(* dispatchJob *)

Dispatchable == {"QUEUED", "LOCK_STALE", "DISPATCH_TIMEOUT", "DISPATCH_FAILED"}

DispatchRead(t) ==
    /\ At(t, "dispatch")
    /\ LET j == Top(t).j
           gate == IF job[j].dep = NoJob THEN "allow" ELSE DependencyGate(DepStatus(j))
       IN  Continue(t,
             IF job[j].status \notin Dispatchable THEN <<>>
             ELSE CASE gate = "dep_failed" -> <<Update(j, "DEP_FAILED")>>
                    [] gate = "block_dependency" -> <<Call("block", j)>>
                    [] OTHER -> <<[Call("lock", j) EXCEPT !.a = job[j].attempt]>>)
    /\ UNCHANGED <<job, created, lk, workers, mints, queueVars, dlq, history>>

BlockWrite(t) ==
    /\ At(t, "block")
    /\ job' = [job EXCEPT ![Top(t).j].status = "BLOCKED"]
    /\ Continue(t, <<>>)
    /\ UNCHANGED <<created, lk, workers, mints, queueVars, dlq, history>>

(* The generation lock; denied means BLOCKED. *)
LockGeneration(t) ==
    /\ At(t, "lock")
    /\ LET fr == Top(t) IN
       \/ /\ CanAcquire("generation", fr.j)
          /\ IssuedToken("generation", fr.j) <= MaxTokens
          /\ lk' = [lk EXCEPT !["generation"] = Acquired("generation", fr.j)]
          /\ Continue(t, <<[fr EXCEPT
                !.op = IF fr.j \in CrossJobs THEN "locktarget" ELSE "mark",
                !.k = IssuedToken("generation", fr.j)]>>)
       \/ /\ ~ CanAcquire("generation", fr.j)
          /\ Continue(t, <<Call("block", fr.j)>>)
          /\ UNCHANGED lk
    /\ UNCHANGED <<job, created, workers, mints, queueVars, dlq, history>>

(* Cross-machine jobs also lock the target path... *)
LockTarget(t) ==
    /\ At(t, "locktarget")
    /\ LET fr == Top(t) IN
       \/ /\ CanAcquire("target-path", fr.j)
          /\ IssuedToken("target-path", fr.j) <= MaxTokens
          /\ lk' = [lk EXCEPT !["target-path"] = Acquired("target-path", fr.j)]
          /\ Continue(t, <<[fr EXCEPT !.op = "provision"]>>)
       \/ /\ ~ CanAcquire("target-path", fr.j)
          /\ Continue(t, <<Release("generation", fr.j), Call("block", fr.j)>>)
          /\ UNCHANGED lk
    /\ UNCHANGED <<job, created, workers, mints, queueVars, dlq, history>>

(* ...and have an SSH key provisioned; failure is failDispatchPreStart. *)
Provision(t) ==
    /\ At(t, "provision")
    /\ LET fr == Top(t) IN
       \/ Continue(t, <<[fr EXCEPT !.op = "mark"]>>)
       \/ Continue(t, <<Release("generation", fr.j), Release("target-path", fr.j),
                        Update(fr.j, "DISPATCH_FAILED")>>)
    /\ UNCHANGED <<job, created, lk, workers, mints, queueVars, dlq, history>>

(* A callback of a worker of job j has its token accepted and has not read the
   row yet. *)
Unread(j) == \E u \in Threads : Serves(u) # 0 /\ At(u, "update") /\ Top(u).j = j

(* DISPATCHING with the new fencing and callback tokens, whatever the status
   has become since dispatchJob read it.  History: a callback with the token
   that is replaced may be under way. *)
MarkDispatching(t) ==
    /\ At(t, "mark") /\ mints < MaxMints
    /\ LET fr == Top(t) IN
       /\ job' = [job EXCEPT ![fr.j] = [job[fr.j] EXCEPT
             !.status = "DISPATCHING", !.lockKey = TRUE, !.cb = mints + 1,
             !.target = @ \/ fr.j \in CrossJobs]]
       /\ mints' = mints + 1
       /\ Continue(t, <<[fr EXCEPT !.op = "workflow", !.n = mints + 1]>>)
       /\ crossed' = crossed \cup {c \in {"callback"} : Unread(fr.j)}
    /\ UNCHANGED <<created, lk, workers, queueVars, dlq, budget>>

ResolveIdPerJob(fr) == <<fr.j, 1>>  \* mutant: the attempt is not part of the id

(* The BullMQ job id resolve-<job>-<attempt>. *)
ResolveId(fr) == <<fr.j, fr.a>>

(* workflow_dispatch: a run of the workflow starts, whose envelope holds the
   callback and the fencing token of this dispatch. *)
StartRun(fr) ==
    run' = [run EXCEPT ![fr.n] = [job |-> fr.j, tok |-> fr.k, stage |-> "start"]]

(* A worker starts, or the API call fails... *)
DispatchWorkflow(t) ==
    /\ At(t, "workflow")
    /\ LET fr == Top(t) IN
       \/ StartRun(fr) /\ Continue(t, <<[fr EXCEPT !.op = "enqueue"]>>)
       \/ Continue(t, <<Update(fr.j, "DISPATCH_FAILED")>>) /\ UNCHANGED run
    /\ UNCHANGED <<job, created, lk, answer, mints, queueVars, dlq, history>>

(* ...and a resolve-run entry is queued, unless one with its id exists. *)
Enqueue(t) ==
    /\ At(t, "enqueue")
    /\ LET id == ResolveId(Top(t)) IN
       /\ pending' = IF id \in queuedIds THEN pending ELSE pending \cup {id}
       /\ queuedIds' = queuedIds \cup {id}
    /\ Continue(t, <<>>)
    /\ UNCHANGED <<job, created, lk, workers, mints, dlq, history>>

-----------------------------------------------------------------------------
(* updateStatus *)

\* mutant: the status machine is not consulted
UpdatePermittedAny(fr) == fr.k # 0 /\ job[fr.j].lockKey => Validates(fr.j, fr.k)

UpdatePermitted(fr) ==
    /\ CanTransition(job[fr.j].status, fr.s)
    /\ fr.k # 0 /\ job[fr.j].lockKey => Validates(fr.j, fr.k)

(* The row is read and the update checked against it... *)
UpdateRead(t) ==
    /\ At(t, "update")
    /\ LET fr == Top(t) IN
       \/ /\ UpdatePermitted(fr)
          /\ Continue(t, <<[fr EXCEPT !.op = "write", !.f = job[fr.j].lockKey,
                                      !.g = job[fr.j].target]>>)
          /\ UNCHANGED workers
       \/ ~ UpdatePermitted(fr) /\ Throw(t)
    /\ UNCHANGED <<job, created, lk, mints, queueVars, dlq, history>>

\* mutant: the locks of a finished job are kept
AfterTerminalKeep(fr) == <<Call("promote", fr.j)>>

(* A job that finishes releases its locks and lets a blocked job start. *)
AfterTerminal(fr) ==
    IF fr.g
    THEN <<Release("generation", fr.j), Release("target-path", fr.j), Call("promote", fr.j)>>
    ELSE <<Release("generation", fr.j), Call("promote", fr.j)>>

(* ...then written; a retriable failure is handled, and a final status ends a
   job that had its lock. *)
UpdateWrite(t) ==
    /\ At(t, "write")
    /\ LET fr == Top(t) IN
       /\ job' = [job EXCEPT ![fr.j] = [job[fr.j] EXCEPT
             !.status = fr.s, !.done = @ \/ fr.s \in Terminal,
             !.beat = @ \/ fr.s \in {"STAGING", "VALIDATING", "COMMITTING"}]]
       /\ Continue(t, CASE fr.s \in RetriableFailures -> <<Call("fail", fr.j)>>
                        [] fr.s \in Terminal /\ fr.f -> AfterTerminal(fr)
                        [] OTHER -> <<>>)
    /\ UNCHANGED <<created, lk, workers, mints, queueVars, dlq, history>>

-----------------------------------------------------------------------------
(* handleFailure *)

AttemptsLeft(a) == a < MaxAttempts

FailRead(t) ==
    /\ At(t, "fail")
    /\ LET j == Top(t).j IN
       Continue(t, IF AttemptsLeft(job[j].attempt)
                   THEN <<[Call("requeue", j) EXCEPT !.a = job[j].attempt + 1]>>
                   ELSE <<[Call("bury", j) EXCEPT !.f = job[j].lockKey]>>)
    /\ UNCHANGED <<job, created, lk, workers, mints, queueVars, dlq, history>>

Requeue(t) ==
    /\ At(t, "requeue")
    /\ LET fr == Top(t) IN
       /\ job' = [job EXCEPT ![fr.j] = [job[fr.j] EXCEPT
             !.status = "QUEUED", !.attempt = fr.a, !.done = FALSE]]
       /\ Continue(t, <<Call("dispatch", fr.j)>>)
    /\ UNCHANGED <<created, lk, workers, mints, queueVars, dlq, history>>

(* Out of attempts: dead-letter row, generation lock released, promotion. *)
Bury(t) ==
    /\ At(t, "bury")
    /\ LET fr == Top(t) IN
       /\ job' = [job EXCEPT ![fr.j] = [job[fr.j] EXCEPT !.status = "DEAD_LETTER", !.done = TRUE]]
       /\ dlq' = dlq \cup {fr.j}
       /\ Continue(t, IF fr.f THEN <<Release("generation", fr.j), Call("promote", fr.j)>>
                              ELSE <<>>)
    /\ UNCHANGED <<created, lk, workers, mints, queueVars, history>>

-----------------------------------------------------------------------------
(* promoteBlockedJobs *)

Promoting(t) == At(t, "promotenext") \/ At(t, "unblock")
                  \/ \E i \in DOMAIN stack[t] : stack[t][i].op = "promotenext"

(* The blocked jobs of the project are read...  History: by two promotions. *)
PromoteRead(t) ==
    /\ At(t, "promote")
    /\ crossed' = crossed \cup {c \in {"promotion"} : \E u \in Threads : Promoting(u)}
    /\ Continue(t, <<[Top(t) EXCEPT !.op = "promotenext",
          !.w = {<<i, job[i].blockedBy>> : i \in {k \in Jobs : job[k].status = "BLOCKED"}}]>>)
    /\ UNCHANGED <<job, created, lk, workers, mints, queueVars, dlq, budget>>

(* ...and decided on in the order of their creation; the first one promoted
   ends the loop. *)
PromoteNext(t) ==
    /\ At(t, "promotenext")
    /\ LET fr == Top(t) IN
       \/ fr.w = {} /\ Continue(t, <<>>)
       \/ \E e \in fr.w :
             LET i == e[1]
                 b == e[2]
                 rest == [fr EXCEPT !.w = fr.w \ {e}]
                 decision == PromoteDecision(
                    job[i].dep # NoJob, DepStatus(i),
                    b \notin {NoJob, fr.j}, IF b = NoJob THEN "NONE" ELSE job[b].status,
                    \E x \in Jobs \ {fr.j} : job[x].status \in SlotActive)
             IN  /\ \A d \in fr.w : ~ Earlier(d[1], i)
                 /\ Continue(t, CASE decision = "dep_failed" -> <<Update(i, "DEP_FAILED"), rest>>
                                  [] decision = "keep" -> <<rest>>
                                  [] OTHER -> <<Call("unblock", i)>>)
    /\ UNCHANGED <<job, created, lk, workers, mints, queueVars, dlq, history>>

PromoteWrite(t) ==
    /\ At(t, "unblock")
    /\ job' = [job EXCEPT ![Top(t).j] = [job[Top(t).j] EXCEPT !.status = "QUEUED", !.blockedBy = NoJob]]
    /\ Continue(t, <<Call("dispatch", Top(t).j)>>)
    /\ UNCHANGED <<created, lk, workers, mints, queueVars, dlq, history>>

-----------------------------------------------------------------------------
(* Workers: the status a worker posts next, and where an accepted post
   leaves it (run-generation.sh, atomic-commit.sh, post-commit-verify.sh) *)

Posts(n) ==
    CASE run[n].stage = "start"      -> {"VALIDATING", "REIMPORT_FAILED"}
      [] run[n].stage = "validating" -> {"VALIDATION_REPORT", "VALIDATION_FAILED"}
      [] run[n].stage = "validated"  -> {"COMMITTING"}
      [] run[n].stage = "committing" ->
            {"POST_COMMIT_VERIFY", "PAUSED_EDITOR_LOCK"}
              \cup (IF run[n].job \in CrossJobs THEN {"COMMIT_FAILED"} ELSE {})
      [] run[n].stage = "verifying"  -> {"COMPLETED", "ROLLBACK"}
      [] OTHER -> {}

StageAfter(s) ==
    CASE s = "VALIDATING" -> "validating"
      [] s = "VALIDATION_REPORT" -> "validated"
      [] s = "COMMITTING" -> "committing"
      [] s = "POST_COMMIT_VERIFY" -> "verifying"
      [] OTHER -> "gone"

(* A worker of a past dispatch no longer has the job's callback token. *)
AuthenticAny(n) == TRUE  \* mutant: any callback token of the job is good
Authentic(n) == job[run[n].job].cb = n

Waiting(n) == \E t \in Threads : Serves(t) = n

(* PATCH /jobs/:id/status with callback token n; only COMMITTING carries the
   fencing token. *)
Callback(t, n, s) ==
    /\ s \in Posts(n) /\ ~ Waiting(n)
    /\ Authentic(n)
    /\ Start(t, <<[Update(run[n].job, s) EXCEPT
                     !.k = IF s = "COMMITTING" THEN run[n].tok ELSE 0]>>)
    /\ answer' = [answer EXCEPT ![t] = [n |-> n, s |-> s]]
    /\ UNCHANGED <<job, created, lk, run, mints, queueVars, dlq, history>>

Reply(t) ==
    /\ stack[t] = <<>> /\ Serves(t) # 0
    /\ run' = [run EXCEPT ![Serves(t)].stage = StageAfter(answer[t].s)]
    /\ answer' = [answer EXCEPT ![t] = NoAnswer]
    /\ UNCHANGED <<job, created, lk, stack, mints, queueVars, dlq, history>>

Alive(n) == run[n].stage \notin {"none", "gone"}

(* PATCH /jobs/:id/heartbeat is answered for the worker of the last dispatch. *)
MayBeat(n) == Alive(n) /\ Authentic(n)

(* heartbeat, which carries no fencing token.  What it refreshes, the TTLs and
   the row of pg_locks, expires or goes stale at any time here; heartbeat_at is
   read by the scan alone, so that without scans it need not be written. *)
Heartbeat(n) ==
    /\ MaxScans > 0
    /\ MayBeat(n) /\ ~ job[run[n].job].beat
    /\ job' = [job EXCEPT ![run[n].job].beat = TRUE]
    /\ UNCHANGED <<created, lk, stack, workers, mints, queueVars, dlq, history>>

(* A worker dies, loses the network, or its callback token is refused. *)
WorkerDies(n) ==
    /\ Alive(n) /\ ~ Waiting(n)
    /\ run' = [run EXCEPT ![n].stage = "gone"]
    /\ UNCHANGED <<job, created, lk, stack, answer, mints, queueVars, dlq, history>>

-----------------------------------------------------------------------------
(* Health worker *)

(* resolveDispatch: only a job seen DISPATCHING is waited for... *)
ResolveRead(t, id) ==
    /\ id \in pending
    /\ pending' = pending \ {id}
    /\ Start(t, IF job[id[1]].status = "DISPATCHING" THEN <<Call("resolve", id[1])>>
                                                     ELSE <<>>)
    /\ UNCHANGED <<job, created, lk, workers, mints, queuedIds, dlq, history>>

(* resolveRunId polls for a run named after the job: any run of the job will
   do, an earlier attempt's too, and it may come too late. *)
ResolveRunId(j) ==
    {"DISPATCH_TIMEOUT"} \cup {"STAGING" : n \in {m \in Mints : run[m].job = j}}

(* ...and its run is found or the wait times out. *)
ResolveDone(t) ==
    /\ At(t, "resolve")
    /\ \E s \in ResolveRunId(Top(t).j) : Continue(t, <<Update(Top(t).j, s)>>)
    /\ UNCHANGED <<job, created, lk, workers, mints, queueVars, dlq, history>>

(* scanStaleLocks reads the stale pg_locks rows with the jobs they name... *)
ScanRead(t) ==
    /\ Spend("scans", MaxScans)
    /\ \E ls \in SUBSET {l \in Locks : lk[l].row # NoJob} :
          Start(t, <<[NoFrame EXCEPT !.op = "scanlocks",
                                     !.w = {<<l, lk[l].row>> : l \in ls}]>>)
    /\ UNCHANGED <<job, created, lk, workers, mints, queueVars, dlq, crossed>>

(* ...reclaims each and marks its job, then reads the jobs without a recent
   heartbeat, except those it has just handled (fr.q). *)
ScanLock(t) ==
    /\ At(t, "scanlocks")
    /\ LET fr == Top(t) IN
       \/ \E e \in fr.w :
             /\ lk[e[1]].ctr < MaxTokens
             /\ lk' = [lk EXCEPT ![e[1]] = Reclaimed(e[1])]
             /\ Continue(t, <<[Call("stale", e[2]) EXCEPT !.g = TRUE],
                              [fr EXCEPT !.w = @ \ {e}, !.q = @ \cup {e[2]}]>>)
       \/ /\ fr.w = {}
          /\ \E js \in SUBSET {j \in Jobs :
                    /\ job[j].beat
                    /\ job[j].status \in {"STAGING", "VALIDATING", "COMMITTING",
                                          "POST_COMMIT_VERIFY", "DISPATCHING"}
                    /\ j \notin fr.q} :
                Continue(t, <<[NoFrame EXCEPT !.op = "scanjobs",
                   !.w = {<<j, job[j].lockKey, job[j].attempt>> : j \in js}]>>)
          /\ UNCHANGED lk
    /\ UNCHANGED <<job, created, workers, mints, queueVars, dlq, history>>

ScanJob(t) ==
    /\ At(t, "scanjobs")
    /\ LET fr == Top(t) IN
       \/ \E e \in fr.w :
             /\ IF e[2] THEN /\ lk["generation"].ctr < MaxTokens
                             /\ lk' = [lk EXCEPT !["generation"] = Reclaimed("generation")]
                        ELSE UNCHANGED lk
             /\ Continue(t, <<[Call("stale", e[1]) EXCEPT !.a = e[3]],
                              [fr EXCEPT !.w = @ \ {e}]>>)
       \/ fr.w = {} /\ Continue(t, <<>>) /\ UNCHANGED lk
    /\ UNCHANGED <<job, created, workers, mints, queueVars, dlq, history>>

(* LOCK_STALE without lock_key, whatever the status was. *)
StaleWrite(t) ==
    /\ At(t, "stale")
    /\ job' = [job EXCEPT ![Top(t).j] = [job[Top(t).j] EXCEPT !.status = "LOCK_STALE",
                                                             !.lockKey = FALSE]]
    /\ Continue(t, <<[Top(t) EXCEPT !.op = IF Top(t).a = 0 THEN "staleread" ELSE "staleretry"]>>)
    /\ UNCHANGED <<created, lk, workers, mints, queueVars, dlq, history>>

(* The first loop of the scan reads the attempt only now; the other callers
   use the one they read with the job. *)
StaleRead(t) ==
    /\ At(t, "staleread")
    /\ Continue(t, <<[Top(t) EXCEPT !.op = "staleretry", !.a = job[Top(t).j].attempt]>>)
    /\ UNCHANGED <<job, created, lk, workers, mints, queueVars, dlq, history>>

(* Redispatch while attempts remain; else dead-letter, if the caller does. *)
StaleRetry(t) ==
    /\ At(t, "staleretry")
    /\ LET fr == Top(t) IN
       IF AttemptsLeft(fr.a)
       THEN /\ job' = [job EXCEPT ![fr.j] = [job[fr.j] EXCEPT !.status = "QUEUED",
                                                            !.attempt = @ + 1]]
            /\ Continue(t, <<Call("dispatch", fr.j)>>)
       ELSE /\ Continue(t, IF fr.g THEN <<Update(fr.j, "DEAD_LETTER")>> ELSE <<>>)
            /\ UNCHANGED job
    /\ UNCHANGED <<created, lk, workers, mints, queueVars, dlq, history>>

-----------------------------------------------------------------------------
(* Administrators *)

(* POST /locks/reclaim *)
AdminReclaim(t, l) ==
    /\ Spend("reclaims", MaxReclaims) /\ lk[l].ctr < MaxTokens
    /\ lk' = [lk EXCEPT ![l] = Reclaimed(l)]
    /\ Start(t, <<[NoFrame EXCEPT !.op = "adminjobs", !.l = l]>>)
    /\ UNCHANGED <<job, created, workers, mints, queueVars, dlq, crossed>>

UnfinishedAny(j) == job[j].lockKey  \* mutant: completed_at is not consulted
Unfinished(j) == job[j].lockKey /\ ~ job[j].done

(* handleAdminReclaim reads the unfinished jobs with this lock_key, in no
   order, with their attempts... *)
AdminJobs(t) ==
    /\ At(t, "adminjobs")
    /\ LET js == {j \in Jobs : Top(t).l = "generation" /\ Unfinished(j)} IN
       Continue(t, <<[Top(t) EXCEPT !.op = "adminnext",
                                    !.w = {<<j, job[j].attempt>> : j \in js}]>>)
    /\ UNCHANGED <<job, created, lk, workers, mints, queueVars, dlq, history>>

(* ...and handles one after the other. *)
AdminNext(t) ==
    /\ At(t, "adminnext")
    /\ LET fr == Top(t) IN
       \/ fr.w = {} /\ Continue(t, <<>>)
       \/ \E e \in fr.w :
             Continue(t, <<[Call("stale", e[1]) EXCEPT !.a = e[2], !.g = TRUE],
                           [fr EXCEPT !.w = @ \ {e}]>>)
    /\ UNCHANGED <<job, created, lk, workers, mints, queueVars, dlq, history>>

(* POST /dead-letter/:jobId/retry, for whatever job the request names: the
   dead_letter_jobs row is archived... *)
RetryDeadLetter(t, j) ==
    /\ Exists(j) /\ Spend("retries", MaxRetries)
    /\ dlq' = dlq \ {j}
    /\ Start(t, <<Call("revive", j)>>)
    /\ UNCHANGED <<job, created, lk, workers, mints, queueVars, crossed>>

(* ...and the job starts over. *)
Revive(t) ==
    /\ At(t, "revive")
    /\ job' = [job EXCEPT ![Top(t).j] = [job[Top(t).j] EXCEPT
          !.status = "QUEUED", !.attempt = 1, !.done = FALSE]]
    /\ Continue(t, <<Call("dispatch", Top(t).j)>>)
    /\ UNCHANGED <<created, lk, workers, mints, queueVars, dlq, history>>

-----------------------------------------------------------------------------
LockExpires(l) ==
    /\ lk[l].owner # NoJob
    /\ Spend("expiries", MaxExpiries)
    /\ lk' = [lk EXCEPT ![l].owner = NoJob, ![l].tok = 0]
    /\ UNCHANGED <<job, created, stack, workers, mints, queueVars, dlq, crossed>>

ThreadStep(t) ==
    \/ ReleaseLock(t) \/ SlotRead(t) \/ CreateInsert(t) \/ DispatchRead(t) \/ BlockWrite(t)
    \/ LockGeneration(t) \/ LockTarget(t) \/ Provision(t) \/ MarkDispatching(t)
    \/ DispatchWorkflow(t) \/ Enqueue(t) \/ UpdateRead(t) \/ UpdateWrite(t) \/ FailRead(t)
    \/ Requeue(t) \/ Bury(t) \/ PromoteRead(t) \/ PromoteNext(t) \/ PromoteWrite(t)
    \/ Reply(t) \/ ResolveDone(t) \/ ScanLock(t) \/ ScanJob(t) \/ StaleWrite(t)
    \/ StaleRead(t) \/ StaleRetry(t) \/ AdminJobs(t) \/ AdminNext(t)
    \/ Revive(t)

(* The pgos-dispatch worker takes an entry. *)
TakeDispatch(t) == \E id \in pending : ResolveRead(t, id)

(* POST /jobs names a project and, perhaps, a job that must come first. *)
CreateRequest(t) ==
    \E j \in Jobs, d \in {i \in Jobs : Exists(i)} \cup {NoJob} : CreateRead(t, j, d)

Request(t) ==
    \/ CreateRequest(t)
    \/ \E n \in Mints : \E s \in Posts(n) : Callback(t, n, s)
    \/ TakeDispatch(t)
    \/ ScanRead(t)
    \/ \E l \in Locks : AdminReclaim(t, l)
    \/ \E j \in Jobs : RetryDeadLetter(t, j)

Next ==
    \/ \E t \in Threads : ThreadStep(t) \/ Request(t)
    \/ \E n \in Mints : Heartbeat(n) \/ WorkerDies(n)
    \/ \E l \in Locks : LockExpires(l)

Spec == Init /\ [][Next]_vars

-----------------------------------------------------------------------------
(* Properties *)

Ops == {"slot", "insert", "dispatch", "block", "lock", "locktarget", "provision", "mark",
        "workflow", "enqueue", "release", "update", "write", "fail", "requeue", "bury", "promote",
        "promotenext", "unblock", "resolve", "scanlocks", "scanjobs", "stale",
        "staleread", "staleretry", "adminjobs", "adminnext", "revive"}

(* Rows, locks, workers and calls have the type of their store; in particular
   a Redis lock is held by a job or by nobody, whatever is reclaimed. *)
TypeOK ==
    /\ job \in [Jobs -> [status : JobStatuses \cup {"NONE"}, attempt : Nat \ {0},
                         lockKey : BOOLEAN, cb : 0 .. MaxMints, dep : Jobs \cup {NoJob},
                         blockedBy : Jobs \cup {NoJob}, done : BOOLEAN,
                         target : BOOLEAN, beat : BOOLEAN]]
    /\ lk \in [Locks -> [owner : Jobs \cup {NoJob}, tok : Nat, ctr : Nat,
                         lastOwner : Jobs \cup {NoJob, System}, lastTok : Nat,
                         row : Jobs \cup {NoJob}]]
    /\ run \in [Mints -> [job : Jobs \cup {NoJob}, tok : Nat, stage : Stages]]
    /\ \A t \in Threads : \A i \in DOMAIN stack[t] :
          /\ stack[t][i].op \in Ops
          /\ stack[t][i].j \in Jobs \cup {NoJob}
    /\ mints \in 0 .. MaxMints
    /\ pending \subseteq queuedIds /\ queuedIds \subseteq Jobs \X Nat
    /\ dlq \subseteq Jobs
    /\ crossed \subseteq {"callback", "promotion"}

Quiet == \A t \in Threads : Idle(t)
Running == {"DISPATCHING", "STAGING", "VALIDATING", "VALIDATION_REPORT",
            "COMMITTING", "POST_COMMIT_VERIFY"}
Needs(j) == IF j \in CrossJobs THEN Locks ELSE {"generation"}

(* A callback whose token was still good when the request was authenticated, but
   no longer when it reads the row, is not refused (patchStatusHandler checks
   the token, updateStatus does not): it may then drive a job that has been
   dispatched again.  What is claimed below of running jobs is claimed until
   that has happened. *)
CallbacksInTime == "callback" \notin crossed

(* From DISPATCHING to its final status a job owns its locks: the generation
   lock that serialises the project and, cross-machine, the target path.
   dispatchJob acquires them, retries keep them ("Holds generation lock across
   retries", handleFailure), only the end of the job gives them back. *)
RunningHoldsLocks ==
    CallbacksInTime => \A j \in Jobs : job[j].status \in Running
        => \A l \in Needs(j) : lk[l].owner = j

(* A worker may write the project from the answer to COMMITTING until it posts
   that it has committed, and from the answer to that until its last post, when
   the check after the commit fails and do_rollback puts the old tree back. *)
Writing(n) == run[n].stage \in {"committing", "verifying"} /\ ~ Waiting(n)

(* Never two workers write the project: not of two jobs, and not of two
   attempts of one job, which share a fencing token because the lock is kept
   across retries (only the callback token tells them apart). *)
SingleWriter ==
    CallbacksInTime => \A m, n \in Mints : Writing(m) /\ Writing(n) => m = n

(* When leases expire and locks are reclaimed an old worker may still be
   writing, but then its fencing token no longer validates: "Fencing token
   bumped; job marked LOCK_STALE and may be redispatched" (E005).  A retry of a
   dead letter names any job and starts a second worker of a running one with
   the same token: not claimed after a retry. *)
FencedWriter ==
    budget.retries = 0 => \A m, n \in Mints :
        /\ Writing(m) /\ Validates(run[m].job, run[m].tok)
        /\ Writing(n) /\ Validates(run[n].job, run[n].tok)
        => m = n

(* A job runs only after the job it depends on COMPLETED (dispatchJob: "never
   acquire locks / dispatch until dependency COMPLETED"). *)
DependencyRespected ==
    CallbacksInTime => \A j \in Jobs : job[j].status \in Running /\ job[j].dep # NoJob
        => DepStatus(j) = "COMPLETED"

(* Once every call has returned, no finished job is left owning the generation
   lock, which would hold up the project until the TTL runs out (updateStatus
   and handleFailure release before they promote), and a same-machine job no
   lock at all.  (handleFailure forgets the target path.) *)
LocksFreed ==
    Quiet => \A j \in Jobs : job[j].status \in Terminal =>
        \A l \in Locks : lk[l].owner = j => l = "target-path" /\ j \in CrossJobs

(* Once every call has returned, a DEAD_LETTER job is in the dead-letter queue
   operators work from ("Appears in the dead-letter queue", E020). *)
DeadLettersListed ==
    Quiet => \A j \in Jobs : job[j].status = "DEAD_LETTER" => j \in dlq

(* Once every call has returned, jobs without dependencies are not all BLOCKED
   or finished: "When active job finishes, dispatch blocked jobs"
   (promoteBlockedJobs, the only code that unblocks a job). *)
NoStrandedJob ==
    Quiet /\ (\E j \in Jobs : job[j].status = "BLOCKED")
    => \/ \E j \in Jobs : job[j].status \in (JobStatuses \ Terminal) \ {"BLOCKED"}
       \/ \A j \in Jobs : job[j].status = "BLOCKED" => job[j].dep # NoJob

(* Once every call has returned, a DISPATCHING job has a resolve-run entry
   that will find its run or time it out ("No runner within
   DISPATCH_TIMEOUT_MS: DISPATCH_TIMEOUT", E001). *)
DispatchResolvable ==
    \A j \in Jobs : Quiet /\ job[j].status = "DISPATCHING"
        => \E id \in pending : id[1] = j

(* A job stays as it ended unless an administrator retries it. *)
Kept(j) == \/ job'[j].status = job[j].status
           \/ \E t \in Threads : At(t, "revive") /\ Top(t).j = j

(* No step takes a job out of a final status ("Final terminal statuses: job
   will not be auto-retried", job-status.ts) as long as no lock expired under
   its owner, so that every finished job could release its locks in Postgres
   too, and no two promotions overlapped: neither a scan nor a reclaim of the
   lock its row still names starts it again (handleAdminReclaim looks at
   completed_at, scanStaleLocks at pg_locks). *)
ReleasedIsFinal ==
    [][budget.expiries = 0 /\ crossed = {}
       => \A j \in Jobs : job[j].status \in Terminal => Kept(j)]_vars

(* Every write of jobs.status, the ones that bypass updateStatus included,
   follows JOB_STATUS_TRANSITIONS from the status the row has when it is
   written, not from the one the caller read. *)
FsmStep == \A j \in Jobs : Exists(j) => CanTransition(job[j].status, job'[j].status)
FsmRespected == [][CallbacksInTime => FsmStep]_vars
=============================================================================
