---------------------------- MODULE FencingLock ----------------------------
(***************************************************************************)
(* LockService and its Lua scripts: a reentrant lock kept in Redis whose   *)
(* fencing tokens {instanceId}:{counter} are double-written to a Postgres  *)
(* ledger, and the validation commits are checked against.                 *)
(*                                                                         *)
(* A Lua script is one atomic step.  A Postgres transaction is two: BEGIN  *)
(* fixes now(), the row's acquired_at, and COMMIT makes its rows visible,  *)
(* so rows may become visible in another order than their timestamps.      *)
(* Between any two steps every other call, TTL expiry, crash and Redis     *)
(* fault may happen.                                                       *)
(***************************************************************************)
EXTENDS Naturals, FiniteSets

CONSTANTS
    Keys,           \* lock keys (project:<id>:generation, ...:target-path)
    Owners,         \* owner ids (job:<id>)
    System,         \* the owner written by reclaim and failover
    Sentinel,       \* FAILOVER_SENTINEL_LOCK_KEY
    NoOwner,        \* absent Redis lock key
    NoKey,          \* key of an idle call
    Procs,          \* orchestrator processes, each with its own LockService
    Calls,          \* concurrent LockService calls
    ProcOf,         \* the process a call runs in
    MaxCounter,     \* bound on INCR per key
    MaxTxns,        \* no acquire or reclaim starts after this many transactions
    MaxIds,         \* bound on instance ids generated
    MaxPromotions,  \* bound on Redis masters promoted with another id
    MaxLosses,      \* bound on restarts of Redis without persistence
    MaxFaults       \* bound on crashes and failed transactions

ASSUME NamesAssumption ==
    /\ System \notin Owners /\ NoOwner \notin Owners /\ System # NoOwner
    /\ Sentinel \notin Keys /\ NoKey \notin Keys /\ NoKey # Sentinel

ASSUME CallsAssumption == ProcOf \in [Calls -> Procs]

ASSUME BoundsAssumption ==
    /\ MaxCounter \in Nat /\ MaxTxns \in Nat /\ MaxIds \in Nat
    /\ MaxPromotions \in Nat /\ MaxLosses \in Nat /\ MaxFaults \in Nat

VARIABLES
    redisId,    \* REDIS_INSTANCE_KEY, NoId when missing
    lock,       \* lock[k]: owner stored under the lock key
    token,      \* token[k]: lock_fencing_token:<k>
    counter,    \* counter[k]: lock_fencing_seq:<k>
    pgId,       \* redis_instance_state
    ledger,     \* rows of lock_fencing_seq
    pgLocks,    \* pgLocks[k]: row of pg_locks
    clock,      \* the next transaction timestamp
    cachedId,   \* cachedId[p]: LockService.instanceId
    call,       \* call[c]: where an in-flight call is
    nextId,     \* the next randomUUID()
    promotions, losses, faults,
    overtaken   \* history: tokens whose lock went while their acquire wrote its row

redisVars == <<redisId, lock, token, counter>>
pgVars    == <<pgId, ledger, pgLocks, clock>>
envVars   == <<promotions, losses, faults>>
vars == <<redisVars, pgVars, cachedId, call, nextId, envVars, overtaken>>

-----------------------------------------------------------------------------
NoId == 0
NoToken == [inst |-> NoId, ctr |-> 0]
Token == [inst : Nat, ctr : Nat]

AcquireReasons == {"ACQUIRED", "REENTRANT"}
ReclaimReasons == {"STALE_RECOVERED", "ADMIN_RECLAIM"}
Reasons == AcquireReasons \cup ReclaimReasons \cup {"FAILOVER"}

Row == [key : Keys \cup {Sentinel}, owner : Owners \cup {System},
        tok : Token, reason : Reasons, at : Nat]

NoRow == [owner |-> NoOwner, tok |-> NoToken]

(* begin/commit: acquire between its script and its COMMIT; abort: acquire
   whose transaction failed; unledger: release after its script; rbegin and
   rcommit: reclaim; fbegin, fcommit, fset: rotateInstanceIdOnFailover;
   restore: checkRedisFailover that found Redis without an id. *)
Acquiring == {"begin", "commit"}
Reclaiming == {"rbegin", "rcommit"}
Rotating == {"fbegin", "fcommit", "fset"}
Stages == {"idle", "abort", "unledger", "restore"}
            \cup Acquiring \cup Reclaiming \cup Rotating

IdleCall == [pc |-> "idle", key |-> NoKey, owner |-> NoOwner, tok |-> NoToken,
             reason |-> "ACQUIRED", at |-> 0, keys |-> {}]

InFlight(k) == {c \in Calls : call[c].pc \in Acquiring /\ call[c].key = k}

(* The lock of k or its token goes: the acquires that ran their script on it and
   have not committed yet are overtaken. *)
Overtake(k) ==
    overtaken' = overtaken \cup {[key |-> k, tok |-> call[c].tok] : c \in InFlight(k)}

(* A new Redis; the migrations have given redis_instance_state its row. *)
Init ==
    /\ redisId = NoId
    /\ lock = [k \in Keys |-> NoOwner]
    /\ token = [k \in Keys |-> NoToken]
    /\ counter = [k \in Keys |-> 0]
    /\ pgId = 1
    /\ ledger = {}
    /\ pgLocks = [k \in Keys |-> NoRow]
    /\ clock = 1
    /\ cachedId = [p \in Procs |-> NoId]
    /\ call = [c \in Calls |-> IdleCall]
    /\ nextId = 2
    /\ promotions = 0 /\ losses = 0 /\ faults = 0
    /\ overtaken = {}

-----------------------------------------------------------------------------
(* Instance id *)

(* ensureInstanceId with an empty cache: take the id from Redis, else give
   Redis the id that Postgres has. *)
EnsureInstanceId(p) ==
    /\ cachedId[p] = NoId
    /\ redisId' = IF redisId # NoId THEN redisId ELSE pgId
    /\ cachedId' = [cachedId EXCEPT ![p] = redisId']
    /\ UNCHANGED <<lock, token, counter, pgVars, call, nextId, envVars, overtaken>>

Ready(c) == call[c].pc = "idle" /\ cachedId[ProcOf[c]] # NoId

(* A call that reaches its Lua script: the id is known and Redis has one. *)
MayIssue(c) == Ready(c) /\ redisId # NoId /\ clock <= MaxTxns

\* mutant: Redis is compared with the id cached in the process
CheckRedisFailoverCached(c) ==
    /\ Ready(c)
    /\ \/ /\ redisId = NoId
          /\ call' = [call EXCEPT ![c] =
                [IdleCall EXCEPT !.pc = "restore",
                                 !.tok = [inst |-> pgId, ctr |-> 0]]]
          /\ UNCHANGED nextId
       \/ /\ redisId # NoId /\ redisId # cachedId[ProcOf[c]]
          /\ nextId <= MaxIds
          /\ call' = [call EXCEPT ![c] =
                [IdleCall EXCEPT !.pc = "fbegin",
                                 !.tok = [inst |-> nextId, ctr |-> 0],
                                 !.keys = {k \in Keys : pgLocks[k] # NoRow}]]
          /\ nextId' = nextId + 1
    /\ \A d \in Calls : ProcOf[d] = ProcOf[c] => call[d].pc \notin Rotating \cup {"restore"}
    /\ UNCHANGED <<redisVars, pgVars, cachedId, envVars, overtaken>>

(* checkRedisFailover reads both ids; it restores a missing Redis id and
   starts a rotation on divergence.  One check runs at a time per process. *)
CheckRedisFailover(c) ==
    /\ Ready(c)
    /\ \A d \in Calls : ProcOf[d] = ProcOf[c] =>
           call[d].pc \notin Rotating \cup {"restore"}
    /\ \/ /\ redisId = NoId
          /\ call' = [call EXCEPT ![c] =
                [IdleCall EXCEPT !.pc = "restore",
                                 !.tok = [inst |-> pgId, ctr |-> 0]]]
          /\ UNCHANGED nextId
       \/ /\ redisId # NoId /\ redisId # pgId
          /\ nextId <= MaxIds
          /\ call' = [call EXCEPT ![c] =
                [IdleCall EXCEPT !.pc = "fbegin",
                                 !.tok = [inst |-> nextId, ctr |-> 0],
                                 !.keys = {k \in Keys : pgLocks[k] # NoRow}]]
          /\ nextId' = nextId + 1
    /\ UNCHANGED <<redisVars, pgVars, cachedId, envVars, overtaken>>

RestoreInstanceId(c) ==
    /\ call[c].pc = "restore"
    /\ redisId' = call[c].tok.inst
    /\ call' = [call EXCEPT ![c] = IdleCall]
    /\ UNCHANGED <<lock, token, counter, pgVars, cachedId, nextId, envVars, overtaken>>

(* BEGIN of any of the three transactions. *)
Begin(c) ==
    /\ call[c].pc \in {"begin", "rbegin", "fbegin"} /\ call[c].at = 0
    /\ clock' = clock + 1
    /\ call' = [call EXCEPT ![c].at = clock,
                            ![c].pc = CASE call[c].pc = "begin"  -> "commit"
                                        [] call[c].pc = "rbegin" -> "rcommit"
                                        [] OTHER -> "fcommit"]
    /\ UNCHANGED <<redisVars, pgId, ledger, pgLocks, cachedId, nextId, envVars, overtaken>>

FailoverLedgerRows(c) ==
    {[key |-> k, owner |-> System, tok |-> call[c].tok, reason |-> "FAILOVER",
      at |-> call[c].at] : k \in call[c].keys \cup {Sentinel}}

RotateCommit(c) ==
    /\ call[c].pc = "fcommit"
    /\ pgId' = call[c].tok.inst
    /\ ledger' = ledger \cup FailoverLedgerRows(c)
    /\ pgLocks' = IF call[c].keys # {} THEN [k \in Keys |-> NoRow] ELSE pgLocks
    /\ call' = [call EXCEPT ![c].pc = "fset"]
    /\ UNCHANGED <<redisVars, clock, cachedId, nextId, envVars, overtaken>>

(* Redis is told only after the Postgres commit. *)
RotateSet(c) ==
    /\ call[c].pc = "fset"
    /\ redisId' = call[c].tok.inst
    /\ cachedId' = [cachedId EXCEPT ![ProcOf[c]] = call[c].tok.inst]
    /\ call' = [call EXCEPT ![c] = IdleCall]
    /\ UNCHANGED <<lock, token, counter, pgVars, nextId, envVars, overtaken>>

-----------------------------------------------------------------------------
(* acquire *)

\* mutant: the counter is read instead of incremented
NextTokenRead(k) ==
    [inst |-> redisId, ctr |-> IF counter[k] = 0 THEN 1 ELSE counter[k]]

NextToken(k) == [inst |-> redisId, ctr |-> counter[k] + 1]

(* acquire_lock.lua on a free key. *)
AcquireFree(c, k, o) ==
    /\ MayIssue(c)
    /\ lock[k] = NoOwner
    /\ counter[k] < MaxCounter
    /\ counter' = [counter EXCEPT ![k] = @ + 1]
    /\ lock' = [lock EXCEPT ![k] = o]
    /\ token' = [token EXCEPT ![k] = NextToken(k)]
    /\ call' = [call EXCEPT ![c] =
          [IdleCall EXCEPT !.pc = "begin", !.key = k, !.owner = o,
                           !.tok = NextToken(k), !.reason = "ACQUIRED"]]
    /\ UNCHANGED <<redisId, pgVars, cachedId, nextId, envVars, overtaken>>

(* acquire_lock.lua by the owner: the stored token again, or a new one when
   the token key has expired under the lock key. *)
AcquireReentrant(c, k, o) ==
    /\ MayIssue(c)
    /\ lock[k] = o
    /\ token[k] = NoToken => counter[k] < MaxCounter
    /\ LET t == IF token[k] # NoToken THEN token[k] ELSE NextToken(k) IN
       /\ counter' = IF token[k] # NoToken THEN counter
                                           ELSE [counter EXCEPT ![k] = @ + 1]
       /\ token' = [token EXCEPT ![k] = t]
       /\ call' = [call EXCEPT ![c] =
             [IdleCall EXCEPT !.pc = "begin", !.key = k, !.owner = o,
                              !.tok = t, !.reason = "REENTRANT"]]
    /\ UNCHANGED <<redisId, lock, pgVars, cachedId, nextId, envVars, overtaken>>

\* mutant: the ledger, too, is upserted by key
DoubleWriteUpsert(c) ==
    /\ ledger' = {r \in ledger : r.key # call[c].key} \cup
          {[key |-> call[c].key, owner |-> call[c].owner, tok |-> call[c].tok,
            reason |-> call[c].reason, at |-> call[c].at]}
    /\ pgLocks' = [pgLocks EXCEPT ![call[c].key] =
          [owner |-> call[c].owner, tok |-> call[c].tok]]

(* The ledger row and the pg_locks upsert of acquire's transaction. *)
DoubleWrite(c) ==
    /\ ledger' = ledger \cup
          {[key |-> call[c].key, owner |-> call[c].owner, tok |-> call[c].tok,
            reason |-> call[c].reason, at |-> call[c].at]}
    /\ pgLocks' = [pgLocks EXCEPT ![call[c].key] =
          [owner |-> call[c].owner, tok |-> call[c].tok]]

AcquireCommit(c) ==
    /\ call[c].pc = "commit"
    /\ DoubleWrite(c)
    /\ call' = [call EXCEPT ![c] = IdleCall]
    /\ UNCHANGED <<redisVars, pgId, clock, cachedId, nextId, envVars, overtaken>>

(* The transaction rolls back, or commits while its acknowledgement is lost:
   either way acquire sees an error. *)
AcquireFails(c) ==
    /\ call[c].pc \in Acquiring
    /\ faults < MaxFaults
    /\ faults' = faults + 1
    /\ \/ UNCHANGED <<ledger, pgLocks>>
       \/ call[c].pc = "commit" /\ DoubleWrite(c)
    /\ call' = [call EXCEPT ![c].pc = "abort"]
    /\ UNCHANGED <<redisVars, pgId, clock, cachedId, nextId, promotions, losses, overtaken>>

(* release_lock.lua *)
ReleaseScript(k, o) ==
    IF lock[k] = o
    THEN /\ lock' = [lock EXCEPT ![k] = NoOwner]
         /\ token' = [token EXCEPT ![k] = NoToken]
         /\ Overtake(k)
    ELSE UNCHANGED <<lock, token, overtaken>>

(* releaseRedisOnly after a failed double-write. *)
AcquireAbort(c) ==
    /\ call[c].pc = "abort"
    /\ ReleaseScript(call[c].key, call[c].owner)
    /\ call' = [call EXCEPT ![c] = IdleCall]
    /\ UNCHANGED <<redisId, counter, pgVars, cachedId, nextId, envVars>>

-----------------------------------------------------------------------------
(* release *)

ReleaseRedis(c, k, o) ==
    /\ call[c].pc = "idle"
    /\ lock[k] = o
    /\ ReleaseScript(k, o)
    /\ call' = [call EXCEPT ![c] =
          [IdleCall EXCEPT !.pc = "unledger", !.key = k, !.owner = o]]
    /\ UNCHANGED <<redisId, counter, pgVars, cachedId, nextId, envVars>>

ReleasePg(c) ==
    /\ call[c].pc = "unledger"
    /\ pgLocks' = IF pgLocks[call[c].key].owner = call[c].owner
                  THEN [pgLocks EXCEPT ![call[c].key] = NoRow] ELSE pgLocks
    /\ call' = [call EXCEPT ![c] = IdleCall]
    /\ UNCHANGED <<redisVars, pgId, ledger, clock, cachedId, nextId, envVars, overtaken>>

-----------------------------------------------------------------------------
(* reclaim *)

(* bump_fencing.lua: a new token for nobody, and the lock key is deleted. *)
ReclaimRedis(c, k, reason) ==
    /\ MayIssue(c)
    /\ counter[k] < MaxCounter
    /\ counter' = [counter EXCEPT ![k] = @ + 1]
    /\ token' = [token EXCEPT ![k] = NextToken(k)]
    /\ lock' = [lock EXCEPT ![k] = NoOwner]
    /\ Overtake(k)
    /\ call' = [call EXCEPT ![c] =
          [IdleCall EXCEPT !.pc = "rbegin", !.key = k, !.owner = System,
                           !.tok = NextToken(k), !.reason = reason]]
    /\ UNCHANGED <<redisId, pgVars, cachedId, nextId, envVars>>

ReclaimCommit(c) ==
    /\ call[c].pc = "rcommit"
    /\ ledger' = ledger \cup
          {[key |-> call[c].key, owner |-> System, tok |-> call[c].tok,
            reason |-> call[c].reason, at |-> call[c].at]}
    /\ pgLocks' = [pgLocks EXCEPT ![call[c].key] = NoRow]
    /\ call' = [call EXCEPT ![c] = IdleCall]
    /\ UNCHANGED <<redisVars, pgId, clock, cachedId, nextId, envVars, overtaken>>

(* A reclaim, rotation, restore or release that throws is not compensated. *)
CallFails(c) ==
    /\ call[c].pc \in Reclaiming \cup Rotating \cup {"restore", "unledger"}
    /\ faults < MaxFaults
    /\ faults' = faults + 1
    /\ call' = [call EXCEPT ![c] = IdleCall]
    /\ UNCHANGED <<redisVars, pgVars, cachedId, nextId, promotions, losses, overtaken>>

-----------------------------------------------------------------------------
(* Environment: TTLs, process crashes, Redis faults *)

LockExpires(k) ==
    /\ lock[k] # NoOwner
    /\ Overtake(k)
    /\ lock' = [lock EXCEPT ![k] = NoOwner]
    /\ UNCHANGED <<redisId, token, counter, pgVars, cachedId, call, nextId, envVars>>

(* The two keys have their own TTL; a heartbeat refreshes them one after the
   other, so the token may expire under the lock key. *)
TokenExpires(k) ==
    /\ token[k] # NoToken
    /\ Overtake(k)
    /\ token' = [token EXCEPT ![k] = NoToken]
    /\ UNCHANGED <<redisId, lock, counter, pgVars, cachedId, call, nextId, envVars>>

Crash(p) ==
    /\ faults < MaxFaults
    /\ faults' = faults + 1
    /\ cachedId' = [cachedId EXCEPT ![p] = NoId]
    /\ call' = [c \in Calls |-> IF ProcOf[c] = p THEN IdleCall ELSE call[c]]
    /\ UNCHANGED <<redisVars, pgVars, nextId, promotions, losses, overtaken>>

EmptyRedis ==
    /\ lock' = [k \in Keys |-> NoOwner]
    /\ token' = [k \in Keys |-> NoToken]
    /\ counter' = [k \in Keys |-> 0]

(* A master with its own instance id takes over, without the lock keys. *)
PromoteMaster ==
    /\ promotions < MaxPromotions /\ nextId <= MaxIds
    /\ redisId' = nextId
    /\ nextId' = nextId + 1
    /\ promotions' = promotions + 1
    /\ EmptyRedis
    /\ UNCHANGED <<pgVars, cachedId, call, losses, faults, overtaken>>

(* "Redis lost key (restart without persistence)". *)
LoseRedis ==
    /\ losses < MaxLosses
    /\ losses' = losses + 1
    /\ redisId' = NoId
    /\ EmptyRedis
    /\ UNCHANGED <<pgVars, cachedId, call, nextId, promotions, faults, overtaken>>

-----------------------------------------------------------------------------
ServiceStep(c) ==
    \/ Begin(c) \/ AcquireCommit(c) \/ AcquireAbort(c) \/ ReleasePg(c)
    \/ ReclaimCommit(c) \/ RestoreInstanceId(c) \/ RotateCommit(c) \/ RotateSet(c)

Request(c) ==
    \/ \E k \in Keys, o \in Owners :
          AcquireFree(c, k, o) \/ AcquireReentrant(c, k, o) \/ ReleaseRedis(c, k, o)
    \/ \E k \in Keys, reason \in ReclaimReasons : ReclaimRedis(c, k, reason)

Environment ==
    \/ \E c \in Calls : AcquireFails(c) \/ CallFails(c)
    \/ \E k \in Keys : LockExpires(k) \/ TokenExpires(k)
    \/ \E p \in Procs : Crash(p)
    \/ PromoteMaster \/ LoseRedis

Next ==
    \/ \E p \in Procs : EnsureInstanceId(p)
    \/ \E c \in Calls : CheckRedisFailover(c) \/ ServiceStep(c) \/ Request(c)
    \/ Environment

Spec == Init /\ [][Next]_vars

-----------------------------------------------------------------------------
(* validateFencingToken *)

\* mutant: the latest row of the presenting owner
IsLatestOfOwner(r) ==
    r \in ledger /\ \A s \in ledger :
        s.key = r.key /\ s.owner = r.owner => s.at <= r.at

IsLatest(r) == r \in ledger /\ \A s \in ledger : s.key = r.key => s.at <= r.at

(* Process p accepts token t presented for key k by owner o: the latest row is
   an acquisition by o of t, under the instance id p knows. *)
Accepts(p, k, o, t) ==
    \E r \in ledger :
        /\ r.key = k /\ IsLatest(r)
        /\ r.tok.inst = cachedId[p]
        /\ r.reason \in AcquireReasons
        /\ r.owner = o /\ r.tok = t

-----------------------------------------------------------------------------
(* Properties *)

(* Every variable keeps the type its store gives it; in particular a Redis
   lock key never names "system", which reclaim writes only to the ledger. *)
TypeOK ==
    /\ redisId \in Nat /\ pgId \in Nat /\ nextId \in Nat /\ clock \in Nat
    /\ promotions \in Nat /\ losses \in Nat /\ faults \in Nat
    /\ lock \in [Keys -> Owners \cup {NoOwner}]
    /\ token \in [Keys -> Token]
    /\ counter \in [Keys -> Nat]
    /\ ledger \subseteq Row
    /\ overtaken \subseteq [key : Keys, tok : Token]
    /\ pgLocks \in [Keys -> [owner : Owners \cup {NoOwner}, tok : Token]]
    /\ cachedId \in [Procs -> Nat]
    /\ call \in [Calls -> [pc : Stages, key : Keys \cup {NoKey},
                           owner : Owners \cup {System, NoOwner}, tok : Token,
                           reason : Reasons, at : Nat, keys : SUBSET Keys]]

(* A fencing token of a lock names one owner for ever: two ledger rows of a
   key with the same {instanceId}:{counter} were written for the same owner,
   whatever expired, crashed or failed over in between (acquire_lock.lua and
   bump_fencing.lua; "Monotonic across Redis failovers", shared/fencing.ts). *)
TokenOwnerUnique ==
    \A r, s \in ledger : r.key = s.key /\ r.tok = s.tok => r.owner = s.owner

(* Token t of key k was overtaken: the lock or the token key went (release,
   reclaim, TTL) while acquire was between its script and its COMMIT. *)
Overtaken(k, t) == [key |-> k, tok |-> t] \in overtaken

(* validateFencingToken accepts only the newest token of its key: no row of
   the key under the same instance id, reclaims included, has a later counter
   than an accepted token.  The one exception is the token of an acquire that
   was itself overtaken: its row may get the latest timestamp although a newer
   token was handed out before (acquire's and reclaim's scripts run before
   their transactions BEGIN, lock-service.ts). *)
AcceptedIsNewest ==
    \A p \in Procs, r, s \in ledger :
        /\ r.key \in Keys /\ Accepts(p, r.key, r.owner, r.tok)
        /\ s.key = r.key /\ s.tok.inst = r.tok.inst
        => s.tok.ctr <= r.tok.ctr \/ Overtaken(r.key, r.tok)

(* The ledger implements the write-once register of tokens: through every
   acquire, reclaim, rotation, failure and crash a step only adds rows, and
   none gives a token of a lock to a second owner (LockService.acquire,
   reclaim and rotateInstanceIdOnFailover). *)
Register == INSTANCE TokenRegistry WITH
    given <- {[key |-> r.key, tok |-> r.tok, owner |-> r.owner] : r \in ledger}
LedgerIsRegister == Register!Spec

(* Once a reclaim of a key is in the ledger, no process accepts a token that
   was issued before it, unless that token's own acquire was overtaken: "After
   STALE_RECOVERED / ADMIN_RECLAIM / FAILOVER the latest owner is 'system', so
   workers holding the previous owner token are rejected"
   (validateFencingToken). *)
ReclaimRejectsPriorTokens ==
    \A p \in Procs, q, r \in ledger :
        /\ q.reason \in ReclaimReasons
        /\ r.key = q.key /\ r.tok.inst = q.tok.inst /\ r.tok.ctr < q.tok.ctr
        => ~ Accepts(p, r.key, r.owner, r.tok) \/ Overtaken(r.key, r.tok)

(* After a failover "holders must re-acquire" (rotateInstanceIdOnFailover):
   when the ids agree again, a holder whose re-acquire is the latest row of
   its key has a token that validates. *)
ReacquiredTokenAccepted ==
    \A p \in Procs, r \in ledger :
        /\ r.key \in Keys /\ IsLatest(r) /\ r.reason \in AcquireReasons
        /\ lock[r.key] = r.owner
        /\ cachedId[p] = redisId /\ redisId = pgId
        => Accepts(p, r.key, r.owner, r.tok)

(* Every health check completes, and so does every call it starts. *)
Fairness ==
    /\ \A p \in Procs : WF_vars(EnsureInstanceId(p))
    /\ \A c \in Calls : WF_vars(CheckRedisFailover(c)) /\ WF_vars(ServiceStep(c))

FairSpec == Spec /\ Fairness

(* Redis and Postgres eventually agree on one instance id for good after
   masters stop being lost or replaced: checkRedisFailover restores or rotates
   it, and a rotation interrupted between its commit and its Redis write is
   repeated. *)
InstanceIdConverges == <>[](redisId # NoId /\ redisId = pgId)
=============================================================================
