--------------------------- MODULE JobInvariants ---------------------------
(***************************************************************************)
(* The invariants from which JobLifecycleProofs proves the properties of   *)
(* JobLifecycle.                                                           *)
(*                                                                         *)
(* Inv, Wanted: until a lock expires, something is scanned, reclaimed or   *)
(* retried, a callback comes too late or two promotions overlap (Calm),    *)
(* the calls a request has still to make say which job it drives: the one  *)
(* whose row it will write, or whose locks it will release.  A job has one *)
(* driver at most, every call was made for a status the job still has, and *)
(* a worker's stage and the status of its job agree unless its request has *)
(* the answer already.                                                     *)
(*                                                                         *)
(* TInv: what has which type, always.                                      *)
(***************************************************************************)
EXTENDS JobLifecycle, Functions

(* None of it has happened so far. *)
Calm ==
    /\ budget = [scans |-> 0, reclaims |-> 0, retries |-> 0, expiries |-> 0]
    /\ crossed = {}

-----------------------------------------------------------------------------
(* Stores *)

Statuses == JobStatuses \cup {"NONE"}
JobOrNone == Jobs \cup {NoJob}
Accepted ==
    {"VALIDATING", "VALIDATION_REPORT", "COMMITTING", "POST_COMMIT_VERIFY"}
WorkerStatuses ==
    {"VALIDATING", "REIMPORT_FAILED", "VALIDATION_REPORT", "VALIDATION_FAILED", "COMMITTING",
     "POST_COMMIT_VERIFY", "PAUSED_EDITOR_LOCK", "COMMIT_FAILED", "COMPLETED", "ROLLBACK"}

JobType == [status : Statuses, attempt : Nat, lockKey : BOOLEAN, cb : Nat, dep : JobOrNone,
            blockedBy : JobOrNone, done : BOOLEAN, target : BOOLEAN, beat : BOOLEAN]

LockType == [owner : JobOrNone, tok : Nat, ctr : Nat,
             lastOwner : JobOrNone \cup {System}, lastTok : Nat, row : JobOrNone]

CalmOps ==
    {"slot", "insert", "dispatch", "block", "lock", "locktarget", "provision", "mark",
     "workflow", "enqueue", "release", "update", "write", "fail", "requeue", "bury", "promote",
     "promotenext", "unblock", "resolve"}

FrameType ==
    [op : CalmOps, j : Jobs, l : Locks, s : Statuses, k : Nat, n : Nat, a : Nat,
     b : JobOrNone, c : JobOrNone, f : BOOLEAN, g : BOOLEAN, q : {{}},
     w : SUBSET (Jobs \X JobOrNone)]

Stores ==
    /\ stack = [t \in Threads |-> stack[t]]
    /\ job \in [Jobs -> JobType]
    /\ lk \in [Locks -> LockType]
    /\ run \in [Mints -> [job : JobOrNone, tok : Nat, stage : Stages]]
    /\ answer \in [Threads -> [n : {0} \cup Mints, s : Statuses]]
    /\ mints \in Nat
    /\ pending \subseteq queuedIds /\ queuedIds \subseteq Jobs \X Nat

-----------------------------------------------------------------------------
(* Requests *)

(* What follows a release: the end of a job, or of an attempt to dispatch it. *)
AfterRelease(y, j) ==
    /\ y.j = j
    /\ \/ y.op \in {"block", "promote"}
       \/ y.op = "update" /\ y.s = "DISPATCH_FAILED" /\ y.k = 0

(* The forms of the calls of a request. *)
Form(st) ==
    \/ st = <<>>
    \/ \E x \in FrameType : st = <<x>> /\ x.op # "release"
    \/ \E x, y \in FrameType :
          /\ st = <<x, y>>
          /\ \/ x.op = "release" /\ AfterRelease(y, x.j)
             \/ x.op = "update" /\ x.s = "DEP_FAILED" /\ y.op = "promotenext"
    \/ \E x, y, z \in FrameType :
          /\ st = <<x, y, z>> /\ x.op = "release" /\ y.op = "release" /\ y.j = x.j
          /\ AfterRelease(z, x.j)

(* A worker's post that is not yet checked against the row: it drives nothing. *)
Unchecked(x) == x.op = "update" /\ x.s \in WorkerStatuses

Drives(t, j) ==
    /\ stack[t] # <<>> /\ Top(t).j = j
    /\ Top(t).op \notin {"promote", "promotenext"} /\ ~ Unchecked(Top(t))

(* The status a worker's stage stands for, once it has posted one. *)
StatusAt(stage) ==
    CASE stage = "start" -> "STAGING"
      [] stage = "validating" -> "VALIDATING"
      [] stage = "validated" -> "VALIDATION_REPORT"
      [] stage = "committing" -> "COMMITTING"
      [] stage = "verifying" -> "POST_COMMIT_VERIFY"
      [] OTHER -> "NONE"

ReleasesToEnd(t) == stack[t][Len(stack[t])].op = "promote"

(* The status for which a call was made is still the status of its job... *)
StatusFits(t) ==
    LET x == Top(t)
        v == job[x.j].status
    IN
    /\ x.op \in {"slot", "insert"} => v = "NONE"
    /\ x.op \in {"dispatch", "block", "lock", "locktarget", "provision", "mark"} => v = "QUEUED"
    /\ x.op \in {"workflow", "enqueue", "resolve"} => v = "DISPATCHING"
    /\ x.op \in {"fail", "requeue", "bury"} => v \in RetriableFailures
    /\ x.op = "unblock" => v = "BLOCKED"
    /\ x.op = "release" => v \in IF ReleasesToEnd(t) THEN Terminal ELSE {"QUEUED"}

(* ...and the one that an update leaves. *)
UpdateFits(t) ==
    LET x == Top(t)
        v == job[x.j].status
    IN
    /\ x.op = "update" =>
          \/ x.s \in WorkerStatuses /\ x.s = answer[t].s
          \/ x.s = "DISPATCH_FAILED" /\ v \in {"QUEUED", "DISPATCHING"} /\ x.k = 0
          \/ x.s \in {"STAGING", "DISPATCH_TIMEOUT"} /\ v = "DISPATCHING" /\ x.k = 0
          \/ x.s = "DEP_FAILED" /\ v = (IF Tail(stack[t]) = <<>> THEN "QUEUED" ELSE "BLOCKED")
    /\ x.op = "write" =>
          \/ x.s \in WorkerStatuses /\ x.s = answer[t].s /\ v = StatusAt(run[answer[t].n].stage)
          \/ x.s = "DISPATCH_FAILED" /\ v \in {"QUEUED", "DISPATCHING"}
          \/ x.s \in {"STAGING", "DISPATCH_TIMEOUT"} /\ v = "DISPATCHING"

(* The attempt is the job's, and a job about to run has what it needs. *)
Prepared(t) ==
    LET x == Top(t)
        r == job[x.j]
    IN
    /\ x.op \in {"lock", "locktarget", "provision", "mark", "workflow", "enqueue"} =>
          x.a = r.attempt
    /\ x.op = "requeue" => x.a = r.attempt + 1
    /\ x.op \in {"lock", "locktarget", "provision", "mark"} /\ r.dep # NoJob =>
          DepStatus(x.j) = "COMPLETED"
    /\ x.op \in {"locktarget", "provision", "mark"} => lk["generation"].owner = x.j
    /\ x.op = "provision" \/ (x.op = "mark" /\ x.j \in CrossJobs) =>
          lk["target-path"].owner = x.j
    /\ x.op = "workflow" => x.n \in Mints /\ r.cb = x.n /\ run[x.n].stage = "none"
    /\ x.op \in {"workflow", "enqueue"} =>
          \A id \in queuedIds : id[1] = x.j => id[2] < r.attempt

CallOK(t) == StatusFits(t) /\ UpdateFits(t) /\ Prepared(t)

(* A worker that waits: before its post is written, and while the answer that
   sends it on is on its way, its job has its callback token. *)
Early(t) == stack[t] # <<>> /\ Top(t).op \in {"update", "write"} /\ Top(t).s \in WorkerStatuses

AnswerOK(t) ==
    LET n == answer[t].n IN
    /\ n = 0 => answer[t] = NoAnswer
    /\ n # 0 =>
          /\ run[n].stage \notin {"none", "gone"} /\ answer[t].s \in Posts(n)
          /\ Early(t) => Top(t).j = run[n].job /\ job[run[n].job].cb = n
          /\ ~ Early(t) /\ StageAfter(answer[t].s) # "gone" =>
                stack[t] = <<>> /\ job[run[n].job].cb = n /\ job[run[n].job].status = answer[t].s

(* What promoteBlockedJobs has listed is still blocked. *)
ListOK(t) ==
    \A i \in DOMAIN stack[t] : stack[t][i].op = "promotenext" =>
        \A e \in stack[t][i].w : job[e[1]].status = "BLOCKED"

Requests ==
    \A t \in Threads :
        Form(stack[t]) /\ (stack[t] # <<>> => CallOK(t)) /\ AnswerOK(t) /\ ListOK(t)

Alone ==
    /\ \A t, u \in Threads, j \in Jobs : Drives(t, j) /\ Drives(u, j) => t = u
    /\ \A t, u \in Threads : answer[t].n = answer[u].n /\ answer[t].n # 0 => t = u
    /\ \A t, u \in Threads : Promoting(t) /\ Promoting(u) => t = u

-----------------------------------------------------------------------------
(* Workers and jobs *)

(* The worker's request has the answer, or is beyond the row's update. *)
Answered(n) == \E t \in Threads : answer[t].n = n /\ ~ Early(t)

BeforeWork ==
    {"DISPATCHING", "STAGING", "DISPATCH_TIMEOUT", "DISPATCH_FAILED", "QUEUED", "BLOCKED",
     "DEAD_LETTER"}
Working == {"validating", "validated", "committing", "verifying"}

WorkerOK(n) ==
    LET r == run[n] IN
    /\ r.stage # "none" => r.job \in Jobs /\ n <= mints
    /\ r.stage \in Working /\ ~ Answered(n) =>
          job[r.job].cb = n /\ job[r.job].status = StatusAt(r.stage)
    /\ r.stage = "start" /\ ~ Answered(n) /\ job[r.job].cb = n => job[r.job].status \in BeforeWork

JobOK(j) ==
    LET v == job[j].status IN
    /\ v \in Running => \A l \in Needs(j) : lk[l].owner = j
    /\ v \in Running /\ job[j].dep # NoJob => DepStatus(j) = "COMPLETED"
    /\ v # "DEP_FAILED" /\ (v = "NONE" => job[j].cb = 0)
    /\ job[j].cb <= mints
    /\ \A id \in queuedIds : id[1] = j =>
          /\ id[2] <= job[j].attempt /\ v # "NONE"
          /\ v \in {"QUEUED", "BLOCKED"} => id[2] < job[j].attempt
    /\ \A id \in pending : id[1] = j => v = "DISPATCHING" /\ \A t \in Threads : ~ Drives(t, j)
    /\ v = "DISPATCHING" => \/ \E t \in Threads : Drives(t, j)
                            \/ \E id \in pending : id[1] = j

Tokens == \A i, j \in Jobs : job[i].cb = job[j].cb /\ job[i].cb # 0 => i = j
OneEntry == \A a, b \in pending : a[1] = b[1] => a = b

Project ==
    /\ \A n \in Mints : WorkerOK(n)
    /\ \A j \in Jobs : JobOK(j)
    /\ Tokens /\ OneEntry

BudgetType == budget \in [scans : Nat, reclaims : Nat, retries : Nat, expiries : Nat]

Inv == Stores /\ Requests /\ Alone /\ Project
IInv == BudgetType /\ (Calm => Inv)

-----------------------------------------------------------------------------
(* The generation lock of a finished job *)

DrivesAt(t, j, op) == stack[t] # <<>> /\ Top(t).j = j /\ Top(t).op = op

(* A call that will end a job knows whether the job has had its lock; only
   cross-machine jobs lock the target path. *)
KnowsLock(t) ==
    stack[t] # <<>> =>
      /\ Top(t).op \in {"locktarget", "provision"} => Top(t).j \in CrossJobs
      /\ Top(t).op \in {"write", "bury"} => Top(t).f = job[Top(t).j].lockKey

(* The calls between the acquisition of the generation lock and the write that
   says so, and the one that gives it back. *)
Holding(t, j) ==
    \/ \E op \in {"locktarget", "provision", "mark"} : DrivesAt(t, j, op)
    \/ DrivesAt(t, j, "release") /\ Top(t).l = "generation"

(* The owner of the generation lock has been dispatched and has not finished,
   unless a request is about to record the lock or to release it. *)
LockWanted(j) ==
    /\ job[j].status = "NONE" => ~ job[j].lockKey
    /\ lk["generation"].owner = j /\ (~ job[j].lockKey \/ job[j].status \in Terminal) =>
          \E t \in Threads : Holding(t, j)

Wanted ==
    /\ lk["target-path"].owner \in CrossJobs \cup {NoJob}
    /\ \A t \in Threads : KnowsLock(t)
    /\ \A j \in Jobs : LockWanted(j)

-----------------------------------------------------------------------------
(* Calls of any request: the current one, and those below it on the stack. *)

CallRecord ==
    [op : Ops, j : JobOrNone, l : Locks, s : Statuses, k : Nat, n : Nat, a : Nat,
     b : JobOrNone, c : JobOrNone, f : BOOLEAN, g : BOOLEAN, q : SUBSET JobOrNone,
     w : SUBSET ((Jobs \X JobOrNone) \cup (Locks \X Jobs) \cup (Jobs \X BOOLEAN \X Nat)
                   \cup (Jobs \X Nat))]

JobCalls ==
    {"slot", "insert", "dispatch", "block", "lock", "locktarget", "provision", "mark",
     "workflow", "enqueue", "release", "update", "write", "fail", "requeue", "bury", "unblock",
     "resolve", "stale", "staleread", "staleretry", "revive"}

(* The lists are what was selected for them. *)
Listing(x) ==
    /\ x.op \in JobCalls => x.j \in Jobs
    /\ x.op = "requeue" => x.a # 0
    /\ x.op = "promotenext" => x.w \subseteq Jobs \X JobOrNone
    /\ x.op = "scanlocks" => x.w \subseteq Locks \X Jobs
    /\ x.op = "scanjobs" => x.w \subseteq Jobs \X BOOLEAN \X Nat
    /\ x.op = "adminnext" => x.w \subseteq Jobs \X Nat

CallType == {x \in CallRecord : Listing(x)}

Below(t) == Range(Tail(stack[t]))

Stacks == stack \in [Threads -> Seq(CallType)]

-----------------------------------------------------------------------------
(* Types of the stores, whatever happens. *)

RowType == [status : Statuses, attempt : Nat \ {0}, lockKey : BOOLEAN, cb : 0 .. MaxMints,
            dep : JobOrNone, blockedBy : JobOrNone, done : BOOLEAN, target : BOOLEAN,
            beat : BOOLEAN]

RunsTyped ==
    /\ run \in [Mints -> [job : JobOrNone, tok : Nat, stage : Stages]]
    /\ \A n \in Mints : run[n].stage # "none" => run[n].job \in Jobs

AnswersTyped ==
    /\ answer \in [Threads -> [n : {0} \cup Mints, s : Statuses]]
    /\ \A t \in Threads : Serves(t) # 0 => run[Serves(t)].job \in Jobs

Stored ==
    /\ job \in [Jobs -> RowType] /\ lk \in [Locks -> LockType]
    /\ RunsTyped /\ AnswersTyped
    /\ mints \in 0 .. MaxMints
    /\ pending \subseteq queuedIds /\ queuedIds \subseteq Jobs \X Nat /\ dlq \subseteq Jobs

TInv == Stored /\ Stacks

=============================================================================
