---------------------------- MODULE CommitAgent ----------------------------
(***************************************************************************)
(* Cross-machine commits of one project: the verbs of the commit agent     *)
(* that a worker calls over SSH (atomic-commit.sh, post-commit-verify.sh), *)
(* the renames of doCommit one by one, the nonce log, the fencing token,   *)
(* and the agent's daemon with the recovery it runs when it starts.        *)
(*                                                                         *)
(* A verb runs in an agent process of its own.  The process or the whole   *)
(* host may die between any two of its steps, and the worker may lose its  *)
(* connection while the process goes on, even while the next attempt is    *)
(* under way.  What the worker generated is one tree; Partial is a         *)
(* directory that is only half written.                                    *)
(***************************************************************************)
EXTENDS Naturals, FiniteSets

CONSTANTS
    Workers,         \* attempts; each stages a tree and commits it
    Jobs,            \* their jobs, which name the staging directory and the backup
    JobOf,           \* the job of a worker
    Tokens,          \* fencing tokens
    TokenOf,         \* the token of a worker; a retry has that of the failed attempt
    Original,        \* the tree the project has at first
    Partial,
    None,            \* absent tree, sidecar or token
    RequireFencing,  \* PGOS_REQUIRE_FENCING of the agent's processes
    MaxFaults        \* bound on crashes, lost connections and failed file operations

ASSUME AgentNames ==
    /\ JobOf \in [Workers -> Jobs] /\ TokenOf \in [Workers -> Tokens]
    /\ None \notin Workers \cup Tokens
    /\ Original \notin Workers /\ Partial \notin Workers \cup {Original}
    /\ None # Original /\ None # Partial

ASSUME FaultsAssumption == MaxFaults \in Nat /\ RequireFencing \in BOOLEAN

VARIABLES
    target,    \* the live project directory
    backup,    \* backup[j]: <target>.bak-<j>
    staged,    \* staged[j]: /tmp/staging-<j>, the commit source of j
    snapshot,  \* snapshot[j]: the pre-commit archive of j in S3
    sidecar,   \* /tmp/.pgos-pending-commit: whose request it holds
    nonceLog,  \* nonces.log
    valid,     \* the fencing token that validates
    agent,     \* agent[w]: what the process that serves w is doing
    daemonUp,  \* the daemon is up
    worker,    \* worker[w]: how far the scripts of w are
    before,    \* before[w]: the live tree when w took its snapshot (history)
    crowded,   \* attempts dispatched while the process of an earlier one was at work (history)
    outrun,    \* attempts whose token ceased to validate after their check of it (history)
    faults

disk == <<target, backup, staged, sidecar, nonceLog>>
history == <<crowded, outrun>>
vars == <<disk, snapshot, valid, agent, daemonUp, worker, before, history, faults>>

-----------------------------------------------------------------------------
Trees == Workers \cup {Original}
Stages == {"idle", "started", "snapped", "staged", "committing", "verify", "rollback",
           "fallback", "completed", "rolledback", "failed", "unrestored"}
Ended == {"completed", "rolledback", "failed", "unrestored"}
Restoring == {"wipe", "put"}
Checked == {"source", "clear", "aside", "place", "tidy", "record"}
Committing == {"check"} \cup Checked
Identities == {"arguments", "environment", "none"}
Nonces == Workers \cup (Jobs \X Tokens)

(* seen is the nonces a process has in memory, by where it finds the lock key
   and the owner. *)
IdleProc == [pc |-> "idle", seen |-> {}, by |-> "none"]

Init ==
    /\ target = Original
    /\ backup = [j \in Jobs |-> None]
    /\ staged = [j \in Jobs |-> None]
    /\ snapshot = [j \in Jobs |-> None]
    /\ sidecar = None
    /\ nonceLog = {}
    /\ valid = None
    /\ agent = [w \in Workers |-> IdleProc]
    /\ daemonUp = TRUE
    /\ worker = [w \in Workers |-> "idle"]
    /\ before = [w \in Workers |-> None]
    /\ crowded = {}
    /\ outrun = {}
    /\ faults = 0

Faults(n) == faults + n <= MaxFaults /\ faults' = faults + n
Fault == Faults(1)

Resting == \A w \in Workers : agent[w].pc = "idle"

(* The process of w ends; if w still waits for it, it goes to stage s. *)
Exit(w, s) ==
    /\ agent' = [agent EXCEPT ![w] = IdleProc]
    /\ worker' = IF worker[w] \in Ended THEN worker ELSE [worker EXCEPT ![w] = s]

Goto(w, pc) == agent' = [agent EXCEPT ![w].pc = pc]

(* From now on t validates: a commit that has passed its check is outrun. *)
Validate(t) ==
    /\ valid' = t
    /\ outrun' = IF t = valid THEN outrun
                 ELSE outrun \cup {w \in Workers : agent[w].pc \in Checked}

-----------------------------------------------------------------------------
(* The worker's scripts *)

(* The orchestrator dispatches one attempt at a time, whether or not a process
   of an earlier one is still at work on the host. *)
Dispatch(w) ==
    /\ worker[w] = "idle"
    /\ \A v \in Workers : worker[v] \in Ended \cup {"idle"}
    /\ worker' = [worker EXCEPT ![w] = "started"]
    /\ Validate(TokenOf[w])
    /\ crowded' = IF Resting THEN crowded ELSE crowded \cup {w}
    /\ UNCHANGED <<disk, snapshot, agent, daemonUp, before, faults>>

(* The lock of the project is released or expires. *)
LockLost ==
    /\ valid # None
    /\ Validate(None)
    /\ UNCHANGED <<disk, snapshot, agent, daemonUp, worker, before, crowded, faults>>

\* mutant: an archive the job already has in S3 is kept
SnapshotExportOnce(w) ==
    /\ worker[w] = "started"
    /\ \/ /\ target # None
          /\ snapshot' = [snapshot EXCEPT ![JobOf[w]] = IF @ = None THEN target ELSE @]
          /\ before' = [before EXCEPT ![w] = target]
          /\ worker' = [worker EXCEPT ![w] = "snapped"]
          /\ UNCHANGED faults
       \/ /\ IF target = None THEN UNCHANGED faults ELSE Fault
          /\ worker' = [worker EXCEPT ![w] = "failed"]
          /\ UNCHANGED <<snapshot, before>>
    /\ UNCHANGED <<disk, valid, agent, daemonUp, history>>

(* snapshot-export and the upload under the key of the job; a missing project
   directory or a failed upload is COMMIT_FAILED. *)
SnapshotExport(w) ==
    /\ worker[w] = "started"
    /\ \/ /\ target # None
          /\ snapshot' = [snapshot EXCEPT ![JobOf[w]] = target]
          /\ before' = [before EXCEPT ![w] = target]
          /\ worker' = [worker EXCEPT ![w] = "snapped"]
          /\ UNCHANGED faults
       \/ /\ IF target = None THEN UNCHANGED faults ELSE Fault
          /\ worker' = [worker EXCEPT ![w] = "failed"]
          /\ UNCHANGED <<snapshot, before>>
    /\ UNCHANGED <<disk, valid, agent, daemonUp, history>>

\* mutant: the directory is not removed before the archive is extracted
StageReceiveOver(w) ==
    LET j == JobOf[w] IN
    /\ worker[w] = "snapped"
    /\ \/ /\ staged' = [staged EXCEPT ![j] = IF @ = None THEN w ELSE Partial]
          /\ worker' = [worker EXCEPT ![w] = "staged"]
          /\ UNCHANGED faults
       \/ /\ Fault
          /\ \E left \in {None, Partial} : staged' = [staged EXCEPT ![j] = left]
          /\ worker' = [worker EXCEPT ![w] = "failed"]
    /\ UNCHANGED <<target, backup, sidecar, nonceLog, snapshot, valid, agent, daemonUp, before,
                   history>>

(* stage-receive: once the checksum is right, /tmp/staging-<job> is removed and
   the archive extracted; an error removes it again, a crash does not. *)
StageReceive(w) ==
    LET j == JobOf[w] IN
    /\ worker[w] = "snapped"
    /\ \/ /\ staged' = [staged EXCEPT ![j] = w]
          /\ worker' = [worker EXCEPT ![w] = "staged"]
          /\ UNCHANGED faults
       \/ /\ Fault
          /\ \E left \in {staged[j], None, Partial} : staged' = [staged EXCEPT ![j] = left]
          /\ worker' = [worker EXCEPT ![w] = "failed"]
    /\ UNCHANGED <<target, backup, sidecar, nonceLog, snapshot, valid, agent, daemonUp, before,
                   history>>

(* The commit verb starts a process, which loads the nonce log.  The script
   passes the lock key, the owner and a fresh nonce if it has them; otherwise
   the process looks for key and owner in its environment. *)
CommitVerb(w) ==
    /\ worker[w] = "staged"
    /\ worker' = [worker EXCEPT ![w] = "committing"]
    /\ \E by \in Identities :
          agent' = [agent EXCEPT ![w] = [pc |-> "check", seen |-> nonceLog, by |-> by]]
    /\ UNCHANGED <<disk, snapshot, valid, daemonUp, before, history, faults>>

(* The reimport succeeds, or fails for good. *)
Verify(w) ==
    /\ worker[w] = "verify"
    /\ \E s \in {"completed", "rollback"} : worker' = [worker EXCEPT ![w] = s]
    /\ UNCHANGED <<disk, snapshot, valid, agent, daemonUp, before, history, faults>>

(* do_rollback: restore from the S3 archive if it can be had, else from the
   backup on the host; each is a restore verb. *)
RestoreVerb(w) ==
    /\ agent[w].pc = "idle"
    /\ \/ /\ worker[w] = "rollback"
          /\ \/ Goto(w, "wipe") /\ UNCHANGED <<worker, faults>>
             \/ Fault /\ worker' = [worker EXCEPT ![w] = "fallback"] /\ UNCHANGED agent
       \/ /\ worker[w] = "fallback"
          /\ IF backup[JobOf[w]] # None
             THEN Goto(w, "wipe") /\ UNCHANGED worker
             ELSE worker' = [worker EXCEPT ![w] = "unrestored"] /\ UNCHANGED agent
          /\ UNCHANGED faults
    /\ UNCHANGED <<disk, snapshot, valid, daemonUp, before, history>>

-----------------------------------------------------------------------------
(* doCommit, in the process that serves w *)

At(w, pc) == agent[w].pc = pc

(* Without a nonce argument it is made of the job and the token. *)
Nonce(w) == IF agent[w].by = "arguments" THEN w ELSE <<JobOf[w], TokenOf[w]>>

RecordNonce(w) == nonceLog' = nonceLog \cup {Nonce(w)}

\* mutant: the fencing token is not validated
CheckUnfenced(w) ==
    /\ At(w, "check")
    /\ IF Nonce(w) \notin agent[w].seen
       THEN Goto(w, "source") /\ UNCHANGED worker
       ELSE Exit(w, "failed")
    /\ UNCHANGED <<disk, snapshot, valid, daemonUp, before, history, faults>>

(* A nonce that was seen ends the commit; so does, with a lock key and an owner,
   a token that does not validate or a failed validation call, and without them
   the requirement of fencing. *)
Check(w) ==
    LET named == agent[w].by # "none" IN
    /\ At(w, "check")
    /\ \/ /\ IF /\ Nonce(w) \notin agent[w].seen
                /\ IF named THEN valid = TokenOf[w] ELSE ~ RequireFencing
             THEN Goto(w, "source") /\ UNCHANGED worker
             ELSE Exit(w, "failed")
          /\ UNCHANGED faults
       \/ named /\ Fault /\ Exit(w, "failed")
    /\ UNCHANGED <<disk, snapshot, valid, daemonUp, before, history>>

(* A source that is gone while the target exists counts as committed; otherwise
   the request is written to the directory above the source, which is /tmp. *)
Source(w) ==
    /\ At(w, "source")
    /\ \/ /\ staged[JobOf[w]] = None
          /\ IF target # None THEN RecordNonce(w) /\ Exit(w, "verify")
                              ELSE Exit(w, "failed") /\ UNCHANGED nonceLog
          /\ UNCHANGED <<sidecar, faults>>
       \/ /\ staged[JobOf[w]] # None
          /\ \/ /\ sidecar' = w
                /\ Goto(w, "clear")
                /\ UNCHANGED <<worker, faults>>
             \/ Fault /\ Exit(w, "failed") /\ UNCHANGED sidecar
          /\ UNCHANGED nonceLog
    /\ UNCHANGED <<target, backup, staged, snapshot, valid, daemonUp, before, history>>

ClearBackup(w) ==
    /\ At(w, "clear")
    /\ backup' = [backup EXCEPT ![JobOf[w]] = None]
    /\ Goto(w, "aside")
    /\ UNCHANGED <<target, staged, sidecar, nonceLog, snapshot, valid, daemonUp, worker,
                   before, history, faults>>

\* mutant: the old tree is removed instead of moved aside
MoveAsideRemove(w) ==
    /\ At(w, "aside")
    /\ target' = None
    /\ Goto(w, "place")
    /\ UNCHANGED <<backup, staged, sidecar, nonceLog, snapshot, valid, daemonUp, worker,
                   before, history, faults>>

(* The live tree becomes the backup; when that fails, as it must over a backup
   another process has put there, nothing has changed. *)
MoveAside(w) ==
    LET j == JobOf[w] IN
    /\ At(w, "aside")
    /\ \/ /\ target = None \/ backup[j] = None
          /\ IF target # None
             THEN target' = None /\ backup' = [backup EXCEPT ![j] = target]
             ELSE UNCHANGED <<target, backup>>
          /\ Goto(w, "place")
          /\ UNCHANGED <<sidecar, worker, faults>>
       \/ /\ target # None
          /\ IF backup[j] = None THEN Fault ELSE UNCHANGED faults
          /\ sidecar' = None
          /\ Exit(w, "failed")
          /\ UNCHANGED <<target, backup>>
    /\ UNCHANGED <<staged, nonceLog, snapshot, valid, daemonUp, before, history>>

(* The staged tree becomes the live one.  When that fails the backup is renamed
   back, unless that fails as well, and the sidecar stays. *)
PutInPlace(w) ==
    LET j == JobOf[w]
        possible == target = None /\ staged[j] # None
        undo == target = None /\ backup[j] # None
        failing == IF possible THEN 1 ELSE 0 IN
    /\ At(w, "place")
    /\ \/ /\ possible
          /\ target' = staged[j]
          /\ staged' = [staged EXCEPT ![j] = None]
          /\ Goto(w, "tidy")
          /\ UNCHANGED <<backup, worker, faults>>
       \/ /\ Faults(failing)
          /\ IF undo
             THEN target' = backup[j] /\ backup' = [backup EXCEPT ![j] = None]
             ELSE UNCHANGED <<target, backup>>
          /\ Exit(w, "failed")
          /\ UNCHANGED staged
       \/ /\ undo
          /\ Faults(failing + 1)
          /\ Exit(w, "failed")
          /\ UNCHANGED <<target, backup, staged>>
    /\ UNCHANGED <<sidecar, nonceLog, snapshot, valid, daemonUp, before, history>>

Tidy(w) ==
    /\ At(w, "tidy")
    /\ sidecar' = None
    /\ Goto(w, "record")
    /\ UNCHANGED <<target, backup, staged, nonceLog, snapshot, valid, daemonUp, worker,
                   before, history, faults>>

Record(w) ==
    /\ At(w, "record")
    /\ RecordNonce(w)
    /\ Exit(w, "verify")
    /\ UNCHANGED <<target, backup, staged, sidecar, snapshot, valid, daemonUp, before, history,
                   faults>>

-----------------------------------------------------------------------------
(* handleRestore *)

Wipe(w) ==
    /\ At(w, "wipe")
    /\ target' = None
    /\ Goto(w, "put")
    /\ UNCHANGED <<backup, staged, sidecar, nonceLog, snapshot, valid, daemonUp, worker,
                   before, history, faults>>

(* A rename or, when it fails, a copy, which mixes with a tree that is there
   and may fail in the middle. *)
PutBack(w) ==
    LET j == JobOf[w]
        archive == worker[w] = "rollback"
        tree == IF archive THEN snapshot[j] ELSE backup[j] IN
    /\ At(w, "put")
    /\ \/ /\ target' = IF target = None THEN tree ELSE Partial
          /\ backup' = IF archive THEN backup ELSE [backup EXCEPT ![j] = None]
          /\ Exit(w, "rolledback")
          /\ UNCHANGED faults
       \/ /\ Fault
          /\ target' = Partial
          /\ Exit(w, IF archive THEN "fallback" ELSE "unrestored")
          /\ UNCHANGED backup
    /\ UNCHANGED <<staged, sidecar, nonceLog, snapshot, valid, daemonUp, before, history>>

-----------------------------------------------------------------------------
(* The daemon starts with recoverPendingRenames.  It looks for the requests of
   interrupted commits inside the directories /tmp/staging-*, where doCommit
   writes none when the source is such a directory itself, as it is in
   atomic-commit.sh: it finds nothing to finish. *)
DaemonStart ==
    /\ ~ daemonUp
    /\ daemonUp' = TRUE
    /\ UNCHANGED <<disk, snapshot, valid, agent, worker, before, history, faults>>

-----------------------------------------------------------------------------
(* Faults *)

(* What a worker does when its connection breaks. *)
Broken(s) == CASE s = "committing" -> "failed"
               [] s = "rollback" -> "fallback"
               [] s = "fallback" -> "unrestored"
               [] OTHER -> s

(* The processes of ws die where they are. *)
Kill(ws) ==
    /\ Fault
    /\ agent' = [w \in Workers |-> IF w \in ws THEN IdleProc ELSE agent[w]]
    /\ worker' = [w \in Workers |-> IF w \in ws /\ agent[w].pc # "idle"
                                    THEN Broken(worker[w]) ELSE worker[w]]
    /\ UNCHANGED <<disk, snapshot, valid, before, history>>

AgentDies(w) == agent[w].pc # "idle" /\ Kill({w}) /\ UNCHANGED daemonUp

HostCrash == Kill(Workers) /\ daemonUp' = FALSE

(* The worker loses its connection; the commit goes on. *)
Disconnect(w) ==
    /\ worker[w] = "committing" /\ Fault
    /\ worker' = [worker EXCEPT ![w] = "failed"]
    /\ UNCHANGED <<disk, snapshot, valid, agent, daemonUp, before, history>>

-----------------------------------------------------------------------------
Commit(w) ==
    Check(w) \/ Source(w) \/ ClearBackup(w) \/ MoveAside(w) \/ PutInPlace(w) \/ Tidy(w) \/ Record(w)

Scripts(w) ==
    \/ SnapshotExport(w) \/ StageReceive(w) \/ CommitVerb(w) \/ Verify(w)
    \/ RestoreVerb(w) \/ Wipe(w) \/ PutBack(w)

Next ==
    \/ \E w \in Workers : Dispatch(w) \/ Scripts(w) \/ Commit(w) \/ Disconnect(w) \/ AgentDies(w)
    \/ LockLost \/ DaemonStart \/ HostCrash

Spec == Init /\ [][Next]_vars

(* Scripts and processes go on until they end or are killed, and the service
   manager restarts the daemon. *)
Fairness ==
    /\ \A w \in Workers : WF_vars(Scripts(w)) /\ WF_vars(Commit(w))
    /\ WF_vars(DaemonStart)

FairSpec == Spec /\ Fairness

-----------------------------------------------------------------------------
(* Properties *)

(* The stores hold whole trees, except for what a crash or a failed copy may
   leave. *)
TypeOK ==
    /\ target \in Trees \cup {None, Partial}
    /\ backup \in [Jobs -> Trees \cup {None, Partial}]
    /\ staged \in [Jobs -> Workers \cup {None, Partial}]
    /\ snapshot \in [Jobs -> Trees \cup {None, Partial}]
    /\ sidecar \in Workers \cup {None}
    /\ nonceLog \subseteq Nonces
    /\ valid \in Tokens \cup {None}
    /\ agent \in [Workers -> [pc : Committing \cup Restoring \cup {"idle"},
                              seen : SUBSET Nonces, by : Identities]]
    /\ daemonUp \in BOOLEAN
    /\ worker \in [Workers -> Stages]
    /\ before \in [Workers -> Trees \cup {None, Partial}]
    /\ crowded \subseteq Workers /\ outrun \subseteq Workers
    /\ faults \in Nat

(* While its worker verifies a commit, <target>.bak-<job> is the tree that was
   live when the worker took its snapshot: "previous target is moved to
   target.bak-{jobId} and retained so post-commit verify can restore if S3
   snapshot is unavailable" (commit-agent README).  Not so for an attempt that
   began while the process of an earlier one was still renaming. *)
BackupRetained ==
    \A w \in Workers \ crowded : worker[w] = "verify" => backup[JobOf[w]] = before[w]

(* A rollback that reports success has put back the tree that was live before
   the commit, whichever of the two sources it used and whatever died on the
   way (post-commit-verify.sh, do_rollback); with the same exception. *)
RollbackRestores ==
    [][\A w \in Workers \ crowded :
          worker[w] # "rolledback" /\ worker'[w] = "rolledback" => target' = before[w]]_vars

(* No commit makes a half-extracted tree live, also not one that goes on after
   its worker has lost the connection: only a restore whose copy failed leaves
   one, as long as no attempt began beside such a process. *)
WholeTreeLive ==
    target = Partial =>
        crowded # {} \/ \E w \in Workers : worker[w] \in {"fallback", "unrestored"}

(* The second rename of doCommit is made only for an attempt whose fencing token
   validates or did until after its check: a process that outlives its attempt,
   its lock and the dispatch of the next one is refused when it comes to the
   check.  Between check and rename the agent does not look again, and without
   PGOS_REQUIRE_FENCING it commits unchecked for who names no lock. *)
CommitFenced ==
    [][\A w \in Workers : agent[w].pc = "place" /\ agent'[w].pc = "tidy" =>
          \/ valid = TokenOf[w] \/ w \in outrun
          \/ ~ RequireFencing /\ agent[w].by = "none"]_vars

(* "Cross-machine crash recovery: commit-agent idempotent rename + pending
   sidecar" (README): when the host goes down between the renames of a commit,
   the daemon's start brings the project a tree again, unless the commit has been
   fenced out since or a rollback gave up. *)
TargetReturns ==
    (target = None /\ ~ daemonUp /\ faults = MaxFaults) ~>
        \/ target # None
        \/ \E w \in Workers : worker[w] = "unrestored"
        \/ sidecar # None /\ valid # TokenOf[sidecar]
=============================================================================
