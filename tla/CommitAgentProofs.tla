------------------------- MODULE CommitAgentProofs -------------------------
(***************************************************************************)
(* Proofs about CommitAgent, for any attempts, jobs and tokens, any bound  *)
(* on the faults, and any overlap of an attempt with the process of an     *)
(* earlier one.                                                            *)
(*                                                                         *)
(* An attempt that was dispatched when no process was at work has the      *)
(* project for itself until it ends: what holds of the live tree, the      *)
(* backup, the archive and the staged tree at each stage of its commit is  *)
(* not disturbed by anybody else.  While no attempt has been dispatched    *)
(* beside a process at work, the same goes for a process that outlives its *)
(* attempt.  That whoever is past the check of the token still has it, or  *)
(* was outrun, holds without any such condition.                           *)
(***************************************************************************)
EXTENDS CommitAgent, TLAPS

Busy(w) == agent[w].pc # "idle"
Active(w) == worker[w] \notin Ended \cup {"idle"}

(* Nobody was dispatched beside w. *)
Undisturbed(w) == IF Active(w) THEN w \notin crowded ELSE crowded = {}

(* A process serves an attempt that was dispatched. *)
Dispatched == \A w \in Workers : Busy(w) => worker[w] # "idle"

OneActive == \A v, w \in Workers : Active(v) /\ Active(w) => v = w

Alone ==
  \A w \in Workers : Undisturbed(w) /\ (Busy(w) \/ Active(w)) =>
     \A v \in Workers \ {w} : ~ Busy(v) /\ ~ Active(v)

(* From its snapshot on, the archive and, once the commit is made, the backup
   are the tree that was live when the snapshot was taken. *)
WorkerOK(w) ==
  LET j == JobOf[w] IN
  /\ worker[w] \in {"started", "snapped", "staged", "verify"} => ~ Busy(w)
  /\ worker[w] = "committing" => agent[w].pc \in Committing
  /\ worker[w] \in {"rollback", "fallback"} => agent[w].pc \in Restoring \cup {"idle"}
  /\ worker[w] \in {"snapped", "staged", "committing", "verify", "rollback", "fallback"} =>
        snapshot[j] = before[w]
  /\ worker[w] \in {"snapped", "staged"} => target = before[w] /\ target # None
  /\ worker[w] = "staged" => staged[j] = w
  /\ worker[w] \in {"verify", "rollback", "fallback"} => backup[j] = before[w]

(* The process of w, which may go on after w was told that the commit failed. *)
ProcessOK(w) ==
  LET j == JobOf[w] IN
  /\ agent[w].pc \in Committing => worker[w] \in {"committing", "failed"}
  /\ agent[w].pc \in Restoring => worker[w] \in {"rollback", "fallback"}
  /\ agent[w].pc \in {"check", "source", "clear", "aside"} =>
        target = before[w] /\ target # None /\ staged[j] = w
  /\ agent[w].pc = "aside" => backup[j] = None
  /\ agent[w].pc = "place" => target = None /\ staged[j] = w
  /\ agent[w].pc \in {"place", "tidy", "record"} => backup[j] = before[w]
  /\ agent[w].pc = "put" => target = None

OK(w) == WorkerOK(w) /\ ProcessOK(w)

Processes == \A w \in Workers : Undisturbed(w) => OK(w)

(* Whoever is past the check of the token still has it, or was outrun, or names
   no lock where none is required. *)
MayCommit(w) ==
  \/ valid = TokenOf[w]
  \/ w \in outrun
  \/ ~ RequireFencing /\ agent[w].by = "none"

TokenHeld == \A w \in Workers : agent[w].pc \in Checked => MayCommit(w)

(* Unless a rollback gave up, half a tree is live only while a restore is being
   repeated, and is nowhere kept for later. *)
WholeTrees ==
  crowded = {} /\ (\A w \in Workers : worker[w] # "unrestored") =>
    /\ \A j \in Jobs : backup[j] # Partial /\ snapshot[j] # Partial
    /\ target = Partial => \E w \in Workers : worker[w] = "fallback"

IInv == TypeOK /\ Dispatched /\ OneActive /\ Alone /\ Processes /\ TokenHeld /\ WholeTrees

-----------------------------------------------------------------------------
(* Types *)

(* The names of the instance, as AgentNames assumes them. *)
LEMMA NamesFacts ==
  /\ JobOf \in [Workers -> Jobs] /\ TokenOf \in [Workers -> Tokens]
  /\ None \notin Workers /\ None \notin Tokens
  /\ Original \notin Workers /\ Partial \notin Workers /\ Partial # Original
  /\ None # Original /\ None # Partial
  BY AgentNames

ProcType == [pc : Committing \cup Restoring \cup {"idle"}, seen : SUBSET Nonces, by : Identities]

LEMMA IdleFacts == IdleProc \in ProcType /\ IdleProc.pc = "idle"
  BY DEF IdleProc, ProcType, Identities

(* What the end of a process leaves. *)
LEMMA ExitFacts ==
  ASSUME TypeOK, NEW w \in Workers, NEW s \in Stages, Exit(w, s)
  PROVE  /\ agent' \in [Workers -> ProcType] /\ worker' \in [Workers -> Stages]
         /\ agent'[w] = IdleProc
         /\ worker'[w] = IF worker[w] \in Ended THEN worker[w] ELSE s
         /\ \A v \in Workers \ {w} : agent'[v] = agent[v] /\ worker'[v] = worker[v]
  BY IdleFacts DEF Exit, TypeOK, ProcType

(* What the next step of a process changes. *)
LEMMA GotoFacts ==
  ASSUME TypeOK, NEW w \in Workers, NEW c \in Committing \cup Restoring \cup {"idle"}, Goto(w, c)
  PROVE  /\ agent' \in [Workers -> ProcType]
         /\ agent'[w].pc = c /\ agent'[w].by = agent[w].by
         /\ \A v \in Workers \ {w} : agent'[v] = agent[v]
  <1>1. agent \in [Workers -> ProcType] /\ agent[w] \in ProcType
    BY DEF TypeOK, ProcType
  <1>2. [agent[w] EXCEPT !.pc = c] \in ProcType
    BY <1>1 DEF ProcType
  <1>3. agent' = [agent EXCEPT ![w] = [agent[w] EXCEPT !.pc = c]]
    BY DEF Goto
  <1> QED BY <1>1, <1>2, <1>3 DEF ProcType

(* The nonce an attempt uses is one. *)
LEMMA NonceType ==
  ASSUME NEW w \in Workers
  PROVE  Nonce(w) \in Nonces
  BY NamesFacts DEF Nonce, Nonces

(* The faults that are counted. *)
LEMMA FaultsType ==
  ASSUME faults \in Nat, NEW n \in Nat, Faults(n) \/ UNCHANGED faults
  PROVE  faults' \in Nat
  BY DEF Faults

(* Another token makes attempts outrun and touches nothing else. *)
LEMMA ValidateType ==
  ASSUME TypeOK, NEW t \in Tokens \cup {None}, Validate(t)
  PROVE  valid' \in Tokens \cup {None} /\ outrun' \subseteq Workers
  BY DEF Validate, TypeOK

(* A step of the scripts or a broken connection keeps TypeOK. *)
LEMMA ScriptType ==
  ASSUME TypeOK, NEW w \in Workers, Dispatch(w) \/ Scripts(w) \/ Disconnect(w)
  PROVE  TypeOK'
  <1> USE NamesFacts
  <1>0. JobOf[w] \in Jobs /\ TokenOf[w] \in Tokens /\ faults \in Nat
    BY DEF TypeOK
  <1>1. CASE Dispatch(w)
    <2>1. valid' \in Tokens \cup {None} /\ outrun' \subseteq Workers
      BY <1>0, <1>1, ValidateType DEF Dispatch
    <2> QED BY <1>1, <2>1 DEF Dispatch, TypeOK, disk, Stages
  <1>2. CASE SnapshotExport(w)
    <2>1. faults' \in Nat
      BY <1>0, <1>2, FaultsType DEF SnapshotExport, Fault
    <2>2. \/ snapshot' = [snapshot EXCEPT ![JobOf[w]] = target] /\ before' = [before EXCEPT ![w] = target]
          \/ UNCHANGED <<snapshot, before>>
      BY <1>2 DEF SnapshotExport
    <2>3. worker' \in [Workers -> Stages]
      BY <1>2 DEF SnapshotExport, TypeOK, Stages
    <2>4. UNCHANGED <<disk, valid, agent, daemonUp, history>>
      BY <1>2 DEF SnapshotExport
    <2> QED BY <1>0, <2>1, <2>2, <2>3, <2>4 DEF TypeOK, disk, history
  <1>3. CASE StageReceive(w)
    <2>1. faults' \in Nat
      BY <1>0, <1>3, FaultsType DEF StageReceive, Fault
    <2>2. PICK x \in Workers \cup {None, Partial} : staged' = [staged EXCEPT ![JobOf[w]] = x]
      BY <1>0, <1>3 DEF StageReceive, TypeOK
    <2>3. worker' \in [Workers -> Stages]
      BY <1>3 DEF StageReceive, TypeOK, Stages
    <2>4. UNCHANGED <<target, backup, sidecar, nonceLog, snapshot, valid, agent, daemonUp, before,
                      crowded, outrun>>
      BY <1>3 DEF StageReceive, history
    <2> QED BY <1>0, <2>1, <2>2, <2>3, <2>4 DEF TypeOK
  <1>4. CASE CommitVerb(w)
    <2>1. PICK by \in Identities :
             agent' = [agent EXCEPT ![w] = [pc |-> "check", seen |-> nonceLog, by |-> by]]
      BY <1>4 DEF CommitVerb
    <2>2. [pc |-> "check", seen |-> nonceLog, by |-> by] \in ProcType
      BY DEF ProcType, TypeOK, Committing
    <2> QED BY <1>4, <2>1, <2>2 DEF CommitVerb, TypeOK, disk, history, Stages, ProcType
  <1>5. CASE Verify(w)
    BY <1>5 DEF Verify, TypeOK, disk, history, Stages
  <1>6. CASE RestoreVerb(w)
    <2>1. agent' \in [Workers -> ProcType]
      BY <1>6, GotoFacts DEF RestoreVerb, TypeOK, ProcType, Restoring
    <2>2. faults' \in Nat
      BY <1>0, <1>6, FaultsType DEF RestoreVerb, Fault
    <2> QED BY <1>6, <2>1, <2>2 DEF RestoreVerb, TypeOK, disk, history, Stages, ProcType
  <1>7. CASE Wipe(w)
    <2>1. agent' \in [Workers -> ProcType]
      BY <1>7, GotoFacts DEF Wipe, Restoring
    <2> QED BY <1>7, <2>1 DEF Wipe, TypeOK, disk, history, ProcType
  <1>8. CASE PutBack(w)
    <2>1. agent' \in [Workers -> ProcType] /\ worker' \in [Workers -> Stages]
      BY <1>8, ExitFacts DEF PutBack, Stages
    <2>2. target' \in Trees \cup {None, Partial} /\ backup' \in [Jobs -> Trees \cup {None, Partial}]
      BY <1>0, <1>8 DEF PutBack, TypeOK
    <2>3. faults' \in Nat
      BY <1>0, <1>8, FaultsType DEF PutBack, Fault
    <2> QED BY <1>8, <2>1, <2>2, <2>3 DEF PutBack, TypeOK, history, ProcType
  <1>9. CASE Disconnect(w)
    <2>1. faults' \in Nat
      BY <1>0, <1>9, FaultsType DEF Disconnect, Fault
    <2> QED BY <1>9, <2>1 DEF Disconnect, TypeOK, disk, history, Stages
  <1> QED
    BY <1>1, <1>2, <1>3, <1>4, <1>5, <1>6, <1>7, <1>8, <1>9 DEF Scripts

(* A step of a commit keeps TypeOK. *)
LEMMA CommitType ==
  ASSUME TypeOK, NEW w \in Workers, Commit(w)
  PROVE  TypeOK'
  <1> USE NamesFacts
  <1> DEFINE j == JobOf[w]
  <1>1. j \in Jobs /\ faults \in Nat
    BY DEF TypeOK
  <1>2. agent' \in [Workers -> ProcType] /\ worker' \in [Workers -> Stages]
    BY ExitFacts, GotoFacts DEF Commit, Check, Source, ClearBackup, MoveAside, PutInPlace, Tidy,
       Record, Stages, Committing, Checked, TypeOK, ProcType
  <1>3. nonceLog' \subseteq Nonces /\ sidecar' \in Workers \cup {None}
    BY NonceType DEF Commit, Check, Source, ClearBackup, MoveAside, PutInPlace, Tidy, Record,
       RecordNonce, TypeOK, disk
  <1>4. faults' \in Nat
    BY <1>1, FaultsType DEF Commit, Check, Source, ClearBackup, MoveAside, PutInPlace, Tidy, Record,
       Fault
  <1>5. target' \in Trees \cup {None, Partial} /\ backup' \in [Jobs -> Trees \cup {None, Partial}]
        /\ staged' \in [Jobs -> Workers \cup {None, Partial}]
    BY <1>1 DEF Commit, Check, Source, ClearBackup, MoveAside, PutInPlace, Tidy, Record,
       TypeOK, disk, Trees
  <1>6. UNCHANGED <<snapshot, valid, daemonUp, before, crowded, outrun>>
    BY DEF Commit, Check, Source, ClearBackup, MoveAside, PutInPlace, Tidy, Record, disk, history
  <1> QED BY <1>2, <1>3, <1>4, <1>5, <1>6 DEF TypeOK, ProcType

(* The death of processes keeps TypeOK. *)
LEMMA KillType ==
  ASSUME TypeOK, NEW ws, Kill(ws), daemonUp' \in BOOLEAN
  PROVE  TypeOK'
  <1>1. agent' \in [Workers -> ProcType]
    BY IdleFacts DEF Kill, TypeOK, ProcType
  <1>2. worker' \in [Workers -> Stages]
    BY DEF Kill, TypeOK, Broken, Stages
  <1>3. faults' \in Nat
    BY FaultsType DEF Kill, TypeOK, Fault
  <1> QED BY <1>1, <1>2, <1>3 DEF Kill, TypeOK, ProcType, disk, history

-----------------------------------------------------------------------------
(* Who is at work *)

(* An undisturbed process or attempt is as the invariant says, and alone. *)
LEMMA UndisturbedFacts ==
  ASSUME IInv, NEW w \in Workers, Undisturbed(w)
  PROVE  /\ OK(w)
         /\ Busy(w) \/ Active(w) => \A v \in Workers \ {w} : ~ Busy(v) /\ ~ Active(v)
  BY DEF IInv, Processes, Alone

(* A step of p or of its process keeps the invariant when it keeps what is said
   of p, if p is undisturbed, of the token and of the trees. *)
LEMMA StepKeeps ==
  ASSUME IInv, NEW p \in Workers, Busy(p) \/ Active(p), TypeOK',
         \A w \in Workers \ {p} : agent'[w] = agent[w] /\ worker'[w] = worker[w],
         UNCHANGED <<valid, crowded, outrun>>,
         Active(p)' => Active(p), worker'[p] # "idle",
         Undisturbed(p) => OK(p)',
         agent'[p].pc \in Checked => MayCommit(p)',
         crowded = {} => WholeTrees'
  PROVE  IInv'
  <1>1. OneActive'
    BY DEF IInv, OneActive, Active
  <1>2. Undisturbed(p)' => Undisturbed(p)
    BY DEF Undisturbed
  <1>3. ASSUME NEW w \in Workers \ {p}, Undisturbed(w)'
        PROVE  ~ Busy(w) /\ ~ Active(w) /\ ~ Busy(w)' /\ ~ Active(w)'
    BY <1>3, UndisturbedFacts DEF Undisturbed, Busy, Active
  <1>4. Alone'
    BY <1>2, <1>3, UndisturbedFacts DEF Alone, Busy, Active
  <1>5. ASSUME NEW w \in Workers \ {p}, Undisturbed(w)' PROVE OK(w)'
    BY <1>3, <1>5 DEF OK, WorkerOK, ProcessOK, Busy, Active, Ended, Committing, Checked, Restoring
  <1>6. Processes'
    BY <1>2, <1>5 DEF Processes
  <1>7. TokenHeld'
    BY DEF IInv, TokenHeld, MayCommit
  <1>8. WholeTrees'
    BY DEF WholeTrees
  <1>9. Dispatched'
    BY DEF IInv, Dispatched, Busy
  <1> QED BY <1>1, <1>4, <1>6, <1>7, <1>8, <1>9 DEF IInv

(* The same for a step that leaves the live tree, the backups and the archives
   as they are, or only drops a backup, and starts no restore. *)
LEMMA TreesKept ==
  ASSUME IInv, NEW p \in Workers, NEW s \in Stages,
         UNCHANGED <<crowded, snapshot>>,
         target' = target \/ target' = None \/ (\E i \in Jobs : target' = backup[i]) \/ target' \in Workers,
         \A i \in Jobs : backup'[i] \in {backup[i], None},
         worker' = [worker EXCEPT ![p] = s],
         worker[p] # "fallback" /\ worker[p] # "unrestored"
  PROVE  WholeTrees'
  <1> USE NamesFacts
  <1>1. \A w \in Workers : w # p => worker'[w] = worker[w]
    BY DEF IInv, TypeOK
  <1>2. worker'[p] = s /\ worker[p] \notin {"fallback", "unrestored"}
    BY DEF IInv, TypeOK
  <1>3. (\A w \in Workers : worker'[w] # "unrestored") => \A w \in Workers : worker[w] # "unrestored"
    BY <1>1, <1>2
  <1>4. (\E w \in Workers : worker[w] = "fallback") => \E w \in Workers : worker'[w] = "fallback"
    BY <1>1, <1>2
  <1> QED BY <1>3, <1>4 DEF IInv, WholeTrees

-----------------------------------------------------------------------------
(* The steps of a commit *)

(* In a commit: the process is at work, and if it is undisturbed it stands where
   the invariant says. *)
LEMMA CommitView ==
  ASSUME IInv, NEW w \in Workers, agent[w].pc \in Committing
  PROVE  /\ TypeOK /\ Busy(w) /\ worker[w] # "idle" /\ JobOf[w] \in Jobs
         /\ agent[w].pc \in Checked => MayCommit(w)
         /\ Undisturbed(w) => OK(w) /\ worker[w] \in {"committing", "failed"}
         /\ Undisturbed(w) /\ worker[w] = "committing" => snapshot[JobOf[w]] = before[w]
         /\ crowded = {} => Undisturbed(w)
  <1>1. Undisturbed(w) => OK(w)
    BY UndisturbedFacts
  <1>2. crowded = {} => Undisturbed(w)
    BY DEF Undisturbed
  <1> QED
    BY <1>1, <1>2, NamesFacts
    DEF IInv, TokenHeld, Dispatched, Busy, OK, WorkerOK, ProcessOK, Committing, Checked

(* A commit that goes on to its step c. *)
LEMMA AdvanceKeeps ==
  ASSUME IInv, NEW w \in Workers, agent[w].pc \in Committing, TypeOK',
         NEW c \in Checked, Goto(w, c),
         UNCHANGED <<worker, valid, snapshot, before, crowded, outrun>>,
         MayCommit(w), Undisturbed(w) => ProcessOK(w)', crowded = {} => WholeTrees'
  PROVE  IInv'
  <1>1. /\ TypeOK /\ Busy(w) /\ worker[w] # "idle"
        /\ Undisturbed(w) => OK(w) /\ worker[w] \in {"committing", "failed"}
    BY CommitView
  <1>2. /\ agent'[w].pc = c /\ agent'[w].by = agent[w].by
        /\ \A v \in Workers \ {w} : agent'[v] = agent[v]
    BY <1>1, GotoFacts DEF Committing
  <1>3. Undisturbed(w) => WorkerOK(w)'
    BY <1>1, <1>2 DEF OK, WorkerOK, Committing
  <1>4. Active(w)' => Active(w)
    BY DEF Active
  <1>5. MayCommit(w)'
    BY <1>2 DEF MayCommit
  <1> QED BY <1>1, <1>2, <1>3, <1>4, <1>5, StepKeeps DEF OK

(* A commit that ends, in s. *)
LEMMA EndKeeps ==
  ASSUME IInv, NEW w \in Workers, agent[w].pc \in Committing, TypeOK',
         NEW s \in {"failed", "verify"}, Exit(w, s),
         UNCHANGED <<valid, snapshot, before, crowded, outrun>>,
         Undisturbed(w) /\ s = "verify" => backup'[JobOf[w]] = before[w],
         target' = target \/ target' = None \/ \E i \in Jobs : target' = backup[i],
         \A i \in Jobs : backup'[i] \in {backup[i], None}
  PROVE  IInv'
  <1>1. /\ TypeOK /\ Busy(w) /\ worker[w] # "idle"
        /\ Undisturbed(w) => OK(w) /\ worker[w] \in {"committing", "failed"}
        /\ Undisturbed(w) /\ worker[w] = "committing" => snapshot[JobOf[w]] = before[w]
        /\ crowded = {} => Undisturbed(w)
    BY CommitView
  <1>2. /\ agent'[w] = IdleProc
        /\ worker'[w] = IF worker[w] \in Ended THEN worker[w] ELSE s
        /\ \A v \in Workers \ {w} : agent'[v] = agent[v] /\ worker'[v] = worker[v]
    BY <1>1, ExitFacts DEF Stages
  <1>3. Undisturbed(w) => worker'[w] = IF worker[w] = "failed" THEN "failed" ELSE s
    BY <1>1, <1>2 DEF Ended
  <1>4. Undisturbed(w) => OK(w)'
    BY <1>1, <1>2, <1>3, IdleFacts
    DEF OK, WorkerOK, ProcessOK, Busy, Committing, Checked, Restoring
  <1>5. crowded = {} => WholeTrees'
    <2> HAVE crowded = {}
    <2>1. worker[w] \in {"committing", "failed"}
      BY <1>1
    <2>2. \E t \in Stages : worker' = [worker EXCEPT ![w] = t]
      <3>1. CASE worker[w] \in Ended
        BY <1>1, <3>1 DEF TypeOK, Exit
      <3>2. CASE worker[w] \notin Ended
        BY <3>2 DEF Exit, Stages
      <3> QED BY <3>1, <3>2
    <2> QED BY <2>1, <2>2, TreesKept
  <1>6. ~ Busy(w)' /\ agent'[w].pc \notin Checked
    BY <1>2, IdleFacts DEF Busy, Checked
  <1>7. (Active(w)' => Active(w)) /\ worker'[w] # "idle"
    BY <1>1, <1>2 DEF Active
  <1> QED BY <1>1, <1>2, <1>4, <1>5, <1>6, <1>7, StepKeeps

(* The nonce, the identity and the token. *)
LEMMA CheckStep ==
  ASSUME IInv, NEW w \in Workers, Check(w)
  PROVE  IInv'
  <1> USE DEF At
  <1>1. TypeOK /\ TypeOK' /\ agent[w].pc = "check" /\ agent[w].pc \in Committing
    BY CommitType DEF Check, IInv, Commit, Committing
  <1>2. UNCHANGED <<target, backup, staged, sidecar, snapshot, valid, before, crowded, outrun>>
    BY DEF Check, disk, history
  <1>3. CASE Goto(w, "source") /\ UNCHANGED worker /\ MayCommit(w)
    <2>1. Undisturbed(w) => OK(w)
      BY <1>1, CommitView
    <2>2. agent'[w].pc = "source"
      BY <1>1, <1>3, GotoFacts DEF Committing, Checked
    <2>3. Undisturbed(w) => ProcessOK(w)'
      BY <1>1, <1>2, <1>3, <2>1, <2>2 DEF OK, ProcessOK, Committing, Checked, Restoring
    <2>4. crowded = {} => WholeTrees'
      BY <1>2, <1>3 DEF IInv, WholeTrees
    <2>5. "source" \in Checked
      BY DEF Checked
    <2> QED BY <1>1, <1>2, <1>3, <2>3, <2>4, <2>5, AdvanceKeeps
  <1>4. CASE Exit(w, "failed")
    BY <1>1, <1>2, <1>4, EndKeeps
  <1> QED BY <1>3, <1>4 DEF Check, MayCommit

(* The source that is gone, or the sidecar. *)
LEMMA SourceStep ==
  ASSUME IInv, NEW w \in Workers, Source(w)
  PROVE  IInv'
  <1> USE DEF At
  <1>1. TypeOK /\ TypeOK' /\ agent[w].pc = "source" /\ agent[w].pc \in Committing
        /\ agent[w].pc \in Checked
    BY CommitType DEF Source, IInv, Commit, Committing, Checked
  <1>2. UNCHANGED <<target, backup, staged, snapshot, valid, before, crowded, outrun>>
    BY DEF Source, history
  <1>3. (Undisturbed(w) => OK(w)) /\ MayCommit(w)
    BY <1>1, CommitView
  <1>4. CASE staged[JobOf[w]] = None /\ (Exit(w, "verify") \/ Exit(w, "failed"))
    <2>1. ~ Undisturbed(w)
      BY <1>1, <1>3, <1>4, NamesFacts DEF OK, ProcessOK
    <2> QED BY <1>1, <1>2, <1>4, <2>1, EndKeeps
  <1>5. CASE Exit(w, "failed")
    BY <1>1, <1>2, <1>5, EndKeeps
  <1>6. CASE Goto(w, "clear") /\ UNCHANGED worker
    <2>1. agent'[w].pc = "clear"
      BY <1>1, <1>6, GotoFacts DEF Committing, Checked
    <2>2. Undisturbed(w) => ProcessOK(w)'
      BY <1>1, <1>2, <1>3, <1>6, <2>1 DEF OK, ProcessOK, Committing, Checked, Restoring
    <2>3. crowded = {} => WholeTrees'
      BY <1>2, <1>6 DEF IInv, WholeTrees
    <2>4. "clear" \in Checked
      BY DEF Checked
    <2> QED BY <1>1, <1>2, <1>3, <1>6, <2>2, <2>3, <2>4, AdvanceKeeps
  <1> QED BY <1>4, <1>5, <1>6 DEF Source

(* os.RemoveAll of the backup of an earlier attempt. *)
LEMMA ClearStep ==
  ASSUME IInv, NEW w \in Workers, ClearBackup(w)
  PROVE  IInv'
  <1> USE DEF At
  <1>1. TypeOK /\ TypeOK' /\ agent[w].pc = "clear" /\ agent[w].pc \in Committing
        /\ agent[w].pc \in Checked /\ JobOf[w] \in Jobs
    BY CommitType, NamesFacts DEF ClearBackup, IInv, Commit, Committing, Checked
  <1>2. /\ UNCHANGED <<target, staged, snapshot, valid, before, crowded, outrun, worker>>
        /\ Goto(w, "aside")
    BY DEF ClearBackup, history
  <1>3. (Undisturbed(w) => OK(w)) /\ MayCommit(w)
    BY <1>1, CommitView
  <1>4. agent'[w].pc = "aside"
    BY <1>1, <1>2, GotoFacts DEF Committing, Checked
  <1>5. backup'[JobOf[w]] = None /\ \A i \in Jobs : backup'[i] \in {backup[i], None}
    BY <1>1 DEF ClearBackup, TypeOK
  <1>6. Undisturbed(w) => ProcessOK(w)'
    BY <1>1, <1>2, <1>3, <1>4, <1>5 DEF OK, ProcessOK, Committing, Checked, Restoring
  <1>7. crowded = {} => WholeTrees'
    BY <1>2, <1>5, NamesFacts DEF IInv, WholeTrees
  <1>8. "aside" \in Checked
    BY DEF Checked
  <1> QED BY <1>1, <1>2, <1>3, <1>6, <1>7, <1>8, AdvanceKeeps

(* The first rename: what goes into the backup is the tree of the snapshot. *)
LEMMA MoveAsideStep ==
  ASSUME IInv, NEW w \in Workers, MoveAside(w)
  PROVE  IInv'
  <1> USE DEF At
  <1> DEFINE j == JobOf[w]
  <1>1. TypeOK /\ TypeOK' /\ agent[w].pc = "aside" /\ agent[w].pc \in Committing
        /\ agent[w].pc \in Checked /\ j \in Jobs
    BY CommitType, NamesFacts DEF MoveAside, IInv, Commit, Committing, Checked
  <1>2. UNCHANGED <<staged, snapshot, valid, before, crowded, outrun>>
    BY DEF MoveAside, history
  <1>3. (Undisturbed(w) => OK(w) /\ worker[w] \in {"committing", "failed"}) /\ MayCommit(w)
        /\ (crowded = {} => Undisturbed(w))
    BY <1>1, CommitView
  <1>4. CASE Exit(w, "failed") /\ UNCHANGED <<target, backup>>
    BY <1>1, <1>2, <1>4, EndKeeps
  <1>5. CASE /\ IF target # None
                THEN target' = None /\ backup' = [backup EXCEPT ![j] = target]
                ELSE UNCHANGED <<target, backup>>
             /\ Goto(w, "place") /\ UNCHANGED worker
    <2>1. agent'[w].pc = "place"
      BY <1>1, <1>5, GotoFacts DEF Committing, Checked
    <2>2. \A i \in Jobs : backup'[i] = IF target # None /\ i = j THEN target ELSE backup[i]
      BY <1>1, <1>5 DEF TypeOK
    <2>3. Undisturbed(w) => ProcessOK(w)'
      BY <1>1, <1>2, <1>3, <1>5, <2>1, <2>2 DEF OK, ProcessOK, Committing, Checked, Restoring
    <2>4. crowded = {} => WholeTrees'
      <3> HAVE crowded = {}
      <3>1. Undisturbed(w) /\ Busy(w) /\ worker[w] \in {"committing", "failed"}
        BY <1>1, <1>3 DEF Busy
      <3>2. \A v \in Workers : worker[v] # "fallback"
        BY <3>1, UndisturbedFacts DEF Active, Ended
      <3>3. target' = None
        BY <1>5
      <3> QED BY <1>1, <1>2, <1>5, <2>2, <3>2, <3>3, NamesFacts DEF IInv, WholeTrees
    <2>5. "place" \in Checked
      BY DEF Checked
    <2> QED BY <1>1, <1>2, <1>3, <1>5, <2>3, <2>4, <2>5, AdvanceKeeps
  <1> QED BY <1>4, <1>5 DEF MoveAside

(* The second rename: the staged tree is whole, and its own. *)
LEMMA PutInPlaceStep ==
  ASSUME IInv, NEW w \in Workers, PutInPlace(w)
  PROVE  IInv'
  <1> USE DEF At
  <1> DEFINE j == JobOf[w]
  <1>1. TypeOK /\ TypeOK' /\ agent[w].pc = "place" /\ agent[w].pc \in Committing
        /\ agent[w].pc \in Checked /\ j \in Jobs
    BY CommitType, NamesFacts DEF PutInPlace, IInv, Commit, Committing, Checked
  <1>2. UNCHANGED <<snapshot, valid, before, crowded, outrun>>
    BY DEF PutInPlace, history
  <1>3. (Undisturbed(w) => OK(w) /\ worker[w] \in {"committing", "failed"}) /\ MayCommit(w)
        /\ (crowded = {} => Undisturbed(w))
    BY <1>1, CommitView
  <1>4. CASE /\ target = None /\ target' = staged[j] /\ UNCHANGED <<backup, worker>>
             /\ staged[j] # None /\ staged' = [staged EXCEPT ![j] = None] /\ Goto(w, "tidy")
    <2>1. agent'[w].pc = "tidy"
      BY <1>1, <1>4, GotoFacts DEF Committing, Checked
    <2>2. Undisturbed(w) => ProcessOK(w)'
      BY <1>1, <1>2, <1>3, <1>4, <2>1 DEF OK, ProcessOK, Committing, Checked, Restoring
    <2>3. crowded = {} => WholeTrees'
      <3> HAVE crowded = {}
      <3>1. target' = w
        BY <1>1, <1>3, <1>4 DEF OK, ProcessOK
      <3> QED BY <1>2, <1>4, <3>1, NamesFacts DEF IInv, WholeTrees
    <2>4. "tidy" \in Checked
      BY DEF Checked
    <2> QED BY <1>1, <1>2, <1>3, <1>4, <2>2, <2>3, <2>4, AdvanceKeeps
  <1>5. CASE /\ Exit(w, "failed")
             /\ \/ target' = backup[j] /\ backup' = [backup EXCEPT ![j] = None]
                \/ UNCHANGED <<target, backup>>
    <2>1. \A i \in Jobs : backup'[i] \in {backup[i], None}
      BY <1>1, <1>5 DEF TypeOK
    <2>2. target' = target \/ \E i \in Jobs : target' = backup[i]
      BY <1>1, <1>5
    <2> QED BY <1>1, <1>2, <1>5, <2>1, <2>2, EndKeeps
  <1> QED BY <1>4, <1>5 DEF PutInPlace

(* The removal of the sidecar. *)
LEMMA TidyStep ==
  ASSUME IInv, NEW w \in Workers, Tidy(w)
  PROVE  IInv'
  <1> USE DEF At
  <1>1. TypeOK /\ TypeOK' /\ agent[w].pc = "tidy" /\ agent[w].pc \in Committing
        /\ agent[w].pc \in Checked
    BY CommitType DEF Tidy, IInv, Commit, Committing, Checked
  <1>2. /\ UNCHANGED <<target, backup, staged, snapshot, valid, before, crowded, outrun, worker>>
        /\ Goto(w, "record")
    BY DEF Tidy, history
  <1>3. (Undisturbed(w) => OK(w)) /\ MayCommit(w)
    BY <1>1, CommitView
  <1>4. agent'[w].pc = "record"
    BY <1>1, <1>2, GotoFacts DEF Committing, Checked
  <1>5. Undisturbed(w) => ProcessOK(w)'
    BY <1>1, <1>2, <1>3, <1>4 DEF OK, ProcessOK, Committing, Checked, Restoring
  <1>6. crowded = {} => WholeTrees'
    BY <1>2 DEF IInv, WholeTrees
  <1>7. "record" \in Checked
    BY DEF Checked
  <1> QED BY <1>1, <1>2, <1>3, <1>5, <1>6, <1>7, AdvanceKeeps

(* The nonce log, and the end of a commit. *)
LEMMA RecordStep ==
  ASSUME IInv, NEW w \in Workers, Record(w)
  PROVE  IInv'
  <1> USE DEF At
  <1>1. TypeOK /\ TypeOK' /\ agent[w].pc = "record" /\ agent[w].pc \in Committing
    BY CommitType DEF Record, IInv, Commit, Committing, Checked
  <1>2. /\ UNCHANGED <<target, backup, staged, snapshot, valid, before, crowded, outrun>>
        /\ Exit(w, "verify")
    BY DEF Record, history
  <1>3. Undisturbed(w) => backup[JobOf[w]] = before[w]
    BY <1>1, CommitView DEF OK, ProcessOK
  <1> QED BY <1>1, <1>2, <1>3, EndKeeps

(* Every step of doCommit keeps the invariant. *)
LEMMA CommitStep ==
  ASSUME IInv, NEW w \in Workers, Commit(w)
  PROVE  IInv'
  BY CheckStep, SourceStep, ClearStep, MoveAsideStep, PutInPlaceStep, TidyStep, RecordStep DEF Commit

-----------------------------------------------------------------------------
(* The steps of a worker's scripts *)

(* A step of the scripts of w that leads to stage s keeps the invariant when it
   keeps what is said of w, if w is undisturbed, and of the trees. *)
LEMMA ScriptKeeps ==
  ASSUME IInv, NEW w \in Workers, Active(w), TypeOK', NEW s \in Stages \ {"idle"},
         worker' = [worker EXCEPT ![w] = s],
         \A v \in Workers \ {w} : agent'[v] = agent[v],
         UNCHANGED <<valid, crowded, outrun>>,
         Undisturbed(w) => OK(w)',
         agent'[w].pc \in Checked => agent'[w] = agent[w],
         crowded = {} => WholeTrees'
  PROVE  IInv'
  <1>1. /\ \A v \in Workers \ {w} : worker'[v] = worker[v]
        /\ worker'[w] = s
    BY DEF IInv, TypeOK
  <1>2. agent'[w].pc \in Checked => MayCommit(w)'
    BY DEF IInv, TokenHeld, MayCommit
  <1> QED BY <1>1, <1>2, StepKeeps

(* snapshot-export: the tree that is archived is whole. *)
LEMMA SnapshotStep ==
  ASSUME IInv, NEW w \in Workers, SnapshotExport(w)
  PROVE  IInv'
  <1> DEFINE j == JobOf[w]
  <1>1. TypeOK /\ TypeOK' /\ Active(w) /\ worker[w] = "started" /\ j \in Jobs
    BY ScriptType, NamesFacts DEF Scripts, SnapshotExport, IInv, Active, Ended
  <1>2. UNCHANGED <<target, backup, staged, sidecar, nonceLog, valid, agent, crowded, outrun>>
    BY DEF SnapshotExport, disk, history
  <1>3. Undisturbed(w) => agent[w].pc = "idle" /\ OK(w)
    BY <1>1, UndisturbedFacts DEF OK, WorkerOK, Busy
  <1>4. \A v \in Workers : worker[v] # "fallback"
    BY <1>1 DEF IInv, OneActive, Active, Ended
  <1>5. CASE /\ target # None
             /\ snapshot' = [snapshot EXCEPT ![j] = target]
             /\ before' = [before EXCEPT ![w] = target]
             /\ worker' = [worker EXCEPT ![w] = "snapped"]
    <2>1. /\ worker'[w] = "snapped" /\ before'[w] = target
          /\ \A i \in Jobs : snapshot'[i] = IF i = j THEN target ELSE snapshot[i]
          /\ \A v \in Workers : worker'[v] = "unrestored" <=> worker[v] = "unrestored"
      BY <1>1, <1>5 DEF TypeOK
    <2>2. Undisturbed(w) => OK(w)'
      BY <1>1, <1>2, <1>3, <1>5, <2>1
      DEF OK, WorkerOK, ProcessOK, Busy, Committing, Checked, Restoring
    <2>3. crowded = {} => WholeTrees'
      BY <1>1, <1>2, <1>4, <2>1, NamesFacts DEF IInv, WholeTrees
    <2> QED BY <1>1, <1>2, <1>5, <2>2, <2>3, ScriptKeeps DEF Stages
  <1>6. CASE worker' = [worker EXCEPT ![w] = "failed"] /\ UNCHANGED <<snapshot, before>>
    <2>1. worker'[w] = "failed"
      BY <1>1, <1>6 DEF TypeOK
    <2>2. Undisturbed(w) => OK(w)'
      BY <1>2, <1>3, <2>1 DEF OK, WorkerOK, ProcessOK, Busy, Committing, Checked, Restoring
    <2>3. "failed" \in Stages \ {"idle"}
      BY DEF Stages
    <2>4. crowded = {} => WholeTrees'
      BY <1>1, <1>2, <1>6, <2>3, TreesKept
    <2> QED BY <1>1, <1>2, <1>6, <2>2, <2>3, <2>4, ScriptKeeps
  <1> QED BY <1>5, <1>6 DEF SnapshotExport

(* stage-receive: the tree is whole when the script goes on. *)
LEMMA StageStep ==
  ASSUME IInv, NEW w \in Workers, StageReceive(w)
  PROVE  IInv'
  <1> DEFINE j == JobOf[w]
  <1>1. TypeOK /\ TypeOK' /\ Active(w) /\ worker[w] = "snapped" /\ j \in Jobs
    BY ScriptType, NamesFacts DEF Scripts, StageReceive, IInv, Active, Ended
  <1>2. UNCHANGED <<target, backup, snapshot, valid, agent, before, crowded, outrun>>
    BY DEF StageReceive, history
  <1>3. PICK s \in {"staged", "failed"} :
          /\ worker' = [worker EXCEPT ![w] = s]
          /\ s = "staged" => staged' = [staged EXCEPT ![j] = w]
    BY DEF StageReceive
  <1>4. worker'[w] = s /\ (s = "staged" => staged'[j] = w)
    BY <1>1, <1>3 DEF TypeOK
  <1>5. Undisturbed(w) => agent[w].pc = "idle" /\ OK(w)
    BY <1>1, UndisturbedFacts DEF OK, WorkerOK, Busy
  <1>6. Undisturbed(w) => OK(w)'
    BY <1>1, <1>2, <1>4, <1>5 DEF OK, WorkerOK, ProcessOK, Busy, Committing, Checked, Restoring
  <1>7. s \in Stages \ {"idle"}
    BY DEF Stages
  <1>8. crowded = {} => WholeTrees'
    BY <1>1, <1>2, <1>3, <1>7, TreesKept
  <1> QED BY <1>1, <1>2, <1>3, <1>6, <1>7, <1>8, ScriptKeeps

(* The commit verb begins with the token and the nonce unchecked. *)
LEMMA CommitVerbStep ==
  ASSUME IInv, NEW w \in Workers, CommitVerb(w)
  PROVE  IInv'
  <1>1. TypeOK /\ TypeOK' /\ Active(w) /\ worker[w] = "staged"
    BY ScriptType DEF Scripts, CommitVerb, IInv, Active, Ended
  <1>2. /\ UNCHANGED <<target, backup, staged, snapshot, valid, before, crowded, outrun>>
        /\ worker' = [worker EXCEPT ![w] = "committing"]
    BY DEF CommitVerb, disk, history
  <1>3. /\ worker'[w] = "committing"
        /\ \A v \in Workers \ {w} : agent'[v] = agent[v]
        /\ agent'[w].pc = "check"
    BY <1>1 DEF CommitVerb, TypeOK
  <1>4. Undisturbed(w) => OK(w)
    BY UndisturbedFacts
  <1>5. Undisturbed(w) => OK(w)'
    BY <1>1, <1>2, <1>3, <1>4 DEF OK, WorkerOK, ProcessOK, Busy, Committing, Checked, Restoring
  <1>6. "committing" \in Stages \ {"idle"} /\ "check" \notin Checked
    BY DEF Stages, Checked
  <1>7. crowded = {} => WholeTrees'
    BY <1>1, <1>2, <1>6, TreesKept
  <1> QED BY <1>1, <1>2, <1>3, <1>5, <1>6, <1>7, ScriptKeeps

(* The reimport changes nothing on the disk. *)
LEMMA VerifyStep ==
  ASSUME IInv, NEW w \in Workers, Verify(w)
  PROVE  IInv'
  <1>1. TypeOK /\ TypeOK' /\ Active(w) /\ worker[w] = "verify"
    BY ScriptType DEF Scripts, Verify, IInv, Active, Ended
  <1>2. UNCHANGED <<target, backup, staged, snapshot, valid, before, crowded, outrun, agent>>
    BY DEF Verify, disk, history
  <1>3. PICK s \in {"completed", "rollback"} : worker' = [worker EXCEPT ![w] = s]
    BY DEF Verify
  <1>4. worker'[w] = s
    BY <1>1, <1>3 DEF TypeOK
  <1>5. Undisturbed(w) => OK(w)'
    BY <1>1, <1>2, <1>4, UndisturbedFacts
    DEF OK, WorkerOK, ProcessOK, Busy, Committing, Checked, Restoring
  <1>6. s \in Stages \ {"idle"}
    BY DEF Stages
  <1>7. crowded = {} => WholeTrees'
    BY <1>1, <1>2, <1>3, <1>6, TreesKept
  <1> QED BY <1>1, <1>2, <1>3, <1>5, <1>6, <1>7, ScriptKeeps

(* The choice between archive and backup. *)
LEMMA RestoreVerbStep ==
  ASSUME IInv, NEW w \in Workers, RestoreVerb(w)
  PROVE  IInv'
  <1>1. TypeOK /\ TypeOK' /\ Active(w) /\ worker[w] \in {"rollback", "fallback"} /\ agent[w].pc = "idle"
    BY ScriptType DEF Scripts, RestoreVerb, IInv, Active, Ended
  <1>2. UNCHANGED <<target, backup, staged, snapshot, valid, before, crowded, outrun>>
    BY DEF RestoreVerb, disk, history
  <1>3. Undisturbed(w) => OK(w)
    BY UndisturbedFacts
  <1>4. CASE Goto(w, "wipe") /\ UNCHANGED worker
    <2>1. /\ \A v \in Workers \ {w} : agent'[v] = agent[v]
          /\ agent'[w].pc = "wipe"
      BY <1>1, <1>4, GotoFacts DEF Restoring
    <2>2. Undisturbed(w) => OK(w)'
      BY <1>1, <1>2, <1>3, <1>4, <2>1
      DEF OK, WorkerOK, ProcessOK, Busy, Committing, Checked, Restoring
    <2>3. crowded = {} => WholeTrees'
      BY <1>2, <1>4 DEF IInv, WholeTrees
    <2>4. worker[w] \in Stages \ {"idle"} /\ worker' = [worker EXCEPT ![w] = worker[w]]
      BY <1>1, <1>4 DEF TypeOK, Stages
    <2> QED BY <1>1, <1>2, <2>1, <2>2, <2>3, <2>4, ScriptKeeps DEF Checked
  <1>5. ASSUME NEW s, worker' = [worker EXCEPT ![w] = s], UNCHANGED agent,
               <<worker[w], s>> \in {<<"rollback", "fallback">>, <<"fallback", "unrestored">>}
        PROVE  IInv'
    <2>1. /\ worker'[w] = s /\ s \in Stages \ {"idle"}
          /\ \A v \in Workers \ {w} : worker'[v] = worker[v]
      BY <1>1, <1>5 DEF TypeOK, Stages
    <2>2. Undisturbed(w) => OK(w)'
      BY <1>1, <1>2, <1>3, <1>5, <2>1
      DEF OK, WorkerOK, ProcessOK, Busy, Committing, Checked, Restoring
    <2>3. crowded = {} => WholeTrees'
      BY <1>1, <1>2, <1>5, <2>1 DEF IInv, WholeTrees
    <2> QED BY <1>1, <1>2, <1>5, <2>1, <2>2, <2>3, ScriptKeeps
  <1> QED BY <1>4, <1>5 DEF RestoreVerb

(* handleRestore removes the live tree, and puts archive or backup in its place,
   or half of it.  In an attempt that was disturbed nothing is said of it. *)
LEMMA RestoreStep ==
  ASSUME IInv, NEW w \in Workers, Wipe(w) \/ PutBack(w)
  PROVE  IInv'
  <1> USE DEF At
  <1> DEFINE j == JobOf[w]
  <1>1. /\ TypeOK /\ TypeOK' /\ agent[w].pc \in Restoring /\ Busy(w) /\ j \in Jobs
        /\ worker[w] # "idle"
    BY ScriptType, NamesFacts DEF Scripts, Wipe, PutBack, IInv, Restoring, Busy, Dispatched
  <1>2. /\ UNCHANGED <<staged, sidecar, nonceLog, snapshot, valid, before, crowded, outrun>>
        /\ crowded = {} => Undisturbed(w)
    BY DEF Wipe, PutBack, history, Undisturbed
  <1>3. Undisturbed(w) => /\ OK(w) /\ worker[w] \in {"rollback", "fallback"} /\ Active(w)
                          /\ agent[w].pc = "put" => target = None
    BY <1>1, UndisturbedFacts DEF OK, ProcessOK, Active, Ended
  <1>4. CASE Wipe(w)
    <2>1. Goto(w, "put") /\ target' = None /\ UNCHANGED <<backup, worker>>
      BY <1>4 DEF Wipe
    <2>2. /\ \A v \in Workers \ {w} : agent'[v] = agent[v]
          /\ agent'[w].pc = "put"
      BY <1>1, <2>1, GotoFacts DEF Restoring
    <2>3. Undisturbed(w) => OK(w)'
      BY <1>2, <1>3, <2>1, <2>2 DEF OK, WorkerOK, ProcessOK, Busy, Committing, Checked, Restoring
    <2>4. crowded = {} => WholeTrees'
      BY <1>2, <2>1, NamesFacts DEF IInv, WholeTrees
    <2>5. (Active(w)' => Active(w)) /\ agent'[w].pc \notin Checked
      BY <2>1, <2>2 DEF Active, Checked
    <2> QED BY <1>1, <1>2, <2>1, <2>2, <2>3, <2>4, <2>5, StepKeeps
  <1>5. ASSUME NEW s \in {"rolledback", "fallback", "unrestored"}, Exit(w, s),
               Undisturbed(w) =>
                  \/ s = "rolledback" /\ target' \in {snapshot[j], backup[j]}
                     /\ \A i \in Jobs : backup'[i] \in {backup[i], None}
                  \/ <<worker[w], s>> \in {<<"rollback", "fallback">>, <<"fallback", "unrestored">>}
                     /\ UNCHANGED backup
        PROVE  IInv'
    <2>1. /\ agent'[w] = IdleProc
          /\ worker'[w] = IF worker[w] \in Ended THEN worker[w] ELSE s
          /\ \A v \in Workers \ {w} : agent'[v] = agent[v] /\ worker'[v] = worker[v]
      BY <1>1, <1>5, ExitFacts DEF Stages
    <2>2. Undisturbed(w) => worker'[w] = s
      BY <1>3, <2>1 DEF Ended
    <2>3. Undisturbed(w) => OK(w)'
      BY <1>2, <1>3, <1>5, <2>1, <2>2, IdleFacts
      DEF OK, WorkerOK, ProcessOK, Busy, Committing, Checked, Restoring
    <2>4. crowded = {} => WholeTrees'
      BY <1>1, <1>2, <1>3, <1>5, <2>1, <2>2, NamesFacts DEF IInv, WholeTrees
    <2>5. (Active(w)' => Active(w)) /\ agent'[w].pc \notin Checked /\ worker'[w] # "idle"
      BY <1>1, <2>1, IdleFacts DEF Active, Checked
    <2> QED BY <1>1, <1>2, <2>1, <2>3, <2>4, <2>5, StepKeeps
  <1>6. CASE PutBack(w)
    <2>1. agent[w].pc = "put"
      BY <1>6 DEF PutBack
    <2>2. \A i \in Jobs : [backup EXCEPT ![j] = None][i] \in {backup[i], None}
      BY <1>1 DEF TypeOK
    <2>3. CASE /\ target' = IF target = None
                            THEN IF worker[w] = "rollback" THEN snapshot[j] ELSE backup[j]
                            ELSE Partial
               /\ backup' = IF worker[w] = "rollback" THEN backup ELSE [backup EXCEPT ![j] = None]
               /\ Exit(w, "rolledback")
      BY <1>3, <1>5, <2>1, <2>2, <2>3
    <2>4. CASE /\ Exit(w, IF worker[w] = "rollback" THEN "fallback" ELSE "unrestored")
               /\ UNCHANGED backup
      BY <1>3, <1>5, <2>4
    <2> QED BY <1>6, <2>3, <2>4 DEF PutBack
  <1> QED BY <1>4, <1>6

(* A worker that lost its connection: its process keeps what it had. *)
LEMMA DisconnectStep ==
  ASSUME IInv, NEW w \in Workers, Disconnect(w)
  PROVE  IInv'
  <1>1. TypeOK /\ TypeOK' /\ worker[w] = "committing" /\ Active(w)
    BY ScriptType DEF Disconnect, IInv, Active, Ended
  <1>2. /\ UNCHANGED <<target, backup, staged, snapshot, valid, before, agent, crowded, outrun>>
        /\ worker' = [worker EXCEPT ![w] = "failed"]
    BY DEF Disconnect, disk, history
  <1>3. worker'[w] = "failed"
    BY <1>1, <1>2 DEF TypeOK
  <1>4. Undisturbed(w) => OK(w)'
    BY <1>1, <1>2, <1>3, UndisturbedFacts
    DEF OK, WorkerOK, ProcessOK, Busy, Committing, Checked, Restoring
  <1>5. "failed" \in Stages \ {"idle"}
    BY DEF Stages
  <1>6. crowded = {} => WholeTrees'
    BY <1>1, <1>2, <1>5, TreesKept
  <1> QED BY <1>1, <1>2, <1>4, <1>5, <1>6, ScriptKeeps

-----------------------------------------------------------------------------
(* Dispatch, the lock and the faults *)

(* Another token: whoever is past the check of the old one is outrun. *)
LEMMA ValidateHeld ==
  ASSUME IInv, NEW t, Validate(t), UNCHANGED agent
  PROVE  TokenHeld'
  <1>1. ASSUME NEW w \in Workers, agent[w].pc \in Checked PROVE MayCommit(w)'
    <2>1. CASE t = valid
      BY <1>1, <2>1 DEF IInv, TokenHeld, MayCommit, Validate
    <2>2. CASE t # valid
      BY <1>1, <2>2 DEF MayCommit, Validate
    <2> QED BY <2>1, <2>2
  <1> QED BY <1>1 DEF TokenHeld

(* A dispatch beside a process at work is noted. *)
LEMMA DispatchStep ==
  ASSUME IInv, NEW w \in Workers, Dispatch(w)
  PROVE  IInv'
  <1>1. /\ TypeOK /\ TypeOK' /\ worker[w] = "idle"
        /\ \A v \in Workers : ~ Active(v)
    BY ScriptType DEF Dispatch, IInv, Active
  <1>2. UNCHANGED <<target, backup, staged, snapshot, before, agent>>
    BY DEF Dispatch, disk
  <1>3. /\ \A v \in Workers \ {w} : worker'[v] = worker[v]
        /\ worker'[w] = "started"
    BY <1>1 DEF Dispatch, TypeOK
  <1>4. crowded \subseteq crowded' /\ (Resting \/ w \in crowded') /\ ~ Busy(w)
    BY <1>1 DEF Dispatch, IInv, Dispatched, Busy
  <1>5. OneActive' /\ Dispatched'
    BY <1>1, <1>2, <1>3 DEF OneActive, Active, IInv, Dispatched, Busy
  <1>6. \A v \in Workers \ {w} : Undisturbed(v)' => crowded' = {}
    BY <1>1, <1>3 DEF Undisturbed, Active
  <1>7. Undisturbed(w)' => Resting
    BY <1>3, <1>4 DEF Undisturbed, Active, Ended
  <1>8. Alone'
    BY <1>1, <1>2, <1>3, <1>4, <1>6, <1>7 DEF Alone, Resting, Busy, Active
  <1>9. ASSUME NEW v \in Workers, Undisturbed(v)' PROVE OK(v)'
    <2>1. Resting
      BY <1>4, <1>6, <1>7, <1>9
    <2>2. agent'[v].pc = "idle" /\ worker'[v] \in Ended \cup {"idle", "started"}
      BY <1>1, <1>2, <1>3, <2>1 DEF Active, Resting
    <2> QED BY <2>2 DEF OK, WorkerOK, ProcessOK, Ended, Committing, Checked, Restoring, Busy
  <1>10. TokenHeld'
    BY <1>2, ValidateHeld DEF Dispatch
  <1>11. WholeTrees'
    BY <1>1, <1>2, <1>3, <1>4 DEF IInv, WholeTrees, Active, Ended
  <1> QED BY <1>1, <1>5, <1>8, <1>9, <1>10, <1>11 DEF IInv, Processes

(* So is the loss of the lock, and that the daemon starts changes nothing. *)
LEMMA LockLostStep ==
  ASSUME IInv, LockLost \/ DaemonStart
  PROVE  IInv'
  <1>1. UNCHANGED <<disk, snapshot, agent, worker, before, crowded, faults>> /\ daemonUp' \in BOOLEAN
    BY DEF LockLost, DaemonStart, IInv, TypeOK, history
  <1>2. TypeOK'
    BY <1>1, ValidateType DEF LockLost, DaemonStart, IInv, TypeOK, disk, history
  <1>3. TokenHeld'
    BY <1>1, ValidateHeld DEF LockLost, DaemonStart, history, IInv, TokenHeld, MayCommit
  <1>4. OneActive' /\ Dispatched' /\ Alone' /\ WholeTrees'
    BY <1>1 DEF IInv, OneActive, Dispatched, Alone, WholeTrees, Undisturbed, Busy, Active, disk
  <1>5. Processes'
    BY <1>1 DEF IInv, Processes, OK, WorkerOK, ProcessOK, Undisturbed, Busy, Active, disk
  <1> QED BY <1>2, <1>3, <1>4, <1>5 DEF IInv

(* Processes that die leave the stores as they are. *)
LEMMA KillStep ==
  ASSUME IInv, NEW ws, Kill(ws), daemonUp' \in BOOLEAN
  PROVE  IInv'
  <1>1. TypeOK /\ TypeOK'
    BY KillType DEF IInv
  <1>2. UNCHANGED <<target, backup, staged, snapshot, valid, before, crowded, outrun>>
    BY DEF Kill, disk, history
  <1>3. \A w \in Workers : agent'[w] = agent[w] \/ agent'[w] = IdleProc
    BY DEF Kill
  <1>4. \A w \in Workers : \/ worker'[w] = worker[w] /\ (agent'[w] = agent[w] \/ agent[w].pc = "idle")
                           \/ worker'[w] = Broken(worker[w]) /\ agent'[w] = IdleProc
    BY <1>1 DEF Kill
  <1>5. \A w \in Workers : worker'[w] = worker[w] \/
          <<worker[w], worker'[w]>> \in {<<"committing", "failed">>, <<"rollback", "fallback">>,
                                         <<"fallback", "unrestored">>}
    BY <1>4 DEF Broken
  <1>6. \A w \in Workers : /\ Active(w)' => Active(w)
                           /\ Busy(w)' => Busy(w)
                           /\ Undisturbed(w)' => Undisturbed(w)
    <2>1. \A w \in Workers : (Active(w)' => Active(w)) /\ (Busy(w)' => Busy(w))
      BY <1>3, <1>5, IdleFacts DEF Active, Ended, Busy
    <2> QED BY <1>2, <2>1 DEF Undisturbed
  <1>7. OneActive' /\ Dispatched' /\ Alone'
    <2>1. OneActive' /\ Dispatched'
      BY <1>5, <1>6 DEF IInv, OneActive, Dispatched
    <2>2. Alone'
      BY <1>6 DEF IInv, Alone
    <2> QED BY <2>1, <2>2
  <1>8. ASSUME NEW w \in Workers, Undisturbed(w)' PROVE OK(w)'
    <2>1. OK(w)
      BY <1>6, <1>8, UndisturbedFacts
    <2>2. CASE worker'[w] = worker[w] /\ agent'[w] = agent[w]
      BY <1>2, <2>1, <2>2 DEF OK, WorkerOK, ProcessOK, Busy
    <2>3. CASE worker'[w] = worker[w] /\ agent[w].pc = "idle" /\ agent'[w] = IdleProc
      BY <1>2, <2>1, <2>3, IdleFacts
      DEF OK, WorkerOK, ProcessOK, Busy, Committing, Checked, Restoring
    <2>4. CASE worker'[w] = Broken(worker[w]) /\ agent'[w] = IdleProc
      <3>1. \/ worker'[w] = worker[w] /\ worker[w] # "committing"
            \/ worker[w] = "committing" /\ worker'[w] = "failed"
            \/ worker[w] = "rollback" /\ worker'[w] = "fallback"
            \/ worker[w] = "fallback" /\ worker'[w] = "unrestored"
        BY <2>4 DEF Broken
      <3> QED
        BY <1>2, <2>1, <2>4, <3>1, IdleFacts
        DEF OK, WorkerOK, ProcessOK, Busy, Committing, Checked, Restoring
    <2> QED BY <1>3, <1>4, <2>2, <2>3, <2>4
  <1>9. TokenHeld'
    BY <1>2, <1>3, IdleFacts DEF IInv, TokenHeld, MayCommit, Checked
  <1>10. WholeTrees'
    BY <1>2, <1>5 DEF IInv, WholeTrees
  <1> QED BY <1>1, <1>7, <1>8, <1>9, <1>10 DEF IInv, Processes

-----------------------------------------------------------------------------
(* The theorems *)

(* The invariant holds at first. *)
LEMMA InitIInv == Init => IInv
  <1> SUFFICES ASSUME Init PROVE IInv
    OBVIOUS
  <1>1. TypeOK
    BY IdleFacts, FaultsAssumption DEF Init, TypeOK, ProcType, Trees, Stages
  <1>2. \A w \in Workers : ~ Busy(w) /\ ~ Active(w)
    BY IdleFacts DEF Init, Busy, Active
  <1>3. Dispatched /\ OneActive /\ Alone
    BY <1>2 DEF Dispatched, OneActive, Alone
  <1>4. Processes /\ TokenHeld
    BY IdleFacts DEF Init, Processes, OK, WorkerOK, ProcessOK, TokenHeld, Committing, Checked, Restoring
  <1>5. WholeTrees
    BY NamesFacts DEF Init, WholeTrees
  <1> QED BY <1>1, <1>3, <1>4, <1>5 DEF IInv

(* The parts of the invariant hold together in every state, however processes of
   earlier attempts overlap with later ones. *)
THEOREM InductiveInvariant == Spec => []IInv
  <1>1. IInv /\ [Next]_vars => IInv'
    <2> SUFFICES ASSUME IInv, [Next]_vars PROVE IInv'
      OBVIOUS
    <2>1. ASSUME NEW w \in Workers, Dispatch(w) \/ Scripts(w) \/ Commit(w) \/ Disconnect(w)
          PROVE  IInv'
      BY <2>1, DispatchStep, SnapshotStep, StageStep, CommitVerbStep, VerifyStep, RestoreVerbStep,
         RestoreStep, CommitStep, DisconnectStep DEF Scripts
    <2>2. ASSUME NEW w \in Workers, AgentDies(w) PROVE IInv'
      BY <2>2, KillStep DEF AgentDies, IInv, TypeOK
    <2>3. CASE LockLost \/ DaemonStart \/ HostCrash
      BY <2>3, LockLostStep, KillStep DEF HostCrash
    <2>4. CASE UNCHANGED vars
      <3>1. TypeOK' /\ Dispatched' /\ OneActive' /\ Alone'
        BY <2>4 DEF vars, disk, history, IInv, TypeOK, Dispatched, OneActive, Alone, Undisturbed,
           Busy, Active
      <3>2. Processes' /\ TokenHeld' /\ WholeTrees'
        BY <2>4 DEF vars, disk, history, IInv, Processes, OK, WorkerOK, ProcessOK, TokenHeld, MayCommit,
           WholeTrees, Undisturbed, Busy, Active
      <3> QED BY <3>1, <3>2 DEF IInv
    <2> QED BY <2>1, <2>2, <2>3, <2>4 DEF Next
  <1> QED BY <1>1, InitIInv, PTL DEF Spec

(* While the worker of an attempt that was not dispatched beside a process at
   work verifies its commit, <target>.bak-<job> is the tree that was live when it
   took its snapshot, whatever its job did before and whoever comes late. *)
THEOREM BackupRetainedThm == Spec => []BackupRetained
  <1>1. IInv => BackupRetained
    BY DEF IInv, Processes, Undisturbed, Active, Ended, OK, WorkerOK, BackupRetained
  <1> QED BY <1>1, InductiveInvariant, PTL

(* As long as no attempt began beside a process at work, half a tree is live only
   between the failed restore of a rollback and its repetition, or after a
   rollback that gave up. *)
THEOREM WholeTreeLiveThm == Spec => []WholeTreeLive
  <1>1. IInv => WholeTreeLive
    BY DEF IInv, WholeTrees, WholeTreeLive
  <1> QED BY <1>1, InductiveInvariant, PTL

(* A rollback that reports success has put back the tree that was live before
   the commit, if the attempt did not begin beside a process at work. *)
THEOREM RollbackRestoresThm == Spec => RollbackRestores
  <1>1. ASSUME IInv, [Next]_vars, NEW w \in Workers \ crowded,
               worker[w] # "rolledback", worker'[w] = "rolledback"
        PROVE  target' = before[w]
    <2>1. TypeOK /\ Dispatched /\ Processes
      BY <1>1 DEF IInv
    <2>2. CASE PutBack(w)
      <3>1. worker[w] \notin Ended /\ worker[w] # "idle"
        <4>1. ASSUME NEW s, Exit(w, s), worker[w] \in Ended PROVE FALSE
          BY <1>1, <4>1 DEF Exit
        <4> QED BY <2>1, <2>2, <4>1 DEF PutBack, At, Dispatched, Busy
      <3>2. OK(w)
        BY <1>1, <2>1, <3>1 DEF Processes, Undisturbed, Active
      <3>3. worker[w] \in {"rollback", "fallback"} /\ target = None
        BY <2>2, <3>2 DEF PutBack, At, OK, ProcessOK, Restoring
      <3>4. ASSUME NEW s \in Stages, Exit(w, s), s # "rolledback" PROVE FALSE
        BY <1>1, <2>1, <3>1, <3>4, ExitFacts
      <3>5. target' = IF worker[w] = "rollback" THEN snapshot[JobOf[w]] ELSE backup[JobOf[w]]
        BY <2>2, <3>3, <3>4 DEF PutBack, Stages
      <3> QED BY <3>2, <3>3, <3>5 DEF OK, WorkerOK
    <2>3. ASSUME NEW v \in Workers, v # w, PutBack(v) PROVE FALSE
      BY <1>1, <2>1, <2>3, ExitFacts DEF PutBack, Stages
    <2>4. ASSUME NEW v \in Workers, Dispatch(v) \/ Disconnect(v) PROVE FALSE
      BY <1>1, <2>1, <2>4 DEF Dispatch, Disconnect, TypeOK
    <2>5. ASSUME NEW v \in Workers, SnapshotExport(v) \/ StageReceive(v) \/ CommitVerb(v) \/ Verify(v)
                 \/ RestoreVerb(v) \/ Wipe(v) PROVE FALSE
      BY <1>1, <2>1, <2>5 DEF SnapshotExport, StageReceive, CommitVerb, Verify, RestoreVerb, Wipe, TypeOK
    <2>6. ASSUME NEW v \in Workers, Commit(v) PROVE FALSE
      <3>1. \/ UNCHANGED worker \/ Exit(v, "failed") \/ Exit(v, "verify")
        BY <2>6 DEF Commit, Check, Source, ClearBackup, MoveAside, PutInPlace, Tidy, Record
      <3> QED BY <1>1, <2>1, <3>1, ExitFacts DEF Stages
    <2>7. ASSUME NEW ws, Kill(ws) PROVE FALSE
      BY <1>1, <2>1, <2>7 DEF Kill, Broken
    <2> QED
      BY <1>1, <2>2, <2>3, <2>4, <2>5, <2>6, <2>7
      DEF Next, Scripts, AgentDies, HostCrash, DaemonStart, LockLost, vars
  <1>2. IInv /\ [Next]_vars =>
          [\A w \in Workers \ crowded :
              worker[w] # "rolledback" /\ worker'[w] = "rolledback" => target' = before[w]]_vars
    BY <1>1
  <1> QED BY <1>2, InductiveInvariant, PTL DEF Spec, RollbackRestores

(* The second rename is made only for an attempt whose token validates, or did
   until after its check, or that names no lock where none is required: also by
   a process that has outlived its attempt. *)
THEOREM CommitFencedThm == Spec => CommitFenced
  <1>1. IInv => \A w \in Workers : agent[w].pc = "place" => MayCommit(w)
    BY DEF IInv, TokenHeld, Checked
  <1>2. IInv /\ [Next]_vars =>
          [\A w \in Workers : agent[w].pc = "place" /\ agent'[w].pc = "tidy" =>
              \/ valid = TokenOf[w] \/ w \in outrun
              \/ ~ RequireFencing /\ agent[w].by = "none"]_vars
    BY <1>1 DEF MayCommit
  <1> QED BY <1>2, InductiveInvariant, PTL DEF Spec, CommitFenced

=============================================================================
