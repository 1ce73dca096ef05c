---------------------------- MODULE UidRegistry ----------------------------
(***************************************************************************)
(* The uid mappings of one project: jobs reserve and commit the uid of an  *)
(* asset, and a reconcile (the nightly one, or an admin's) gives all but   *)
(* one of the assets that share a uid a new one, first in the table, then  *)
(* in the project's files, on the orchestrator's disk or by a run on the   *)
(* target host.                                                            *)
(*                                                                         *)
(* reserve is one transaction under an advisory lock.  A reconcile is not: *)
(* each of its statements and file writes is a step.  The file of an asset *)
(* is the uid it carries.  Generated uids are numbers, so that a new one   *)
(* is new.                                                                 *)
(***************************************************************************)
EXTENDS Naturals, FiniteSets

CONSTANTS
  Paths,        \* logical asset paths
  Jobs,         \* jobs that reserve
  NoJob,        \* a reservation made without a job id
  Uids,         \* uids that clients commit
  Recs,         \* reconciles that may run at a time
  MaxCommits,   \* bound on commits
  MaxNew,       \* bound on generated uids
  MaxFaults     \* bound on crashes and failed dispatches

ASSUME UidAssumption ==
  /\ NoJob \notin Jobs
  /\ Uids \cap Nat = {}
  /\ MaxCommits \in Nat /\ MaxNew \in Nat /\ MaxFaults \in Nat

VARIABLES
  row,       \* uid_mappings: the row of each path
  newer,     \* pairs of paths: the first has the later updated_at
  file,      \* the uid the file of each path carries
  holders,   \* jobs that were told they hold a path, since it was committed
  rec,       \* the reconciles
  overlap,   \* two reconciles were under way at a time
  commits, fresh, faults

table  == <<row, newer>>
bounds == <<commits, fresh, faults>>
vars   == <<table, file, holders, rec, overlap, bounds>>

Row(ns, uid, job) == [ns |-> ns, uid |-> uid, job |-> job]
NoRow == Row("none", 0, NoJob)

\* pc, the duplicate uids still to treat, the one treated now, its rows still
\* to treat as they were read, those committed since, the replacements, and
\* the files still to rewrite.
IdleRec == [pc |-> "idle", groups |-> {}, uid |-> 0, todo |-> {}, stale |-> {},
            map |-> {}, unread |-> {}]

Init ==
  /\ row = [p \in Paths |-> NoRow]
  /\ newer = {}
  /\ file = [p \in Paths |-> 0]
  /\ holders = [p \in Paths |-> {}]
  /\ rec = [r \in Recs |-> IdleRec]
  /\ overlap = FALSE
  /\ commits = 0 /\ fresh = 0 /\ faults = 0

Fault == faults < MaxFaults /\ faults' = faults + 1

\* updated_at = now().
Touch(p) == newer' = {pair \in newer : p \notin {pair[1], pair[2]}} \cup {p} \X (Paths \ {p})

---------------------------------------------------------------------------
MayReserveAny(p, j) == TRUE

\* POST /uid-reservations: a path that another job holds is refused, one that
\* has its uid is answered with it, else the path is reserved (again).
MayReserve(p, j) == row[p].job \in {NoJob, j}

Reserve(p, j) ==
  /\ MayReserve(p, j)
  /\ row[p].ns \in {"none", "TMP"}
  /\ row' = [row EXCEPT ![p] = Row("TMP", 0, j)]
  /\ Touch(p)
  /\ holders' = [holders EXCEPT ![p] = @ \cup ({j} \ {NoJob})]
  /\ UNCHANGED <<file, rec, overlap, bounds>>

\* POST /uid-reservations/commit: any row, whatever it is; the committer's
\* files carry the uid.
CommitReservation(p, uid, ns) ==
  /\ commits < MaxCommits
  /\ commits' = commits + 1
  /\ row[p].ns # "none"
  /\ row' = [row EXCEPT ![p] = Row(ns, uid, NoJob)]
  /\ Touch(p)
  /\ file' = [file EXCEPT ![p] = uid]
  /\ holders' = [holders EXCEPT ![p] = {}]
  /\ rec' = [r \in Recs |->
       IF rec[r].pc = "idle" THEN rec[r]
       ELSE [rec[r] EXCEPT !.stale = rec[r].stale \cup {p}]]
  /\ UNCHANGED <<overlap, fresh, faults>>

---------------------------------------------------------------------------
\* autoResolveDuplicates.

PathsOf(uid) == {p \in Paths : row[p].ns \notin {"none", "TMP"} /\ row[p].uid = uid}

FindDuplicatesOfThree == {u \in Uids \cup 1 .. MaxNew : Cardinality(PathsOf(u)) > 2}

FindDuplicates == {u \in Uids \cup 1 .. MaxNew : Cardinality(PathsOf(u)) > 1}

StartReconcile(r) ==
  /\ rec[r].pc = "idle"
  /\ FindDuplicates # {}
  /\ rec' = [rec EXCEPT ![r].pc = "group", ![r].groups = FindDuplicates]
  /\ overlap' = (overlap \/ \E q \in Recs : rec[q].pc # "idle")
  /\ UNCHANGED <<table, file, holders, bounds>>

\* ORDER BY override first, then the newest, of rows as they were read.
Precedes(a, b) ==
  \/ a.ns = "OVRD" /\ b.ns # "OVRD"
  \/ (a.ns = "OVRD" <=> b.ns = "OVRD") /\ b.path \in a.older

IsFirst(entry, entries) ==
  entry \in entries /\ \A other \in entries \ {entry} : Precedes(entry, other)

RowsOf(uid) ==
  {[path |-> p, ns |-> row[p].ns, older |-> {q \in Paths : <<p, q>> \in newer}] :
     p \in PathsOf(uid)}

\* No row is canonical.
ReadGroupAll(r, uid) ==
  /\ rec[r].pc = "group"
  /\ uid \in rec[r].groups
  /\ rec' = [rec EXCEPT ![r].groups = rec[r].groups \ {uid},
                        ![r].pc = IF Cardinality(PathsOf(uid)) < 2 THEN "group" ELSE "rows",
                        ![r].uid = uid, ![r].stale = {},
                        ![r].todo = IF Cardinality(PathsOf(uid)) < 2 THEN {} ELSE RowsOf(uid)]
  /\ UNCHANGED <<table, file, holders, overlap, bounds>>

\* The rows of one group are read again; the first is canonical, the others are
\* to be treated.
ReadGroup(r, uid) ==
  /\ rec[r].pc = "group"
  /\ uid \in rec[r].groups
  /\ \/ /\ Cardinality(PathsOf(uid)) < 2
        /\ rec' = [rec EXCEPT ![r].groups = rec[r].groups \ {uid},
                              ![r].uid = uid, ![r].stale = {}]
     \/ \E canonical \in RowsOf(uid) :
          /\ Cardinality(PathsOf(uid)) >= 2
          /\ IsFirst(canonical, RowsOf(uid))
          /\ rec' = [rec EXCEPT ![r].groups = rec[r].groups \ {uid},
                                ![r].pc = "rows", ![r].uid = uid, ![r].stale = {},
                                ![r].todo = RowsOf(uid) \ {canonical}]
  /\ UNCHANGED <<table, file, holders, overlap, bounds>>

ByHandNever(entry) == FALSE

ByHand(entry) == entry.ns = "OVRD"

\* An override is left to people; any other row is updated by its id.  Of
\* several new uids for one old one the last goes into the map.
KeepRow(r) ==
  /\ rec[r].pc = "rows"
  /\ \E entry \in rec[r].todo :
       /\ IsFirst(entry, rec[r].todo)
       /\ ByHand(entry)
       /\ rec' = [rec EXCEPT ![r].todo = rec[r].todo \ {entry}]
  /\ UNCHANGED <<table, file, holders, overlap, bounds>>

RegenerateRow(r) ==
  /\ rec[r].pc = "rows"
  /\ fresh < MaxNew
  /\ fresh' = fresh + 1
  /\ \E entry \in rec[r].todo :
       /\ IsFirst(entry, rec[r].todo)
       /\ ~ByHand(entry)
       /\ row' = [row EXCEPT ![entry.path].uid = fresh']
       /\ Touch(entry.path)
       /\ rec' = [rec EXCEPT ![r].todo = rec[r].todo \ {entry},
                             ![r].map = {m \in rec[r].map : m[1] # rec[r].uid}
                                          \cup {<<rec[r].uid, fresh'>>}]
  /\ UNCHANGED <<file, holders, overlap, commits, faults>>

RowsDone(r) ==
  /\ rec[r].pc = "rows"
  /\ rec[r].todo = {}
  /\ rec' = [rec EXCEPT ![r].pc = "group"]
  /\ UNCHANGED <<table, file, holders, overlap, bounds>>

\* The files: nothing to do, or to be rewritten where "where" says.
GroupsDone(r, where) ==
  /\ rec[r].pc = "group"
  /\ rec[r].groups = {}
  /\ rec' = [rec EXCEPT ![r] = IF rec[r].map = {} THEN IdleRec
               ELSE [rec[r] EXCEPT !.pc = where, !.unread = Paths]]
  /\ UNCHANGED <<table, file, holders, overlap, bounds>>

\* project_root is a directory of the orchestrator, or the files are
\* rewritten by a run of uid_reconcile.yml on the project's host.
ReconcileProjectFiles(r) == GroupsDone(r, "files")

DispatchUidReconcile(r) == GroupsDone(r, "host")

\* Every token that the map has is replaced, whoever's file it is in.
Rewritten(map, uid) ==
  IF \E m \in map : m[1] = uid THEN (CHOOSE m \in map : m[1] = uid)[2] ELSE uid

RewriteFile(r, pc, p) ==
  /\ rec[r].pc = pc
  /\ p \in rec[r].unread
  /\ file' = [file EXCEPT ![p] = Rewritten(rec[r].map, file[p])]
  /\ rec' = [rec EXCEPT ![r] = IF rec[r].unread = {p} THEN IdleRec
               ELSE [rec[r] EXCEPT !.unread = rec[r].unread \ {p}]]
  /\ UNCHANGED <<table, holders, overlap, bounds>>

ApplyUidReplacements(r, p) == RewriteFile(r, "files", p)

UidReconcileScript(r, p) == RewriteFile(r, "host", p)

\* A crash, or a dispatch or run that is lost: nothing resumes it.
ReconcileCut(r) ==
  /\ rec[r].pc # "idle"
  /\ Fault
  /\ rec' = [rec EXCEPT ![r] = IdleRec]
  /\ UNCHANGED <<table, file, holders, overlap, commits, fresh>>

---------------------------------------------------------------------------
Reconcile(r) ==
  \/ StartReconcile(r)
  \/ \E uid \in rec[r].groups : ReadGroup(r, uid)
  \/ KeepRow(r)
  \/ RegenerateRow(r)
  \/ RowsDone(r)
  \/ ReconcileProjectFiles(r)
  \/ DispatchUidReconcile(r)
  \/ \E p \in Paths : ApplyUidReplacements(r, p) \/ UidReconcileScript(r, p)

Next ==
  \/ \E p \in Paths : \/ \E j \in Jobs \cup {NoJob} : Reserve(p, j)
                      \/ \E uid \in Uids, ns \in {"GEN", "OVRD", "USER"} :
                           CommitReservation(p, uid, ns)
  \/ \E r \in Recs : Reconcile(r) \/ ReconcileCut(r)

\* The reconcile is a repeated job.
ReconcilesRepeat == \A r \in Recs : WF_vars(Reconcile(r))

Spec == Init /\ [][Next]_vars /\ ReconcilesRepeat

---------------------------------------------------------------------------
\* A path is reserved for one job at a time: between two commits no second job
\* is told that the path is its own.
ReservationExclusive == \A p \in Paths : Cardinality(holders[p]) <= 1

Duplicate(p, q) ==
  /\ p # q
  /\ \E u \in Uids \cup 1 .. MaxNew : {p, q} \subseteq PathsOf(u)
  /\ {row[p].ns, row[q].ns} # {"OVRD"}

\* When commits stop, duplicates vanish for good, those of two overrides apart:
\* overlapping and interrupted reconciles do not bring them back.
DuplicatesVanish == <>[](\A p, q \in Paths : ~Duplicate(p, q))

\* A reconcile changes the uid of an override only when it was committed while
\* the reconcile was at work on what it had read before.
OverridesKept ==
  [][\A p \in Paths :
       row[p].ns = "OVRD" /\ row'[p].uid # row[p].uid /\ commits' = commits
         => \E r \in Recs : p \in rec[r].stale]_vars

\* A reconcile leaves a duplicate uid with one of its assets: the uid leaves
\* the table only when two reconciles overlap or a commit intervenes.
CanonicalStays ==
  [][\A u \in Uids :
       PathsOf(u) # {} /\ commits' = commits /\ ~overlap
         => PathsOf(u)' # {} \/ \E r \in Recs : rec[r].stale # {}]_vars

\* What the comment on autoResolveDuplicates says: the canonical asset is kept
\* and the others are regenerated, in the files as in the table.
CanonicalFileKept ==
  (\A r \in Recs : rec[r].pc = "idle") /\ faults = 0
    => \A p \in Paths : row[p].ns \notin {"none", "TMP"} => file[p] = row[p].uid
=============================================================================
