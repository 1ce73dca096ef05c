------------------------- MODULE UidRegistryProofs -------------------------
(***************************************************************************)
(* Proofs about UidRegistry, for any paths, jobs, uids, reconciles and     *)
(* bounds.                                                                 *)
(*                                                                         *)
(* A reconcile goes on with what it has read.  The invariant says what of  *)
(* it still holds: the namespace of a row unless it was committed since,   *)
(* and, when there was no commit and no second reconcile, also its uid and *)
(* that a row outside its list keeps the duplicated one.                   *)
(***************************************************************************)
EXTENDS UidRegistry, FiniteSetTheorems, TLAPS

Namespaces == {"none", "TMP", "GEN", "OVRD", "USER"}
AnyUid == Uids \cup Nat
RowType == [ns : Namespaces, uid : AnyUid, job : Jobs \cup {NoJob}]
Entry == [path : Paths, ns : Namespaces, older : SUBSET Paths]
RecType == [pc : {"idle", "group", "rows", "files", "host"}, groups : SUBSET AnyUid, uid : AnyUid,
            todo : SUBSET Entry, stale : SUBSET Paths, map : SUBSET (AnyUid \X Nat),
            unread : SUBSET Paths]

TypeInv ==
  /\ row \in [Paths -> RowType]
  /\ holders \in [Paths -> SUBSET Jobs]
  /\ rec \in [Recs -> RecType]
  /\ overlap \in BOOLEAN
  /\ commits \in Nat /\ fresh \in Nat

\* Who was told that a path is his is who its row names.
HoldersOK == \A p \in Paths : holders[p] = {row[p].job} \ {NoJob}

\* A reconcile has rows to treat only while it treats a group.
TodoOK == \A r \in Recs : rec[r].pc # "rows" => rec[r].todo = {}

Alone == ~overlap => \A q, r \in Recs : rec[q].pc # "idle" /\ rec[r].pc # "idle" => q = r

\* What was read is still so, unless the row was committed.
Entries ==
  \A r \in Recs : \A e \in rec[r].todo :
    /\ row[e.path].ns \notin {"none", "TMP"}
    /\ row[e.path].ns = e.ns \/ e.path \in rec[r].stale
    /\ \A f \in rec[r].todo : e.path = f.path => e = f

\* Nothing but the reconcile itself has disturbed the group it treats.
Undisturbed(r) == rec[r].pc = "rows" /\ rec[r].stale = {} /\ ~overlap

EntryUids == \A r \in Recs : Undisturbed(r) => \A e \in rec[r].todo : row[e.path].uid = rec[r].uid

CanonicalLeft ==
  \A r \in Recs : Undisturbed(r) =>
    \E c \in PathsOf(rec[r].uid) : \A e \in rec[r].todo : e.path # c

IInv == TypeInv /\ HoldersOK /\ TodoOK /\ Alone /\ Entries /\ EntryUids /\ CanonicalLeft

---------------------------------------------------------------------------
(* Initially every reconcile is idle. *)
LEMMA InitIInv == Init => IInv
  <1> SUFFICES ASSUME Init PROVE IInv
    OBVIOUS
  <1>1. IdleRec \in RecType /\ IdleRec.todo = {} /\ IdleRec.pc = "idle"
    BY DEF IdleRec, RecType, AnyUid
  <1>2. NoRow \in RowType /\ NoRow.job = NoJob
    BY DEF NoRow, Row, RowType, AnyUid, Namespaces
  <1>3. TypeInv
    BY <1>1, <1>2 DEF Init, TypeInv
  <1>4. HoldersOK
    BY <1>2 DEF Init, HoldersOK
  <1>5. \A r \in Recs : rec[r].todo = {} /\ rec[r].pc = "idle"
    BY <1>1 DEF Init
  <1> QED
    BY <1>3, <1>4, <1>5 DEF IInv, TodoOK, Alone, Entries, EntryUids, CanonicalLeft, Undisturbed

(* A change of the record of one reconcile. *)
LEMMA RecUpdate ==
  ASSUME TypeInv, NEW r \in Recs, NEW x \in RecType, rec' = [rec EXCEPT ![r] = x]
  PROVE  /\ rec' \in [Recs -> RecType] /\ rec'[r] = x
         /\ \A q \in Recs : q # r => rec'[q] = rec[q]
  BY DEF TypeInv

(* A step of reconcile r that leaves the table alone, and whose list of rows
   shrinks or ends. *)
LEMMA ListShrinks ==
  ASSUME IInv, NEW r \in Recs, NEW x \in RecType, rec' = [rec EXCEPT ![r] = x],
         UNCHANGED <<row, holders, commits, fresh>>, overlap' \in BOOLEAN, overlap => overlap',
         x.todo \subseteq rec[r].todo, x.pc # "rows" => x.todo = {},
         x.pc = "rows" => rec[r].pc = "rows",
         x.pc = "rows" => x.uid = rec[r].uid,
         x.todo # {} => x.stale = rec[r].stale,
         x.pc = "rows" => x.stale = rec[r].stale,
         rec[r].pc = "idle" /\ x.pc # "idle" /\ ~overlap' => \A q \in Recs : rec[q].pc = "idle"
  PROVE  IInv'
  <1>1. TypeInv /\ TypeInv' /\ rec'[r] = x /\ \A q \in Recs : q # r => rec'[q] = rec[q]
    BY RecUpdate DEF IInv, TypeInv
  <1>2. HoldersOK'
    BY DEF IInv, HoldersOK
  <1>3. TodoOK'
    BY <1>1 DEF IInv, TodoOK
  <1>4. Alone'
    BY <1>1 DEF IInv, Alone
  <1>5. \A q \in Recs : /\ rec'[q].todo \subseteq rec[q].todo
                        /\ rec'[q].todo # {} => rec'[q].stale = rec[q].stale
    BY <1>1
  <1>6. Entries'
    BY <1>5 DEF IInv, Entries
  <1>7. \A q \in Recs : Undisturbed(q)' => Undisturbed(q) /\ rec'[q].uid = rec[q].uid
    BY <1>1 DEF Undisturbed
  <1>8. EntryUids'
    BY <1>5, <1>7 DEF IInv, EntryUids
  <1>9. \A u : PathsOf(u)' = PathsOf(u)
    BY DEF PathsOf
  <1>10. CanonicalLeft'
    BY <1>5, <1>7, <1>9 DEF IInv, CanonicalLeft
  <1> QED
    BY <1>1, <1>2, <1>3, <1>4, <1>6, <1>8, <1>10 DEF IInv

---------------------------------------------------------------------------
(* reserve: rows that a reconcile has read are not reservations. *)
LEMMA ReserveStep ==
  ASSUME IInv, NEW p \in Paths, NEW j \in Jobs \cup {NoJob}, Reserve(p, j)
  PROVE  IInv'
  <1> DEFINE x == Row("TMP", 0, j)
  <1>1. x \in RowType /\ x.ns = "TMP" /\ x.job = j
    BY DEF Row, RowType, AnyUid, Namespaces
  <1>2. /\ row[p].ns \in {"none", "TMP"} /\ row[p].job \in {NoJob, j}
        /\ row' = [row EXCEPT ![p] = x]
        /\ holders' = [holders EXCEPT ![p] = holders[p] \cup ({j} \ {NoJob})]
        /\ UNCHANGED <<rec, overlap, commits, fresh>>
    BY DEF Reserve, MayReserve, bounds
  <1>t. TypeInv
    BY DEF IInv
  <1> HIDE DEF x
  <1>3. row'[p] = x /\ \A q \in Paths : q # p => row'[q] = row[q]
    BY <1>2, <1>t DEF TypeInv
  <1>4. TypeInv'
    BY <1>1, <1>2, <1>t DEF TypeInv
  <1>5. HoldersOK'
    BY <1>1, <1>2, <1>3, <1>t DEF IInv, HoldersOK, TypeInv
  <1>6. \A u : PathsOf(u)' = PathsOf(u)
    BY <1>1, <1>2, <1>3 DEF PathsOf
  <1>7. \A r \in Recs : \A e \in rec[r].todo : e.path \in Paths /\ e.path # p
    <2> SUFFICES ASSUME NEW r \in Recs, NEW e \in rec[r].todo
                 PROVE  e.path \in Paths /\ e.path # p
      OBVIOUS
    <2>1. e \in Entry
      BY <1>t DEF TypeInv, RecType
    <2> QED BY <1>2, <2>1 DEF IInv, Entries, Entry
  <1>8. Entries' /\ EntryUids'
    BY <1>2, <1>3, <1>7 DEF IInv, Entries, EntryUids, Undisturbed
  <1>9. TodoOK' /\ Alone' /\ CanonicalLeft'
    BY <1>2, <1>6 DEF IInv, TodoOK, Alone, CanonicalLeft, Undisturbed
  <1> QED
    BY <1>4, <1>5, <1>8, <1>9 DEF IInv

(* commitReservation: every reconcile under way is told. *)
LEMMA CommitStep ==
  ASSUME IInv, NEW p \in Paths, NEW uid \in Uids, NEW ns \in {"GEN", "OVRD", "USER"},
         CommitReservation(p, uid, ns)
  PROVE  IInv'
  <1> DEFINE x == Row(ns, uid, NoJob)
  <1>1. x \in RowType /\ x.ns = ns /\ x.job = NoJob
    BY DEF Row, RowType, AnyUid, Namespaces
  <1>2. /\ row' = [row EXCEPT ![p] = x]
        /\ holders' = [holders EXCEPT ![p] = {}]
        /\ commits' = commits + 1 /\ UNCHANGED <<overlap, fresh>>
        /\ rec' = [r \in Recs |-> IF rec[r].pc = "idle" THEN rec[r]
                     ELSE [rec[r] EXCEPT !.stale = rec[r].stale \cup {p}]]
    BY DEF CommitReservation
  <1>t. TypeInv
    BY DEF IInv
  <1> HIDE DEF x
  <1>3. row'[p] = x /\ \A q \in Paths : q # p => row'[q] = row[q]
    BY <1>2, <1>t DEF TypeInv
  <1>4. ASSUME NEW r \in Recs
        PROVE  /\ rec'[r] \in RecType
               /\ rec'[r].pc = rec[r].pc /\ rec'[r].todo = rec[r].todo
               /\ rec[r].pc # "idle" => rec'[r].stale = rec[r].stale \cup {p}
    <2>1. rec[r] \in RecType
      BY <1>t DEF TypeInv
    <2> QED BY <1>2, <2>1 DEF RecType
  <1>5. TypeInv'
    BY <1>1, <1>2, <1>4, <1>t DEF TypeInv
  <1>6. HoldersOK'
    BY <1>1, <1>2, <1>3, <1>t DEF IInv, HoldersOK, TypeInv
  <1>7. TodoOK' /\ Alone'
    BY <1>2, <1>4 DEF IInv, TodoOK, Alone
  <1>8. Entries'
    <2> SUFFICES ASSUME NEW r \in Recs, NEW e \in rec[r].todo
                 PROVE  /\ row'[e.path].ns \notin {"none", "TMP"}
                        /\ row'[e.path].ns = e.ns \/ e.path \in rec'[r].stale
                        /\ \A f \in rec[r].todo : e.path = f.path => e = f
      BY <1>4 DEF Entries
    <2>1. e \in Entry
      BY <1>t DEF TypeInv, RecType
    <2>2. rec[r].pc # "idle"
      BY DEF IInv, TodoOK
    <2> QED BY <1>1, <1>3, <1>4, <2>1, <2>2 DEF IInv, Entries, Entry
  <1>9. \A r \in Recs : ~ Undisturbed(r)'
    BY <1>4 DEF Undisturbed
  <1>10. EntryUids' /\ CanonicalLeft'
    BY <1>9 DEF EntryUids, CanonicalLeft
  <1> QED
    BY <1>5, <1>6, <1>7, <1>8, <1>10 DEF IInv

(* A group is read: all its rows but the canonical one are to be treated. *)
LEMMA ReadStep ==
  ASSUME IInv, NEW r \in Recs, NEW uid \in rec[r].groups, NEW canonical \in RowsOf(uid),
         NEW x \in RecType, rec' = [rec EXCEPT ![r] = x],
         UNCHANGED <<row, holders, overlap, commits, fresh>>, rec[r].pc # "idle",
         x.pc = "rows", x.uid = uid, x.stale = {}, x.todo = RowsOf(uid) \ {canonical}
  PROVE  IInv'
  <1>1. TypeInv /\ TypeInv' /\ rec'[r] = x /\ \A q \in Recs : q # r => rec'[q] = rec[q]
    BY RecUpdate DEF IInv, TypeInv
  <1>2. HoldersOK' /\ TodoOK' /\ Alone'
    BY <1>1 DEF IInv, HoldersOK, TodoOK, Alone
  <1>3. ASSUME NEW e \in RowsOf(uid)
        PROVE  /\ e.path \in PathsOf(uid) /\ row[e.path].ns = e.ns
               /\ row[e.path].ns \notin {"none", "TMP"} /\ row[e.path].uid = uid
               /\ \A f \in RowsOf(uid) : e.path = f.path => e = f
    <2> DEFINE entry(p) == [path |-> p, ns |-> row[p].ns, older |-> {q \in Paths : <<p, q>> \in newer}]
    <2>1. \A f \in RowsOf(uid) : \E p \in PathsOf(uid) : f = entry(p)
      BY DEF RowsOf
    <2>2. \A p : entry(p).path = p /\ entry(p).ns = row[p].ns
      OBVIOUS
    <2> HIDE DEF entry
    <2>3. \A f \in RowsOf(uid) : f.path \in PathsOf(uid) /\ f.ns = row[f.path].ns /\ f = entry(f.path)
      BY <2>1, <2>2
    <2>4. \A f \in RowsOf(uid) : e.path = f.path => e = f
      BY <2>3
    <2>5. row[e.path].ns \notin {"none", "TMP"} /\ row[e.path].uid = uid
      BY <2>3 DEF PathsOf
    <2> QED BY <2>3, <2>4, <2>5
  <1>4. Entries'
    BY <1>1, <1>3 DEF IInv, Entries
  <1>5. \A q \in Recs : q # r /\ Undisturbed(q)' => Undisturbed(q)
    BY <1>1 DEF Undisturbed
  <1>6. EntryUids'
    BY <1>1, <1>3, <1>5 DEF IInv, EntryUids
  <1>7. \A u : PathsOf(u)' = PathsOf(u)
    BY DEF PathsOf
  <1>8. canonical.path \in PathsOf(uid) /\ \A e \in x.todo : e.path # canonical.path
    BY <1>3
  <1>9. CanonicalLeft'
    BY <1>1, <1>5, <1>7, <1>8 DEF IInv, CanonicalLeft
  <1> QED
    BY <1>1, <1>2, <1>4, <1>6, <1>9 DEF IInv

(* A row gets a new uid: the reconcile is done with that row, and if another one
   is at work they overlap. *)
LEMMA RegenerateStep ==
  ASSUME IInv, NEW r \in Recs, NEW e \in rec[r].todo, NEW x \in RecType, NEW n \in Nat,
         rec' = [rec EXCEPT ![r] = x], row' = [row EXCEPT ![e.path].uid = n],
         UNCHANGED <<holders, overlap, commits>>, fresh' \in Nat, rec[r].pc = "rows",
         x.pc = "rows", x.uid = rec[r].uid, x.stale = rec[r].stale,
         x.todo = rec[r].todo \ {e}
  PROVE  IInv'
  <1>t. TypeInv /\ rec'[r] = x /\ \A q \in Recs : q # r => rec'[q] = rec[q]
    BY RecUpdate DEF IInv
  <1>1. e.path \in Paths
    BY <1>t DEF TypeInv, RecType, Entry
  <1>2. /\ row' \in [Paths -> RowType]
        /\ \A p \in Paths : /\ row'[p].ns = row[p].ns /\ row'[p].job = row[p].job
                            /\ p # e.path => row'[p] = row[p]
    <2>1. row[e.path] \in RowType
      BY <1>1, <1>t DEF TypeInv
    <2>2. /\ [row[e.path] EXCEPT !.uid = n] \in RowType
          /\ [row[e.path] EXCEPT !.uid = n].ns = row[e.path].ns
          /\ [row[e.path] EXCEPT !.uid = n].job = row[e.path].job
      BY <2>1 DEF RowType, AnyUid
    <2> DEFINE y == [row[e.path] EXCEPT !.uid = n]
    <2>3. row' = [row EXCEPT ![e.path] = y]
      OBVIOUS
    <2> HIDE DEF y
    <2> QED BY <1>1, <1>t, <2>2, <2>3 DEF TypeInv, y
  <1>3. TypeInv'
    BY <1>2, <1>t DEF TypeInv
  <1>4. HoldersOK'
    BY <1>2 DEF IInv, HoldersOK
  <1>5. TodoOK' /\ Alone'
    BY <1>t DEF IInv, TodoOK, Alone
  <1>6. \A q \in Recs : \A f \in rec[q].todo : f.path \in Paths
    BY <1>t DEF TypeInv, RecType, Entry
  <1>7. \A q \in Recs : /\ rec'[q].todo \subseteq rec[q].todo /\ rec'[q].stale = rec[q].stale
                        /\ rec'[q].uid = rec[q].uid /\ rec'[q].pc = rec[q].pc
    BY <1>t
  <1>8. Entries'
    BY <1>2, <1>6, <1>7 DEF IInv, Entries
  <1>9. \A q \in Recs : Undisturbed(q)' => q = r /\ Undisturbed(r)
    BY <1>7 DEF IInv, Alone, Undisturbed
  <1>10. \A f \in x.todo : f \in rec[r].todo /\ f.path # e.path /\ row'[f.path] = row[f.path]
    BY <1>2, <1>6 DEF IInv, Entries
  <1>11. EntryUids'
    BY <1>9, <1>10, <1>t DEF IInv, EntryUids
  <1>12. CanonicalLeft'
    <2> SUFFICES ASSUME Undisturbed(r)
                 PROVE  \E c \in PathsOf(rec[r].uid)' : \A f \in rec'[r].todo : f.path # c
      BY <1>7, <1>9 DEF CanonicalLeft, PathsOf
    <2>1. PICK c \in PathsOf(rec[r].uid) : \A f \in rec[r].todo : f.path # c
      BY DEF IInv, CanonicalLeft
    <2>2. c \in Paths /\ c # e.path /\ row'[c] = row[c]
      BY <1>2, <2>1 DEF PathsOf
    <2>3. c \in PathsOf(rec[r].uid)'
      BY <1>7, <2>1, <2>2 DEF PathsOf
    <2> QED BY <1>7, <2>1, <2>3
  <1> QED
    BY <1>3, <1>4, <1>5, <1>8, <1>11, <1>12 DEF IInv

---------------------------------------------------------------------------
(* Each action is one of the steps above. *)
LEMMA NextIInv == IInv /\ [Next]_vars => IInv'
  <1> SUFFICES ASSUME IInv, [Next]_vars PROVE IInv'
    OBVIOUS
  <1>t. TypeInv /\ \A r \in Recs : rec[r] \in RecType
    BY DEF IInv, TypeInv
  <1>i. IdleRec \in RecType /\ IdleRec.todo = {} /\ IdleRec.pc = "idle"
    BY DEF IdleRec, RecType, AnyUid
  <1>1. ASSUME NEW p \in Paths, NEW j \in Jobs \cup {NoJob}, Reserve(p, j)
        PROVE  IInv'
    BY <1>1, ReserveStep
  <1>2. ASSUME NEW p \in Paths, NEW uid \in Uids, NEW ns \in {"GEN", "OVRD", "USER"},
               CommitReservation(p, uid, ns)
        PROVE  IInv'
    BY <1>2, CommitStep
  <1>3. ASSUME NEW r \in Recs, StartReconcile(r)
        PROVE  IInv'
    <2> DEFINE x == [rec[r] EXCEPT !.pc = "group", !.groups = FindDuplicates]
    <2>1. FindDuplicates \subseteq AnyUid
      BY DEF FindDuplicates, AnyUid
    <2>2. /\ x \in RecType /\ x.pc = "group" /\ x.todo = rec[r].todo /\ x.stale = rec[r].stale
      BY <1>t, <2>1 DEF RecType
    <2>3. rec' = [rec EXCEPT ![r] = x]
      BY <1>3, <1>t DEF StartReconcile, TypeInv
    <2>4. x.todo = {}
      BY <1>3, <2>2 DEF StartReconcile, IInv, TodoOK
    <2>5. /\ UNCHANGED <<row, holders, commits, fresh>> /\ rec[r].pc = "idle"
          /\ overlap' = (overlap \/ \E q \in Recs : rec[q].pc # "idle")
      BY <1>3 DEF StartReconcile, table, bounds
    <2>6. overlap' \in BOOLEAN /\ (overlap => overlap')
      BY <1>t, <2>5 DEF TypeInv
    <2>7. ~overlap' => \A q \in Recs : rec[q].pc = "idle"
      BY <2>5
    <2> HIDE DEF x
    <2> QED BY <2>2, <2>3, <2>4, <2>5, <2>6, <2>7, ListShrinks
  <1>4. ASSUME NEW r \in Recs, NEW uid \in rec[r].groups, ReadGroup(r, uid)
        PROVE  IInv'
    <2>1. /\ UNCHANGED <<row, holders, commits, fresh, overlap>> /\ rec[r].pc = "group"
          /\ uid \in AnyUid /\ rec[r].todo = {}
      BY <1>4, <1>t DEF ReadGroup, table, bounds, RecType, IInv, TodoOK
    <2>2. CASE rec' = [rec EXCEPT ![r].groups = rec[r].groups \ {uid}, ![r].uid = uid,
                                  ![r].stale = {}]
      <3> DEFINE x == [rec[r] EXCEPT !.groups = rec[r].groups \ {uid}, !.uid = uid, !.stale = {}]
      <3>1. x \in RecType /\ x.pc = "group" /\ x.todo = {}
        BY <1>t, <2>1 DEF RecType
      <3>2. rec' = [rec EXCEPT ![r] = x]
        BY <1>t, <2>2 DEF TypeInv
      <3> HIDE DEF x
      <3> QED BY <1>t, <2>1, <3>1, <3>2, ListShrinks DEF TypeInv
    <2>3. ASSUME NEW canonical \in RowsOf(uid),
                 rec' = [rec EXCEPT ![r].groups = rec[r].groups \ {uid},
                                    ![r].pc = "rows", ![r].uid = uid, ![r].stale = {},
                                    ![r].todo = RowsOf(uid) \ {canonical}]
          PROVE  IInv'
      <3> DEFINE x == [rec[r] EXCEPT !.groups = rec[r].groups \ {uid}, !.pc = "rows",
                                     !.uid = uid, !.stale = {}, !.todo = RowsOf(uid) \ {canonical}]
      <3>0. RowsOf(uid) \subseteq Entry
        <4>1. ASSUME NEW p \in PathsOf(uid)
              PROVE  [path |-> p, ns |-> row[p].ns, older |-> {q \in Paths : <<p, q>> \in newer}]
                       \in Entry
          <5>1. p \in Paths /\ row[p].ns \in Namespaces
            BY <1>t DEF PathsOf, TypeInv, RowType
          <5>2. {q \in Paths : <<p, q>> \in newer} \in SUBSET Paths
            OBVIOUS
          <5> QED BY <5>1, <5>2 DEF Entry
        <4> QED BY <4>1, Zenon DEF RowsOf
      <3>1. /\ x \in RecType /\ x.pc = "rows" /\ x.uid = uid /\ x.stale = {}
            /\ x.todo = RowsOf(uid) \ {canonical}
        BY <1>t, <2>1, <3>0 DEF RecType
      <3>2. rec' = [rec EXCEPT ![r] = x]
        BY <1>t, <2>3 DEF TypeInv
      <3> HIDE DEF x
      <3> QED BY <2>1, <3>1, <3>2, ReadStep
    <2> QED BY <1>4, <2>2, <2>3 DEF ReadGroup
  <1>5. ASSUME NEW r \in Recs, KeepRow(r)
        PROVE  IInv'
    <2>1. PICK e \in rec[r].todo : rec' = [rec EXCEPT ![r].todo = rec[r].todo \ {e}]
      BY <1>5 DEF KeepRow
    <2> DEFINE x == [rec[r] EXCEPT !.todo = rec[r].todo \ {e}]
    <2>2. /\ x \in RecType /\ x.pc = rec[r].pc /\ x.uid = rec[r].uid /\ x.stale = rec[r].stale
          /\ x.todo \subseteq rec[r].todo
      BY <1>t DEF RecType
    <2>3. rec' = [rec EXCEPT ![r] = x]
      BY <1>t, <2>1 DEF TypeInv
    <2>4. /\ UNCHANGED <<row, holders, commits, fresh, overlap>> /\ rec[r].pc = "rows"
      BY <1>5 DEF KeepRow, table, bounds
    <2> HIDE DEF x
    <2> QED BY <1>t, <2>2, <2>3, <2>4, ListShrinks DEF TypeInv
  <1>6. ASSUME NEW r \in Recs, RegenerateRow(r)
        PROVE  IInv'
    <2>1. PICK e \in rec[r].todo :
             /\ row' = [row EXCEPT ![e.path].uid = fresh']
             /\ rec' = [rec EXCEPT ![r].todo = rec[r].todo \ {e},
                                   ![r].map = {m \in rec[r].map : m[1] # rec[r].uid}
                                                \cup {<<rec[r].uid, fresh'>>}]
      BY <1>6 DEF RegenerateRow
    <2>2. /\ UNCHANGED <<holders, commits, overlap>> /\ rec[r].pc = "rows" /\ fresh' \in Nat
      BY <1>6, <1>t DEF RegenerateRow, TypeInv
    <2> DEFINE map == {m \in rec[r].map : m[1] # rec[r].uid} \cup {<<rec[r].uid, fresh'>>}
               x == [rec[r] EXCEPT !.todo = rec[r].todo \ {e}, !.map = map]
    <2>3. map \subseteq AnyUid \X Nat
      BY <1>t, <2>2 DEF RecType
    <2>4. /\ x \in RecType /\ x.pc = rec[r].pc /\ x.uid = rec[r].uid /\ x.stale = rec[r].stale
          /\ x.todo = rec[r].todo \ {e}
      BY <1>t, <2>3 DEF RecType
    <2>5. rec' = [rec EXCEPT ![r] = x]
      BY <1>t, <2>1 DEF TypeInv
    <2> HIDE DEF x
    <2> QED BY <2>1, <2>2, <2>4, <2>5, RegenerateStep
  <1>7. ASSUME NEW r \in Recs, RowsDone(r)
        PROVE  IInv'
    <2> DEFINE x == [rec[r] EXCEPT !.pc = "group"]
    <2>1. /\ rec' = [rec EXCEPT ![r] = x] /\ rec[r].todo = {} /\ rec[r].pc = "rows"
          /\ UNCHANGED <<row, holders, commits, fresh, overlap>>
      BY <1>7, <1>t DEF RowsDone, table, bounds, TypeInv
    <2>2. x \in RecType /\ x.pc = "group" /\ x.todo = {}
      BY <1>t, <2>1 DEF RecType
    <2> HIDE DEF x
    <2> QED BY <1>t, <2>1, <2>2, ListShrinks DEF TypeInv
  <1>8. ASSUME NEW r \in Recs, NEW where \in {"files", "host"}, GroupsDone(r, where)
        PROVE  IInv'
    <2> DEFINE x == IF rec[r].map = {} THEN IdleRec
                    ELSE [rec[r] EXCEPT !.pc = where, !.unread = Paths]
    <2>1. /\ rec' = [rec EXCEPT ![r] = x] /\ rec[r].pc = "group"
          /\ UNCHANGED <<row, holders, commits, fresh, overlap>>
      BY <1>8 DEF GroupsDone, table, bounds
    <2>2. rec[r].todo = {}
      BY <2>1 DEF IInv, TodoOK
    <2>3. x \in RecType /\ x.pc # "rows" /\ x.todo = {}
      BY <1>i, <1>t, <2>2 DEF RecType
    <2> HIDE DEF x
    <2> QED BY <1>t, <2>1, <2>2, <2>3, ListShrinks DEF TypeInv
  <1>9. ASSUME NEW r \in Recs, NEW pc \in {"files", "host"}, NEW p \in Paths, RewriteFile(r, pc, p)
        PROVE  IInv'
    <2> DEFINE x == IF rec[r].unread = {p} THEN IdleRec
                    ELSE [rec[r] EXCEPT !.unread = rec[r].unread \ {p}]
    <2>1. /\ rec' = [rec EXCEPT ![r] = x] /\ rec[r].pc = pc
          /\ UNCHANGED <<row, holders, commits, fresh, overlap>>
      BY <1>9 DEF RewriteFile, table, bounds
    <2>2. rec[r].todo = {}
      BY <2>1 DEF IInv, TodoOK
    <2>3. x \in RecType /\ x.pc # "rows" /\ x.todo = {}
      BY <1>i, <1>t, <2>1, <2>2 DEF RecType
    <2> HIDE DEF x
    <2> QED BY <1>t, <2>1, <2>2, <2>3, ListShrinks DEF TypeInv
  <1>10. ASSUME NEW r \in Recs, ReconcileCut(r)
         PROVE  IInv'
    <2>1. /\ rec' = [rec EXCEPT ![r] = IdleRec]
          /\ UNCHANGED <<row, holders, commits, fresh, overlap>>
      BY <1>10 DEF ReconcileCut, table
    <2> QED BY <1>i, <1>t, <2>1, ListShrinks DEF TypeInv
  <1>11. CASE UNCHANGED vars
    <2>1. UNCHANGED <<row, holders, rec, overlap, commits, fresh>>
      BY <1>11 DEF vars, table, bounds
    <2>2. TypeInv' /\ HoldersOK' /\ TodoOK' /\ Alone'
      BY <2>1 DEF IInv, TypeInv, HoldersOK, TodoOK, Alone
    <2>3. \A u : PathsOf(u)' = PathsOf(u)
      BY <2>1 DEF PathsOf
    <2>4. \A r \in Recs : Undisturbed(r)' <=> Undisturbed(r)
      BY <2>1 DEF Undisturbed
    <2>5. Entries' /\ EntryUids' /\ CanonicalLeft'
      BY <2>1, <2>3, <2>4 DEF IInv, Entries, EntryUids, CanonicalLeft
    <2> QED BY <2>2, <2>5 DEF IInv
  <1> QED
    BY <1>1, <1>2, <1>3, <1>4, <1>5, <1>6, <1>7, <1>8, <1>9, <1>10, <1>11
    DEF Next, Reconcile, ReconcileProjectFiles, DispatchUidReconcile, ApplyUidReplacements,
        UidReconcileScript

(* The inductive invariant: what a reconcile has read still holds unless a
   commit or another reconcile intervened (UidService.autoResolveDuplicates). *)
THEOREM InductiveInvariant == Spec => []IInv
  BY InitIInv, NextIInv, PTL DEF Spec

(* A path is reserved for one job at a time (UidRegistry!ReservationExclusive):
   whom reserve has told that the path is his is whom the row names. *)
THEOREM ReservationExclusiveThm == Spec => []ReservationExclusive
  <1>1. IInv => ReservationExclusive
    <2> SUFFICES ASSUME IInv, NEW p \in Paths PROVE Cardinality(holders[p]) <= 1
      BY DEF ReservationExclusive
    <2>1. holders[p] = {row[p].job} \/ holders[p] = {}
      BY DEF IInv, HoldersOK
    <2>2. Cardinality({row[p].job}) = 1
      BY FS_Singleton
    <2>3. Cardinality({}) = 0
      BY FS_EmptySet
    <2> QED BY <2>1, <2>2, <2>3
  <1> QED
    BY <1>1, InductiveInvariant, PTL

---------------------------------------------------------------------------
(* Which steps change the uid of a row. *)
LEMMA UidChanges ==
  ASSUME IInv, [Next]_vars, commits' = commits, NEW p \in Paths, row'[p].uid # row[p].uid,
         row[p].ns \notin {"none", "TMP"}
  PROVE  \E r \in Recs : \E e \in rec[r].todo :
            /\ rec[r].pc = "rows" /\ ~ByHand(e) /\ e.path = p
            /\ row' = [row EXCEPT ![p].uid = fresh'] /\ fresh' \in Nat
  <1>t. TypeInv
    BY DEF IInv
  <1>1. ASSUME NEW q \in Paths, NEW j \in Jobs \cup {NoJob}, Reserve(q, j)
        PROVE  FALSE
    BY <1>1, <1>t DEF Reserve, TypeInv
  <1>2. ASSUME NEW q \in Paths, NEW uid \in Uids, NEW ns \in {"GEN", "OVRD", "USER"},
               CommitReservation(q, uid, ns)
        PROVE  FALSE
    BY <1>2, <1>t DEF CommitReservation, TypeInv
  <1>3. ASSUME NEW r \in Recs,
               \/ StartReconcile(r) \/ KeepRow(r) \/ RowsDone(r) \/ ReconcileCut(r)
               \/ \E uid \in rec[r].groups : ReadGroup(r, uid)
               \/ \E x \in {"files", "host"} : GroupsDone(r, x)
               \/ \E pc \in {"files", "host"}, q \in Paths : RewriteFile(r, pc, q)
        PROVE  FALSE
    BY <1>3 DEF StartReconcile, KeepRow, RowsDone, ReconcileCut, ReadGroup, GroupsDone, RewriteFile, table
  <1>4. ~ UNCHANGED vars
    BY DEF vars, table
  <1>5. PICK r \in Recs : RegenerateRow(r)
    BY <1>1, <1>2, <1>3, <1>4 DEF Next, Reconcile, ReconcileProjectFiles, DispatchUidReconcile,
       ApplyUidReplacements, UidReconcileScript
  <1>6. PICK e \in rec[r].todo : ~ByHand(e) /\ row' = [row EXCEPT ![e.path].uid = fresh']
    BY <1>5 DEF RegenerateRow
  <1>7. rec[r].pc = "rows" /\ fresh' \in Nat
    BY <1>5, <1>t DEF RegenerateRow, TypeInv
  <1>8. e.path = p
    BY <1>6, <1>t DEF TypeInv
  <1> QED
    BY <1>6, <1>7, <1>8

(* Without a commit a mapping keeps its namespace. *)
LEMMA NamespaceChanges ==
  ASSUME IInv, [Next]_vars, commits' = commits, NEW p \in Paths,
         row[p].ns \notin {"none", "TMP"}
  PROVE  row'[p].ns = row[p].ns
  <1>t. TypeInv
    BY DEF IInv
  <1>1. ASSUME NEW q \in Paths, NEW j \in Jobs \cup {NoJob}, Reserve(q, j)
        PROVE  row'[p].ns = row[p].ns
    BY <1>1, <1>t DEF Reserve, TypeInv
  <1>2. ASSUME NEW q \in Paths, NEW uid \in Uids, NEW ns \in {"GEN", "OVRD", "USER"},
               CommitReservation(q, uid, ns)
        PROVE  FALSE
    BY <1>2, <1>t DEF CommitReservation, TypeInv
  <1>3. ASSUME NEW r \in Recs, RegenerateRow(r)
        PROVE  row'[p].ns = row[p].ns
    <2>1. PICK e \in rec[r].todo : row' = [row EXCEPT ![e.path].uid = fresh']
      BY <1>3 DEF RegenerateRow
    <2>2. row[p] \in RowType
      BY <1>t DEF TypeInv
    <2> QED BY <1>t, <2>1, <2>2 DEF TypeInv, RowType
  <1>4. ASSUME NEW r \in Recs,
               \/ StartReconcile(r) \/ KeepRow(r) \/ RowsDone(r) \/ ReconcileCut(r)
               \/ \E uid \in rec[r].groups : ReadGroup(r, uid)
               \/ \E x \in {"files", "host"} : GroupsDone(r, x)
               \/ \E pc \in {"files", "host"}, q \in Paths : RewriteFile(r, pc, q)
        PROVE  row'[p].ns = row[p].ns
    BY <1>4 DEF StartReconcile, KeepRow, RowsDone, ReconcileCut, ReadGroup, GroupsDone, RewriteFile,
       table
  <1>5. CASE UNCHANGED vars
    BY <1>5 DEF vars, table
  <1> QED
    BY <1>1, <1>2, <1>3, <1>4, <1>5 DEF Next, Reconcile, ReconcileProjectFiles,
       DispatchUidReconcile, ApplyUidReplacements, UidReconcileScript

(* A reconcile changes the uid of an override only when it was committed while
   the reconcile was at work (UidRegistry!OverridesKept): autoResolveDuplicates
   leaves overrides to people, by what it has read. *)
THEOREM OverridesKeptThm == Spec => OverridesKept
  <1>1. IInv /\ [Next]_vars =>
          \A p \in Paths :
            row[p].ns = "OVRD" /\ row'[p].uid # row[p].uid /\ commits' = commits
              => \E r \in Recs : p \in rec[r].stale
    <2> SUFFICES ASSUME IInv, [Next]_vars, NEW p \in Paths, row[p].ns = "OVRD",
                        row'[p].uid # row[p].uid, commits' = commits
                 PROVE  \E r \in Recs : p \in rec[r].stale
      OBVIOUS
    <2>1. PICK r \in Recs : \E e \in rec[r].todo : ~ByHand(e) /\ e.path = p
      BY UidChanges
    <2> QED BY <2>1 DEF IInv, Entries, ByHand
  <1> QED
    BY <1>1, InductiveInvariant, PTL DEF Spec, OverridesKept

(* Unless two reconciles overlap or a commit intervenes, a reconcile leaves a
   duplicate uid with one of its assets (UidRegistry!CanonicalStays): the first
   row of the group that autoResolveDuplicates reads keeps it. *)
THEOREM CanonicalStaysThm == Spec => CanonicalStays
  <1>1. IInv /\ [Next]_vars =>
          \A u \in Uids :
            PathsOf(u) # {} /\ commits' = commits /\ ~overlap
              => PathsOf(u)' # {} \/ \E r \in Recs : rec[r].stale # {}
    <2> SUFFICES ASSUME IInv, [Next]_vars, NEW u \in Uids, PathsOf(u) # {}, commits' = commits,
                        ~overlap, \A r \in Recs : rec[r].stale = {}, PathsOf(u)' = {}
                 PROVE  FALSE
      OBVIOUS
    <2>t. TypeInv
      BY DEF IInv
    <2>1. PICK p \in PathsOf(u) : TRUE
      OBVIOUS
    <2>2. p \in Paths /\ row[p].uid = u /\ row[p].ns \notin {"none", "TMP"}
      BY <2>1 DEF PathsOf
    <2>3. row'[p].uid # row[p].uid
      <3>1. CASE row'[p].ns = row[p].ns
        BY <2>2, <3>1 DEF PathsOf
      <3>2. CASE row'[p].ns # row[p].ns
        BY <2>2, <3>2, NamespaceChanges
      <3> QED BY <3>1, <3>2
    <2>4. PICK r \in Recs : \E e \in rec[r].todo :
             /\ rec[r].pc = "rows" /\ e.path = p
             /\ row' = [row EXCEPT ![p].uid = fresh']
      BY <2>2, <2>3, UidChanges
    <2>5. Undisturbed(r)
      BY <2>4 DEF Undisturbed
    <2>6. rec[r].uid = u
      BY <2>2, <2>4, <2>5 DEF IInv, EntryUids
    <2>7. PICK c \in PathsOf(u) : c # p
      BY <2>4, <2>5, <2>6 DEF IInv, CanonicalLeft
    <2>8. c \in Paths /\ row'[c] = row[c] /\ row[c].uid = u /\ row[c].ns \notin {"none", "TMP"}
      BY <2>4, <2>7, <2>t DEF PathsOf, TypeInv
    <2> QED BY <2>8 DEF PathsOf
  <1> QED
    BY <1>1, InductiveInvariant, PTL DEF Spec, CanonicalStays

=============================================================================
