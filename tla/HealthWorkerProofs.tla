------------------------- MODULE HealthWorkerProofs -------------------------
(***************************************************************************)
(* Proofs about HealthWorker, for any jobs, any recipients and mail        *)
(* server, and any bounds.                                                 *)
(*                                                                         *)
(* EscalatedOnce counts mails against faults.  The invariant says how far  *)
(* the count may be ahead of what the rows show: a mail that is out, or    *)
(* in the hands of a server that never answers, and not yet flagged.       *)
(*                                                                         *)
(* SentIsTaken is about every conversation of the mail client with a       *)
(* server: a mail reported as sent was accepted for everybody.             *)
(***************************************************************************)
EXTENDS HealthWorker, TLAPS, SequenceTheorems, WellFoundedInduction

Workers == {"health", "consumer"}
Pcs == {"idle", "run", "degraded", "in order", "rows", "alert", "mail", "mailed", "hung"}
AllKinds == Kinds \cup {"none", "dead-letter"}
WorkerRows == Jobs \X Hours
Ats == {<<>>} \cup {<<j>> : j \in Jobs} \cup WorkerRows
AllResults == {NoResult} \cup ContactResults \cup AdminResults

WorkerType == [pc : Pcs, kind : AllKinds, rows : SUBSET WorkerRows, at : Ats, result : AllResults]
RowType == [listed : BOOLEAN, age : Nat, escalated : SUBSET Hours]

TypeInv ==
  /\ worker \in [Workers -> WorkerType]
  /\ row \in [Jobs -> RowType]
  /\ mails \in [Jobs -> [Hours -> Nat]]
  /\ faults \in Nat

Health == worker["health"]

\* The health worker is at a row of the scan when it mails about it; the
\* consumer never is.
HealthOK(x) ==
  /\ x.at \in WorkerRows <=> x.kind = "dead-letter-escalate" /\ x.pc # "rows"
  /\ x.kind = "dead-letter-escalate" => x.pc \in {"rows", "alert", "mail", "mailed", "hung"}
  /\ x.pc = "rows" => x.kind = "dead-letter-escalate"

AtOK ==
  /\ worker["consumer"].at \notin WorkerRows
  /\ worker["consumer"].kind # "dead-letter-escalate"
  /\ HealthOK(Health)

\* What the scan still has to mail about has no flag yet.
Unflagged ==
  /\ \A r \in Health.rows : r[2] \notin row[r[1]].escalated
  /\ Health.at \in WorkerRows =>
       /\ Health.at[2] \notin row[Health.at[1]].escalated
       /\ Health.at \notin Health.rows

\* A mail is out, or may be, and its flag is not set.
Out(j, h) == Health.at = <<j, h>> /\ Health.pc \in {"mailed", "hung"}

Counted ==
  \A j \in Jobs, h \in Hours :
    mails[j][h] <= faults + (IF h \in row[j].escalated \/ Out(j, h) THEN 1 ELSE 0)

IInv == TypeInv /\ AtOK /\ Unflagged /\ Counted

-----------------------------------------------------------------------------
(* Initially both workers are idle and nobody was mailed. *)
LEMMA InitIInv == Init => IInv
  <1> SUFFICES ASSUME Init PROVE IInv
    OBVIOUS
  <1>1. Idle \in WorkerType /\ Idle.at = <<>> /\ Idle.pc = "idle" /\ Idle.kind = "none" /\ Idle.rows = {}
    BY DEF Idle, WorkerType, Pcs, AllKinds, Ats, AllResults
  <1>2. NoRow \in RowType
    BY DEF NoRow, RowType
  <1>3. TypeInv
    BY <1>1, <1>2 DEF Init, TypeInv, Workers
  <1>4. worker["health"] = Idle /\ worker["consumer"] = Idle
    BY DEF Init
  <1>5. <<>> \notin WorkerRows
    BY DEF WorkerRows
  <1>6. AtOK /\ Unflagged
    BY <1>1, <1>4, <1>5 DEF AtOK, HealthOK, Unflagged, Health
  <1>7. Counted
    BY DEF Init, Counted
  <1> QED
    BY <1>3, <1>6, <1>7 DEF IInv

(* A change of the record of one worker. *)
LEMMA WorkerUpdate ==
  ASSUME TypeInv, NEW w \in Workers, NEW x \in WorkerType, worker' = [worker EXCEPT ![w] = x]
  PROVE  /\ worker' \in [Workers -> WorkerType] /\ worker'[w] = x
         /\ \A v \in Workers : v # w => worker'[v] = worker[v]
  BY DEF TypeInv

(* The counts depend on the health worker, the rows and the mails only. *)
LEMMA Steady ==
  ASSUME IInv, UNCHANGED <<mails, worker>>, faults' \in Nat, faults <= faults',
         row' \in [Jobs -> RowType], \A j \in Jobs : row'[j].escalated = row[j].escalated
  PROVE  IInv'
  <1>1. TypeInv' /\ AtOK'
    BY DEF IInv, TypeInv, AtOK, Health
  <1>2. \A r \in WorkerRows : r[1] \in Jobs /\ r[2] \in Hours
    BY DEF WorkerRows
  <1>3. Health.rows \subseteq WorkerRows /\ Health' = Health
    BY DEF IInv, TypeInv, WorkerType, Workers, Health
  <1>4. Unflagged'
    BY <1>2, <1>3 DEF IInv, Unflagged
  <1>5. \A j \in Jobs, h \in Hours : mails[j][h] \in Nat /\ (Out(j, h)' <=> Out(j, h))
    BY <1>3 DEF IInv, TypeInv, Out
  <1>6. Counted'
    BY <1>5 DEF IInv, Counted, TypeInv
  <1> QED
    BY <1>1, <1>4, <1>6 DEF IInv

(* A step of one worker that neither mails nor flags; if it takes a mail that
   was out from the worker's hands it is a fault. *)
LEMMA WorkerStep ==
  ASSUME IInv, NEW w \in Workers, NEW x \in WorkerType, worker' = [worker EXCEPT ![w] = x],
         UNCHANGED <<mails, row>>, faults' \in Nat, faults <= faults',
         w = "consumer" => x.at \notin WorkerRows /\ x.kind # "dead-letter-escalate",
         w = "health" =>
           /\ HealthOK(x)
           /\ \A r \in x.rows : r[2] \notin row[r[1]].escalated
           /\ x.at \in WorkerRows => x.at[2] \notin row[x.at[1]].escalated /\ x.at \notin x.rows
           /\ Health.at \in WorkerRows /\ Health.pc \in {"mailed", "hung"} =>
                \/ faults' > faults
                \/ x.at = Health.at /\ x.pc \in {"mailed", "hung"}
  PROVE  IInv'
  <1>1. /\ worker'[w] = x /\ \A v \in Workers : v # w => worker'[v] = worker[v]
        /\ TypeInv'
    BY WorkerUpdate DEF IInv, TypeInv
  <1>2. CASE w = "consumer"
    <2>1. Health' = Health
      BY <1>1, <1>2 DEF Health, Workers
    <2>2. AtOK' /\ Unflagged'
      BY <1>1, <1>2, <2>1 DEF IInv, AtOK, Unflagged
    <2>3. \A j \in Jobs, h \in Hours : mails[j][h] \in Nat /\ (Out(j, h)' <=> Out(j, h))
      BY <2>1 DEF IInv, TypeInv, Out
    <2>4. Counted'
      BY <2>3 DEF IInv, Counted, TypeInv
    <2> QED BY <1>1, <2>2, <2>4 DEF IInv
  <1>3. CASE w = "health"
    <2>1. Health' = x /\ worker'["consumer"] = worker["consumer"]
      BY <1>1, <1>3 DEF Health, Workers
    <2>2. AtOK' /\ Unflagged'
      BY <1>3, <2>1 DEF IInv, AtOK, Unflagged
    <2>3. ASSUME NEW j \in Jobs, NEW h \in Hours
          PROVE  mails'[j][h] <= faults' + (IF h \in row'[j].escalated \/ Out(j, h)' THEN 1 ELSE 0)
      <3>1. mails[j][h] \in Nat /\ faults \in Nat
        BY DEF IInv, TypeInv
      <3>2. mails[j][h] <= faults + (IF h \in row[j].escalated \/ Out(j, h) THEN 1 ELSE 0)
        BY DEF IInv, Counted
      <3>3. <<j, h>> \in WorkerRows
        BY DEF WorkerRows
      <3>4. Out(j, h) => faults' > faults \/ Out(j, h)'
        BY <1>3, <2>1, <3>3 DEF Out
      <3> QED BY <3>1, <3>2, <3>4
    <2>4. Counted'
      BY <2>3 DEF Counted
    <2> QED BY <1>1, <2>2, <2>4 DEF IInv
  <1> QED
    BY <1>2, <1>3 DEF Workers

(* sendAlert's mail: the count of the row it is about goes up, and no flag was
   set, so it was not ahead of the faults. *)
LEMMA MailStep ==
  ASSUME IInv, NEW w \in Workers, Mail(w)
  PROVE  IInv'
  <1>t. TypeInv /\ worker[w] \in WorkerType
    BY DEF IInv, TypeInv
  <1>1. PICK result \in ResultsFor(w) :
           worker' = [worker EXCEPT ![w].pc = IF result.outcome = "hung" THEN "hung" ELSE "mailed",
                                    ![w].result = result]
    BY DEF Mail
  <1> DEFINE pc == IF result.outcome = "hung" THEN "hung" ELSE "mailed"
             x == [worker[w] EXCEPT !.pc = pc, !.result = result]
  <1>2. pc \in {"hung", "mailed"} /\ result \in AllResults
    BY DEF ResultsFor, AllResults
  <1> HIDE DEF pc
  <1>3. /\ x \in WorkerType /\ x.pc = pc /\ x.kind = worker[w].kind /\ x.at = worker[w].at
        /\ x.rows = worker[w].rows
    BY <1>t, <1>2 DEF WorkerType, Pcs
  <1>4. worker' = [worker EXCEPT ![w] = x]
    BY <1>1, <1>t DEF TypeInv, pc
  <1> HIDE DEF x
  <1>5. UNCHANGED <<row, faults>> /\ worker[w].pc = "mail"
    BY DEF Mail, letters, At
  <1>6. \A a \in Ats : Len(a) = 2 <=> a \in WorkerRows
    <2>1. Len(<<>>) = 0 /\ <<>> \notin WorkerRows
      BY DEF WorkerRows
    <2>2. \A j \in Jobs : Len(<<j>>) = 1 /\ <<j>> \notin WorkerRows
      BY DEF WorkerRows
    <2>3. ASSUME NEW a \in WorkerRows PROVE Len(a) = 2
      <3>1. PICK j \in Jobs, h \in Hours : a = <<j, h>>
        BY DEF WorkerRows
      <3> QED BY <3>1
    <2> QED BY <2>1, <2>2, <2>3 DEF Ats
  <1>7. CASE worker[w].at \notin WorkerRows
    <2>1. mails' = mails
      BY <1>6, <1>7, <1>t DEF Mail, WorkerType
    <2>2. w = "health" => Health = worker[w]
      BY DEF Health
    <2>3. w = "health" => HealthOK(x) /\ x.pc # "rows"
      BY <1>2, <1>3, <1>5, <2>2 DEF IInv, AtOK, HealthOK
    <2>4. w = "consumer" => x.at \notin WorkerRows /\ x.kind # "dead-letter-escalate"
      BY <1>3, <1>7 DEF IInv, AtOK
    <2>5. w = "health" => \A r \in x.rows : r[2] \notin row[r[1]].escalated
      BY <1>3, <2>2 DEF IInv, Unflagged
    <2>6. faults' \in Nat /\ faults <= faults'
      BY <1>5, <1>t DEF TypeInv
    <2> QED BY <1>3, <1>4, <1>5, <1>7, <2>1, <2>2, <2>3, <2>4, <2>5, <2>6, WorkerStep
  <1>8. CASE worker[w].at \in WorkerRows
    <2>1. w = "health" /\ Health = worker[w]
      BY <1>8 DEF IInv, AtOK, Workers, Health
    <2>2. PICK j \in Jobs, h \in Hours : Health.at = <<j, h>>
      BY <1>8, <2>1 DEF WorkerRows
    <2>3. mails' = [mails EXCEPT ![j][h] = mails[j][h] + 1]
      <3>1. Len(worker[w].at) = 2 /\ worker[w].at[1] = j /\ worker[w].at[2] = h
        BY <1>6, <1>8, <1>t, <2>1, <2>2 DEF WorkerType
      <3> QED BY <3>1 DEF Mail
    <2>4. /\ mails' \in [Jobs -> [Hours -> Nat]]
          /\ \A i \in Jobs, g \in Hours :
                mails'[i][g] = IF i = j /\ g = h THEN mails[i][g] + 1 ELSE mails[i][g]
      BY <1>t, <2>3 DEF TypeInv
    <2>5. Health' = x /\ worker'["consumer"] = worker["consumer"] /\ TypeInv'
      BY <1>4, <1>5, <1>3, <1>t, <2>1, <2>4, WorkerUpdate DEF TypeInv, Health, Workers
    <2>6. AtOK'
      BY <1>2, <1>3, <1>5, <2>1, <2>5 DEF IInv, AtOK, HealthOK
    <2>7. Unflagged'
      BY <1>3, <1>5, <2>1, <2>5 DEF IInv, Unflagged
    <2>8. Out(j, h)' /\ \A i \in Jobs, g \in Hours : i # j \/ g # h => ~ Out(i, g) /\ ~ Out(i, g)'
      BY <1>2, <1>3, <2>1, <2>2, <2>5 DEF Out
    <2>9. h \notin row[j].escalated /\ ~ Out(j, h)
      BY <1>5, <1>8, <2>1, <2>2 DEF IInv, Unflagged, Out
    <2>10. Counted'
      <3> SUFFICES ASSUME NEW i \in Jobs, NEW g \in Hours
                   PROVE  mails'[i][g] <= faults'
                            + (IF g \in row'[i].escalated \/ Out(i, g)' THEN 1 ELSE 0)
        BY DEF Counted
      <3>1. mails[i][g] <= faults + (IF g \in row[i].escalated \/ Out(i, g) THEN 1 ELSE 0)
        BY DEF IInv, Counted
      <3>2. mails[i][g] \in Nat /\ faults \in Nat /\ faults' = faults /\ row' = row
        BY <1>5, <1>t DEF TypeInv
      <3>3. CASE i = j /\ g = h
        BY <2>4, <2>8, <2>9, <3>1, <3>2, <3>3
      <3>4. CASE i # j \/ g # h
        BY <2>4, <2>8, <3>1, <3>2, <3>4
      <3> QED BY <3>3, <3>4
    <2> QED BY <2>5, <2>6, <2>7, <2>10 DEF IInv
  <1> QED
    BY <1>7, <1>8

(* The flag of the mail that is out is set, or an alert of another kind ends. *)
LEMMA MarkStep ==
  ASSUME IInv, NEW w \in Workers, MarkOrFinish(w)
  PROVE  IInv'
  <1>t. TypeInv /\ worker[w] \in WorkerType /\ WorkerType = WorkerType
    BY DEF IInv, TypeInv
  <1>i. Idle \in WorkerType /\ Idle.at = <<>> /\ Idle.pc = "idle" /\ Idle.kind = "none" /\ Idle.rows = {}
    BY DEF Idle, WorkerType, Pcs, AllKinds, Ats, AllResults
  <1>e. <<>> \notin WorkerRows
    BY DEF WorkerRows
  <1>1. worker[w].pc = "mailed" /\ UNCHANGED <<mails, faults>> /\ faults \in Nat
    BY <1>t DEF MarkOrFinish, At, ghosts, TypeInv
  <1>2. CASE worker[w].kind # "dead-letter-escalate"
    <2>1. row' = row /\ worker' = [worker EXCEPT ![w] = Idle]
      BY <1>2 DEF MarkOrFinish
    <2>2. w = "health" => Health.at \notin WorkerRows
      BY <1>2 DEF IInv, AtOK, HealthOK, Health
    <2>3. HealthOK(Idle)
      BY <1>e, <1>i DEF HealthOK
    <2>4. UNCHANGED <<mails, row>> /\ faults' \in Nat /\ faults <= faults'
      BY <1>1, <2>1
    <2>5. Idle.at \notin WorkerRows /\ Idle.kind # "dead-letter-escalate"
      BY <1>e, <1>i
    <2> QED BY <1>i, <2>1, <2>2, <2>3, <2>4, <2>5, WorkerStep
  <1>3. CASE worker[w].kind = "dead-letter-escalate"
    <2>1. w = "health" /\ Health = worker[w] /\ Health.at \in WorkerRows
      BY <1>1, <1>3 DEF IInv, AtOK, HealthOK, Workers, Health
    <2>2. PICK j \in Jobs, h \in Hours : Health.at = <<j, h>>
      BY <2>1 DEF WorkerRows
    <2> DEFINE x == [worker[w] EXCEPT !.pc = "rows", !.at = <<>>, !.result = NoResult]
    <2>3. worker' = [worker EXCEPT ![w] = x]
      BY <1>3, <1>t DEF MarkOrFinish, TypeInv
    <2>4. /\ x \in WorkerType /\ x.pc = "rows" /\ x.at = <<>> /\ x.kind = worker[w].kind
          /\ x.rows = worker[w].rows
      BY <1>t DEF WorkerType, Pcs, Ats, AllResults
    <2>5. row' = [row EXCEPT ![j].escalated = row[j].escalated \cup {h}]
      <3>1. worker[w].at[1] = j /\ worker[w].at[2] = h
        BY <2>1, <2>2
      <3> QED BY <1>3, <3>1 DEF MarkOrFinish
    <2>6. /\ row' \in [Jobs -> RowType]
          /\ \A i \in Jobs : row'[i].escalated = IF i = j THEN row[i].escalated \cup {h}
                                                          ELSE row[i].escalated
      <3>1. row[j] \in RowType /\ \A i \in Jobs : row[i] \in RowType
        BY <1>t DEF TypeInv
      <3>2. [row[j] EXCEPT !.escalated = row[j].escalated \cup {h}] \in RowType
        BY <3>1 DEF RowType
      <3> QED BY <1>t, <2>5, <3>1, <3>2 DEF TypeInv, RowType
    <2> HIDE DEF x
    <2>7. Health' = x /\ worker'["consumer"] = worker["consumer"] /\ TypeInv'
      BY <1>1, <1>t, <2>1, <2>3, <2>4, <2>6, WorkerUpdate DEF TypeInv, Health, Workers
    <2>8. AtOK'
      BY <1>3, <1>e, <2>4, <2>7 DEF IInv, AtOK, HealthOK
    <2>9. Unflagged'
      <3> SUFFICES ASSUME NEW r \in Health.rows PROVE r[2] \notin row'[r[1]].escalated
        BY <1>e, <2>1, <2>4, <2>7 DEF Unflagged
      <3>1. PICK i \in Jobs, g \in Hours : r = <<i, g>>
        BY <1>t, <2>1 DEF WorkerType, WorkerRows
      <3>2. g \notin row[i].escalated /\ <<i, g>> # <<j, h>>
        BY <2>1, <2>2, <3>1 DEF IInv, Unflagged
      <3> QED BY <2>6, <3>1, <3>2
    <2>10. Counted'
      <3> SUFFICES ASSUME NEW i \in Jobs, NEW g \in Hours
                   PROVE  mails'[i][g] <= faults'
                            + (IF g \in row'[i].escalated \/ Out(i, g)' THEN 1 ELSE 0)
        BY DEF Counted
      <3>1. mails[i][g] <= faults + (IF g \in row[i].escalated \/ Out(i, g) THEN 1 ELSE 0)
        BY DEF IInv, Counted
      <3>2. mails[i][g] \in Nat
        BY <1>t DEF TypeInv
      <3>3. Out(i, g) => g \in row'[i].escalated
        <4>1. Out(i, g) => <<i, g>> = <<j, h>>
          BY <2>2 DEF Out
        <4>2. <<i, g>> = <<j, h>> => i = j /\ g = h
          OBVIOUS
        <4> QED BY <2>6, <4>1, <4>2
      <3>4. g \in row[i].escalated => g \in row'[i].escalated
        BY <2>6
      <3> QED BY <1>1, <3>1, <3>2, <3>3, <3>4
    <2> QED BY <2>7, <2>8, <2>9, <2>10 DEF IInv
  <1> QED
    BY <1>2, <1>3

(* A step of a worker that hands its job on or gives it up. *)
LEMMA IdleStep ==
  ASSUME IInv, NEW w \in Workers, worker' = [worker EXCEPT ![w] = Idle],
         UNCHANGED <<mails, row>>, faults' \in Nat, faults <= faults',
         worker[w].pc \in {"mailed", "hung"} => faults' > faults
  PROVE  IInv'
  <1>i. Idle \in WorkerType /\ Idle.at = <<>> /\ Idle.pc = "idle" /\ Idle.kind = "none" /\ Idle.rows = {}
    BY DEF Idle, WorkerType, Pcs, AllKinds, Ats, AllResults
  <1>e. <<>> \notin WorkerRows
    BY DEF WorkerRows
  <1>1. HealthOK(Idle)
    BY <1>e, <1>i DEF HealthOK
  <1>2. Idle.at \notin WorkerRows /\ Idle.kind # "dead-letter-escalate"
    BY <1>e, <1>i
  <1>3. w = "health" => (Health.pc \in {"mailed", "hung"} => faults' > faults)
    BY DEF Health
  <1> QED
    BY <1>i, <1>1, <1>2, <1>3, WorkerStep

(* A step of a worker within its job, at the same row. *)
LEMMA MoveStep ==
  ASSUME IInv, NEW w \in Workers, NEW pc \in {"alert", "mail"},
         worker' = [worker EXCEPT ![w].pc = pc],
         worker[w].pc \in {"degraded", "alert"}, UNCHANGED <<mails, row, faults>>
  PROVE  IInv'
  <1>t. TypeInv /\ worker[w] \in WorkerType /\ faults \in Nat
    BY DEF IInv, TypeInv
  <1> DEFINE x == [worker[w] EXCEPT !.pc = pc]
  <1>1. worker' = [worker EXCEPT ![w] = x]
    OBVIOUS
  <1>2. /\ x \in WorkerType /\ x.pc = pc /\ x.at = worker[w].at /\ x.kind = worker[w].kind
        /\ x.rows = worker[w].rows
    BY <1>t DEF WorkerType, Pcs
  <1> HIDE DEF x
  <1>3. w = "health" => Health = worker[w]
    BY DEF Health
  <1>4. w = "health" => HealthOK(x)
    BY <1>2, <1>3 DEF IInv, AtOK, HealthOK
  <1>5. w = "consumer" => x.at \notin WorkerRows /\ x.kind # "dead-letter-escalate"
    BY <1>2 DEF IInv, AtOK
  <1>6. w = "health" =>
           /\ \A r \in x.rows : r[2] \notin row[r[1]].escalated
           /\ x.at \in WorkerRows => x.at[2] \notin row[x.at[1]].escalated /\ x.at \notin x.rows
           /\ Health.pc \notin {"mailed", "hung"}
    BY <1>2, <1>3 DEF IInv, Unflagged
  <1>7. faults' \in Nat /\ faults <= faults'
    BY <1>t
  <1> QED
    BY <1>1, <1>2, <1>4, <1>5, <1>6, <1>7, WorkerStep

(* The health worker takes a job: a scan has the rows without the flag. *)
LEMMA TakeStep ==
  ASSUME IInv, NEW kind \in Kinds, TakeHealth(kind)
  PROVE  IInv'
  <1>t. TypeInv /\ faults \in Nat
    BY DEF IInv, TypeInv
  <1>1. PICK degraded :
           worker' = [worker EXCEPT !["health"] =
             [Idle EXCEPT !.pc = CASE kind = "dead-letter-escalate" -> "rows"
                               [] kind = "tier-b-probe" -> IF degraded THEN "degraded" ELSE "in order"
                               [] OTHER -> "run",
                          !.kind = kind,
                          !.rows = IF kind = "dead-letter-escalate" THEN Overdue ELSE {}]]
    BY DEF TakeHealth
  <1> DEFINE pc == CASE kind = "dead-letter-escalate" -> "rows"
                     [] kind = "tier-b-probe" -> IF degraded THEN "degraded" ELSE "in order"
                     [] OTHER -> "run"
             rows == IF kind = "dead-letter-escalate" THEN Overdue ELSE {}
             x == [Idle EXCEPT !.pc = pc, !.kind = kind, !.rows = rows]
  <1>2. pc \in {"rows", "degraded", "in order", "run"} /\ (pc = "rows" <=> kind = "dead-letter-escalate")
    BY DEF Kinds
  <1>3. rows \subseteq WorkerRows /\ \A r \in rows : r[2] \notin row[r[1]].escalated
    BY DEF Overdue, WorkerRows
  <1>4. worker' = [worker EXCEPT !["health"] = x]
    BY <1>1
  <1> HIDE DEF pc, rows
  <1>5. x \in WorkerType /\ x.pc = pc /\ x.kind = kind /\ x.rows = rows /\ x.at = <<>>
    BY <1>2, <1>3 DEF Idle, WorkerType, Pcs, AllKinds, Ats, AllResults
  <1> HIDE DEF x
  <1>6. <<>> \notin WorkerRows
    BY DEF WorkerRows
  <1>7. HealthOK(x)
    BY <1>2, <1>5, <1>6 DEF HealthOK
  <1>8. UNCHANGED <<mails, row, faults>> /\ Health.pc = "idle"
    BY DEF TakeHealth, letters, ghosts, At, Health
  <1>9. faults' \in Nat /\ faults <= faults' /\ "health" \in Workers /\ "health" # "consumer"
    BY <1>t, <1>8 DEF Workers
  <1> QED
    BY <1>3, <1>4, <1>5, <1>6, <1>7, <1>8, <1>9, WorkerStep

(* The scan goes on to its next row. *)
LEMMA NextRowStep ==
  ASSUME IInv, NextRow
  PROVE  IInv'
  <1>t. TypeInv /\ worker["health"] \in WorkerType /\ faults \in Nat
    BY DEF IInv, TypeInv, Workers
  <1>1. PICK r \in Health.rows :
           worker' = [worker EXCEPT !["health"].pc = "alert", !["health"].at = r,
                                    !["health"].rows = Health.rows \ {r}]
    BY DEF NextRow, Health
  <1>2. /\ Health.pc = "rows" /\ UNCHANGED <<mails, row, faults>>
    BY DEF NextRow, At, Health, letters, ghosts
  <1> DEFINE x == [worker["health"] EXCEPT !.pc = "alert", !.at = r, !.rows = Health.rows \ {r}]
  <1>3. worker' = [worker EXCEPT !["health"] = x]
    BY <1>1, <1>t DEF TypeInv, Workers
  <1>4. r \in WorkerRows /\ Health.rows \subseteq WorkerRows
    BY <1>t DEF WorkerType, Health
  <1>5. x \in WorkerType /\ x.pc = "alert" /\ x.at = r /\ x.rows = Health.rows \ {r} /\ x.kind = Health.kind
    BY <1>t, <1>4 DEF WorkerType, Pcs, Ats, Health
  <1> HIDE DEF x
  <1>6. HealthOK(x)
    BY <1>2, <1>4, <1>5 DEF IInv, AtOK, HealthOK
  <1>7. \A q \in Health.rows : q[2] \notin row[q[1]].escalated
    BY DEF IInv, Unflagged
  <1>8. faults' \in Nat /\ faults <= faults' /\ "health" \in Workers /\ "health" # "consumer"
    BY <1>t, <1>2 DEF Workers
  <1>9. x.at \in WorkerRows => x.at[2] \notin row[x.at[1]].escalated /\ x.at \notin x.rows
    BY <1>5, <1>7
  <1> QED
    BY <1>2, <1>3, <1>5, <1>6, <1>7, <1>8, <1>9, WorkerStep

(* Each action is one of the steps above. *)
LEMMA NextIInv == IInv /\ [Next]_vars => IInv'
  <1> SUFFICES ASSUME IInv, [Next]_vars PROVE IInv'
    OBVIOUS
  <1>t. TypeInv /\ faults \in Nat /\ \A j \in Jobs : row[j] \in RowType
    BY DEF IInv, TypeInv
  <1>d. DOMAIN worker = Workers /\ "health" \in Workers /\ "consumer" \in Workers
    BY <1>t DEF TypeInv, Workers
  <1>1. ASSUME NEW j \in Jobs,
               ListRow(j) \/ AddEvent(j) \/ AddFails(j) \/ RetryDeadLetter(j) \/ Ages(j)
        PROVE  IInv'
    <2>1. UNCHANGED <<mails, worker>> /\ faults' \in Nat /\ faults <= faults'
      BY <1>1, <1>t DEF ListRow, AddEvent, AddFails, RetryDeadLetter, Ages, ghosts
    <2>2. row' \in [Jobs -> RowType] /\ \A i \in Jobs : row'[i].escalated = row[i].escalated
      <3>1. CASE row' = row
        BY <1>t, <3>1 DEF TypeInv
      <3>2. ASSUME NEW b \in BOOLEAN, row' = [row EXCEPT ![j].listed = b]
            PROVE  row' \in [Jobs -> RowType] /\ \A i \in Jobs : row'[i].escalated = row[i].escalated
        BY <1>t, <3>2 DEF TypeInv, RowType
      <3>3. ASSUME NEW n \in Nat, row' = [row EXCEPT ![j].age = n]
            PROVE  row' \in [Jobs -> RowType] /\ \A i \in Jobs : row'[i].escalated = row[i].escalated
        BY <1>t, <3>3 DEF TypeInv, RowType
      <3>4. CASE ListRow(j)
        BY <3>2, <3>4 DEF ListRow
      <3>5. CASE RetryDeadLetter(j)
        BY <3>2, <3>5 DEF RetryDeadLetter
      <3>6. CASE AddEvent(j) \/ AddFails(j)
        BY <3>1, <3>6 DEF AddEvent, AddFails
      <3>7. CASE Ages(j)
        <4>1. \/ row' = [row EXCEPT ![j].age = 24] 
              \/ row' = [row EXCEPT ![j].age = 72]
          BY <3>7 DEF Ages
        <4> QED BY <3>3, <4>1
      <3> QED BY <1>1, <3>4, <3>5, <3>6, <3>7
    <2> QED BY <2>1, <2>2, Steady
  <1>2. ASSUME Ingest \/ SetTierEnabled \/ RunsChange \/ UNCHANGED vars
        PROVE  IInv'
    <2>1. UNCHANGED <<mails, worker, row, faults>>
      BY <1>2 DEF Ingest, SetTierEnabled, RunsChange, vars, letters, ghosts
    <2>2. faults' \in Nat /\ faults <= faults' /\ row' \in [Jobs -> RowType]
      BY <1>t, <2>1 DEF TypeInv
    <2> QED BY <2>1, <2>2, Steady
  <1>3. ASSUME NEW j \in Jobs, TakeEvent(j)
        PROVE  IInv'
    <2> DEFINE x == ProcessDeadLetterEvent(j)
    <2>1. worker' = [worker EXCEPT !["consumer"] = x] /\ UNCHANGED <<mails, row, faults>>
      BY <1>3 DEF TakeEvent, ghosts
    <2>2. x \in WorkerType /\ x.at = <<j>> /\ x.kind = "dead-letter"
      BY DEF ProcessDeadLetterEvent, Idle, WorkerType, Pcs, AllKinds, Ats, AllResults
    <2> HIDE DEF x
    <2>3. x.at \notin WorkerRows /\ x.kind # "dead-letter-escalate"
      BY <2>2 DEF WorkerRows
    <2>4. faults' \in Nat /\ faults <= faults' /\ "health" # "consumer"
      BY <1>t, <2>1
    <2> QED BY <1>d, <2>1, <2>2, <2>3, <2>4, WorkerStep
  <1>4. ASSUME NEW kind \in Kinds, TakeHealth(kind)
        PROVE  IInv'
    BY <1>4, TakeStep
  <1>5. ASSUME FinishOther \/ EscalationEnds
        PROVE  IInv'
    <2>1. /\ worker' = [worker EXCEPT !["health"] = Idle] /\ UNCHANGED <<mails, row, faults>>
          /\ worker["health"].pc \in {"run", "rows"}
      BY <1>5 DEF FinishOther, EscalationEnds, At, letters, ghosts
    <2>2. faults' \in Nat /\ faults <= faults'
      BY <1>t, <2>1
    <2> QED BY <1>d, <2>1, <2>2, IdleStep
  <1>6. ASSUME RecordProbe
        PROVE  IInv'
    <2>0. UNCHANGED <<mails, row, faults>>
      BY <1>6, Zenon DEF RecordProbe, letters, ghosts
    <2>1. UNCHANGED <<mails, row, faults>> /\ faults' \in Nat /\ faults <= faults'
      BY <1>t, <2>0
    <2>2. CASE At("health", "degraded")
      <3>1. worker' = [worker EXCEPT !["health"].pc = "alert"] /\ worker["health"].pc = "degraded"
        BY <1>6, <2>2 DEF RecordProbe, To, At
      <3> QED BY <1>d, <2>1, <3>1, MoveStep
    <2>3. CASE ~ At("health", "degraded")
      <3>1. worker' = [worker EXCEPT !["health"] = Idle] /\ worker["health"].pc \in {"degraded", "in order"}
        BY <1>6, <2>3 DEF RecordProbe
      <3> QED BY <1>d, <2>1, <3>1, IdleStep
    <2> QED BY <2>2, <2>3
  <1>7. ASSUME NextRow
        PROVE  IInv'
    BY <1>7, NextRowStep
  <1>8. ASSUME Restart
        PROVE  IInv'
    <2>1. /\ worker' = [w \in Workers |-> Idle] /\ UNCHANGED <<mails, row>>
          /\ faults' = faults + 1
      BY <1>8, <1>d DEF Restart, ghosts
    <2>2. Idle \in WorkerType /\ Idle.at = <<>> /\ Idle.pc = "idle" /\ Idle.kind = "none" /\ Idle.rows = {}
      BY DEF Idle, WorkerType, Pcs, AllKinds, Ats, AllResults
    <2>3. Health' = Idle /\ worker'["consumer"] = Idle /\ TypeInv'
      BY <1>d, <1>t, <2>1, <2>2 DEF Health, TypeInv
    <2>4. <<>> \notin WorkerRows
      BY DEF WorkerRows
    <2>5. AtOK' /\ Unflagged'
      BY <2>2, <2>3, <2>4 DEF AtOK, HealthOK, Unflagged
    <2>6. Counted'
      <3> SUFFICES ASSUME NEW j \in Jobs, NEW h \in Hours
                   PROVE  mails'[j][h] <= faults'
                            + (IF h \in row'[j].escalated \/ Out(j, h)' THEN 1 ELSE 0)
        BY DEF Counted
      <3>1. mails[j][h] <= faults + (IF h \in row[j].escalated \/ Out(j, h) THEN 1 ELSE 0)
        BY DEF IInv, Counted
      <3>2. mails[j][h] \in Nat
        BY <1>t DEF TypeInv
      <3> QED BY <1>t, <2>1, <3>1, <3>2
    <2> QED BY <2>3, <2>5, <2>6 DEF IInv
  <1>9. ASSUME NEW w \in Workers, Audit(w)
        PROVE  IInv'
    <2>1. UNCHANGED <<mails, row, faults>> /\ worker' = [worker EXCEPT ![w].pc = "mail"]
          /\ worker[w].pc = "alert"
      BY <1>9 DEF Audit, To, At, letters, ghosts
    <2> QED BY <2>1, MoveStep
  <1>10. ASSUME NEW w \in Workers, Mail(w)
         PROVE  IInv'
    BY <1>10, MailStep
  <1>11. ASSUME NEW w \in Workers, MarkOrFinish(w)
         PROVE  IInv'
    BY <1>11, MarkStep
  <1>12. ASSUME NEW w \in Workers, JobFails(w)
         PROVE  IInv'
    <2>1. UNCHANGED <<mails, row>> /\ worker' = [worker EXCEPT ![w] = Idle] /\ faults' = faults + 1
      BY <1>12 DEF JobFails, letters, ghosts
    <2>2. faults' \in Nat /\ faults <= faults' /\ faults' > faults
      BY <1>t, <2>1
    <2> QED BY <2>1, <2>2, IdleStep
  <1> QED
    BY <1>1, <1>2, <1>3, <1>4, <1>5, <1>6, <1>7, <1>8, <1>9, <1>10, <1>11, <1>12, <1>d
    DEF Next, HealthStep, Work

(* The inductive invariant: the count of a row's mails is ahead of the faults
   only while the one mail that is out is not flagged, or by the flag. *)
THEOREM InductiveInvariant == Spec => []IInv
  BY InitIInv, NextIInv, PTL DEF Spec

(* A job's escalation mail of either kind is repeated only after a crash or a
   failed statement (HealthWorker!EscalatedOnce), however often the job is
   buried and retried, the scan repeated, and whatever the mail server does:
   escalateUnresolvedDeadLetters sets the flag of a mail before it goes on. *)
THEOREM EscalatedOnceThm == Spec => []EscalatedOnce
  <1>1. IInv => EscalatedOnce
    <2> SUFFICES ASSUME IInv, NEW j \in Jobs, NEW h \in Hours PROVE mails[j][h] <= 1 + faults
      BY DEF EscalatedOnce
    <2>1. mails[j][h] <= faults + (IF h \in row[j].escalated \/ Out(j, h) THEN 1 ELSE 0)
      BY DEF IInv, Counted
    <2>2. mails[j][h] \in Nat /\ faults \in Nat
      BY DEF IInv, TypeInv
    <2> QED BY <2>1, <2>2
  <1> QED
    BY <1>1, InductiveInvariant, PTL

-----------------------------------------------------------------------------
(* The mail.  Induction over the commands of a conversation and over the     *)
(* contacts goes through sets of numbers: LeastMember, Climbs, Recursion.    *)

(* The numbers are well founded. *)
LEMMA LeastMember ==
  ASSUME NEW T \in SUBSET Nat, T # {}
  PROVE  \E x \in T : \A y \in T : x <= y
<1>1. PICK R : R = OpToRel(<, Nat)
  OBVIOUS
<1>2. IsWellFoundedOn(R, Nat)
  BY <1>1, NatLessThanWellFounded
<1>3. ASSUME NEW x \in Nat, NEW y \in Nat, y < x PROVE <<y, x>> \in R
  BY <1>1, <1>3 DEF OpToRel
<1>4. PICK x \in T : \A y \in T : ~ (<<y, x>> \in R)
  BY <1>2, WFMin
<1>5. ASSUME NEW y \in T PROVE x <= y
  <2>1. ~ (y < x)
    BY <1>3, <1>4
  <2>2. QED BY <2>1
<1>6. QED BY <1>5

(* Induction: a set of numbers from 0 on that goes on as far as m. *)
LEMMA Climbs ==
  ASSUME NEW T, NEW m \in Nat, 0 \in T, \A n \in 1..m : n - 1 \in T => n \in T
  PROVE  0..m \subseteq T
<1> DEFINE Missing == {n \in 0..m : n \notin T}
<1>1. CASE Missing # {}
  <2>1. PICK x \in Missing : \A y \in Missing : x <= y
    <3>1. Missing \in SUBSET Nat
      OBVIOUS
    <3> HIDE DEF Missing
    <3>2. QED BY <1>1, <3>1, LeastMember
  <2>2. x \in 1..m /\ x \notin T
    OBVIOUS
  <2>3. x - 1 \in 0..m /\ ~(x <= x - 1)
    BY <2>2
  <2>4. x - 1 \in T
    BY <2>1, <2>3
  <2>5. QED BY <2>2, <2>4
<1>2. CASE Missing = {}
  BY <1>2
<1>3. QED BY <1>1, <1>2

(* A function may be defined step by step. *)
Defined(f, S, m, base, step) ==
  f \in [0..m -> S] /\ f[0] = base /\ \A n \in 1..m : f[n] = step[<<n, f[n - 1]>>]

(* The recursion theorem for functions on 0..m, from Climbs. *)
LEMMA Recursion ==
  ASSUME NEW S, NEW m \in Nat, NEW base \in S, NEW step \in [(1..m) \X S -> S]
  PROVE  \E f : Defined(f, S, m, base, step)
<1> DEFINE Good(f, n) == f \in [0..n -> S] /\ f[0] = base /\ \A k \in 1..n : f[k] = step[<<k, f[k - 1]>>]
           T == {n \in 0..m : \E f : Good(f, n)}
<1>1. 0 \in T
  <2>1. Good([k \in 0..0 |-> base], 0)
    OBVIOUS
  <2> HIDE DEF Good
  <2>2. QED BY <2>1
<1>2. ASSUME NEW n \in 1..m, n - 1 \in T
      PROVE  n \in T
  <2>1. PICK f : Good(f, n - 1)
    BY <1>2
  <2> DEFINE g == [k \in 0..n |-> IF k = n THEN step[<<n, f[n - 1]>>] ELSE f[k]]
  <2>2. n - 1 \in 0..(n - 1) /\ f[n - 1] \in S
    BY <2>1
  <2>3. g \in [0..n -> S]
    BY <2>1, <2>2
  <2>4. g[0] = base
    BY <2>1
  <2>5. ASSUME NEW k \in 1..n
        PROVE  g[k] = step[<<k, g[k - 1]>>]
    <3>1. g[k - 1] = f[k - 1]
      OBVIOUS
    <3>2. CASE k = n
      <4>1. g[k] = step[<<n, f[n - 1]>>]
        BY <3>2
      <4>2. QED BY <3>1, <3>2, <4>1
    <3>3. CASE k # n
      BY <2>1, <3>1, <3>3
    <3>4. QED BY <3>2, <3>3
  <2>6. Good(g, n)
    BY <2>3, <2>4, <2>5
  <2> HIDE DEF Good, g
  <2>7. QED BY <2>6
<1>3. m \in T
  <2> HIDE DEF T
  <2>1. QED BY <1>1, <1>2, Climbs
<1>4. PICK f : Good(f, m)
  BY <1>3
<1>5. Defined(f, S, m, base, step)
  BY <1>4 DEF Defined
<1>6. QED BY <1>5

(* Partial concatenations of the answers to m commands. *)
Sums(f, ss, m) ==
  /\ ss \in [1..m -> Seq(Nat)] /\ f \in [0..m -> Seq(Nat)] /\ f[0] = <<>>
  /\ \A n \in 1..m : f[n] = f[n - 1] \o ss[n]

(* FlattenSeq computes the last of the partial concatenations. *)
LEMMA Flat ==
  ASSUME NEW ss \in Seq(Seq(Nat)), Len(ss) > 0
  PROVE  \E f : Sums(f, ss, Len(ss)) /\ FlattenSeq(ss) = f[Len(ss)]
<1> DEFINE m == Len(ss)
           F(g) == [i \in 1..m |-> IF i = 1 THEN ss[i] ELSE g[i - 1] \o ss[i]]
           flatten == CHOOSE g : g = F(g)
<1>0. m \in Nat /\ 1 \in 1..m /\ m \in 1..m /\ \A i \in 1..m : ss[i] \in Seq(Nat)
  OBVIOUS
<1>1. PICK f \in [0..m -> Seq(Nat)] : f[0] = <<>> /\ \A n \in 1..m : f[n] = f[n - 1] \o ss[n]
  <2> DEFINE step == [x \in (1..m) \X Seq(Nat) |-> x[2] \o ss[x[1]]]
  <2>1. step \in [(1..m) \X Seq(Nat) -> Seq(Nat)]
    OBVIOUS
  <2>2. \A n \in 1..m, s \in Seq(Nat) : step[<<n, s>>] = s \o ss[n]
    OBVIOUS
  <2>3. <<>> \in Seq(Nat) /\ m \in Nat
    OBVIOUS
  <2> HIDE DEF step, m
  <2>4. PICK f \in [0..m -> Seq(Nat)] : f[0] = <<>> /\ \A n \in 1..m : f[n] = step[<<n, f[n - 1]>>]
    <3> DEFINE Codes == Seq(Nat)
               base == <<>>
    <3>1. step \in [(1..m) \X Codes -> Codes] /\ base \in Codes /\ m \in Nat
      BY <2>1, <2>3
    <3> HIDE DEF Codes, base
    <3>2. PICK f : Defined(f, Codes, m, base, step)
      BY <3>1, Recursion
    <3>3. QED BY <3>2 DEF Codes, base, Defined
  <2>5. ASSUME NEW n \in 1..m
        PROVE  f[n] = f[n - 1] \o ss[n]
    <3>1. f[n - 1] \in Seq(Nat)
      BY <2>3
    <3>2. QED BY <2>2, <2>4, <3>1
  <2>6. QED BY <2>4, <2>5
<1>2. \E g : g = F(g)
  <2> DEFINE g == [i \in 1..m |-> f[i]]
  <2>1. ASSUME NEW i \in 1..m
        PROVE  g[i] = IF i = 1 THEN ss[i] ELSE g[i - 1] \o ss[i]
    <3>1. CASE i = 1
      <4>1. <<>> \o ss[1] = ss[1]
        BY <1>0
      <4>2. f[1] = f[1 - 1] \o ss[1]
        BY <1>0, <1>1
      <4>3. f[1] = ss[1]
        <5>1. f[1 - 1] = <<>>
          BY <1>1
        <5>2. QED BY <4>1, <4>2, <5>1
      <4>4. g[i] = f[i]
        OBVIOUS
      <4>5. QED BY <3>1, <4>3, <4>4
    <3>2. CASE i # 1
      <4>1. i - 1 \in 1..m /\ m \in Nat
        BY <3>2
      <4>2. g[i - 1] = f[i - 1] /\ g[i] = f[i]
        BY <4>1
      <4>3. f[i] = f[i - 1] \o ss[i]
        BY <1>1
      <4>4. QED BY <3>2, <4>2, <4>3
    <3>3. QED BY <3>1, <3>2
  <2>2. g = F(g)
    BY <2>1
  <2>3. QED BY <2>2
<1>3. flatten = F(flatten)
  <2> HIDE DEF F
  <2>1. QED BY <1>2
<1>4. FlattenSeq(ss) = flatten[m]
  BY DEF FlattenSeq
<1>5. m \in {n \in 0..m : n # 0 => flatten[n] = f[n]}
  <2> DEFINE T == {n \in 0..m : n # 0 => flatten[n] = f[n]}
  <2>1. 0 \in T
    BY <1>0
  <2>2. ASSUME NEW n \in 1..m, n - 1 \in T
        PROVE  n \in T
    <3>1. flatten[n] = IF n = 1 THEN ss[n] ELSE flatten[n - 1] \o ss[n]
      <4> HIDE DEF flatten
      <4>1. QED BY <1>3
    <3>2. f[n] = f[n - 1] \o ss[n]
      BY <1>1
    <3> HIDE DEF flatten
    <3>3. CASE n = 1
      <4>1. <<>> \o ss[1] = ss[1]
        BY <1>0
      <4>2. flatten[n] = f[n]
        <5>1. f[1 - 1] = <<>>
          BY <1>1
        <5>2. QED BY <3>1, <3>2, <3>3, <4>1, <5>1
      <4>3. QED BY <4>2
    <3>4. CASE n # 1
      <4>1. flatten[n - 1] = f[n - 1]
        BY <2>2, <3>4
      <4>2. flatten[n] = f[n]
        BY <3>1, <3>2, <3>4, <4>1
      <4>3. QED BY <4>2
    <3>5. QED BY <3>3, <3>4
  <2> HIDE DEF T
  <2>3. 0..m \subseteq T
    BY <1>0, <2>1, <2>2, Climbs
  <2>4. m \in T
    BY <1>0, <2>3
  <2>5. QED BY <2>4 DEF T
<1>6. FlattenSeq(ss) = f[m]
  <2> HIDE DEF flatten
  <2>1. QED BY <1>0, <1>4, <1>5
<1>7. Sums(f, ss, m)
  <2>1. ss \in [1..m -> Seq(Nat)]
    <3> DEFINE X == Seq(Nat)
    <3>1. ss \in Seq(X)
      OBVIOUS
    <3> HIDE DEF X
    <3>2. ss \in [1..m -> X]
      BY <3>1
    <3>3. QED BY <3>2 DEF X
  <2> HIDE DEF m
  <2>2. QED BY <1>1, <2>1 DEF Sums
<1>8. QED BY <1>6, <1>7

Rises(T, a, b) == \A n \in (a + 1)..b : n - 1 \in T => n \in T

(* Induction: a set of numbers with a that goes on as far as b. *)
LEMMA Climb ==
  ASSUME NEW T, NEW a \in Nat, NEW b \in Nat, a <= b, a \in T, Rises(T, a, b)
  PROVE  b \in T
<1> DEFINE Missing == {n \in a..b : n \notin T}
<1>1. CASE Missing # {}
  <2>1. Missing \in SUBSET Nat
    OBVIOUS
  <2>2. PICK x \in Missing : \A y \in Missing : x <= y
    <3> HIDE DEF Missing
    <3>1. QED BY <1>1, <2>1, LeastMember
  <2>3. x \in (a + 1)..b /\ x \notin T
    OBVIOUS
  <2>4. x - 1 \in a..b /\ ~(x <= x - 1)
    BY <2>3
  <2>5. x - 1 \in T
    BY <2>2, <2>4
  <2>6. QED BY <2>3, <2>5 DEF Rises
<1>2. QED BY <1>1

Adds(f, ss, n) ==
  LET r == f[n - 1] IN
  /\ Len(r) \in Nat /\ Len(ss[n]) \in Nat /\ Len(f[n]) = Len(r) + Len(ss[n])
  /\ \A k \in 1..Len(r) : f[n][k] = r[k]
  /\ \A k \in 1..Len(ss[n]) : f[n][Len(r) + k] = ss[n][k]

(* Answer n is appended to the lines before it. *)
LEMMA SumsStep ==
  ASSUME NEW m \in Nat, NEW ss, NEW f, Sums(f, ss, m), NEW n \in 1..m
  PROVE  Adds(f, ss, n)
<1> DEFINE r == f[n - 1]
           z == ss[n]
<1>1. n - 1 \in 0..m
  OBVIOUS
<1>2. r \in Seq(Nat) /\ z \in Seq(Nat) /\ f[n] = r \o z
  BY <1>1 DEF Sums
<1> HIDE DEF r, z
<1>3. /\ Len(r) \in Nat /\ Len(z) \in Nat /\ Len(r \o z) = Len(r) + Len(z)
      /\ \A k \in 1..Len(r) : (r \o z)[k] = r[k]
      /\ \A k \in 1..Len(z) : (r \o z)[Len(r) + k] = z[k]
  BY <1>2
<1>4. QED BY <1>2, <1>3 DEF r, z, Adds

(* Every partial concatenation is a sequence of codes. *)
LEMMA SumsLen ==
  ASSUME NEW m \in Nat, NEW ss, NEW f, Sums(f, ss, m), NEW n \in 0..m
  PROVE  f[n] \in Seq(Nat) /\ Len(f[n]) \in Nat
<1>1. f[n] \in Seq(Nat)
  BY DEF Sums
<1>2. QED BY <1>1

(* They extend each other, and as many lines are new as there are answers. *)
LEMMA SumsGrow ==
  ASSUME NEW m \in Nat, NEW ss, NEW f, Sums(f, ss, m), NEW a \in 0..m, NEW b \in a..m
  PROVE  /\ Len(f[a]) <= Len(f[b])
         /\ \A k \in 1..Len(f[a]) : f[b][k] = f[a][k]
<1> DEFINE T == {n \in a..m : Len(f[a]) <= Len(f[n]) /\ \A k \in 1..Len(f[a]) : f[n][k] = f[a][k]}
<1>1. a \in T
  BY SumsLen
<1>2. ASSUME NEW n \in (a + 1)..m, n - 1 \in T
      PROVE  n \in T
  <2>1. Len(f[a]) <= Len(f[n - 1]) /\ \A k \in 1..Len(f[a]) : f[n - 1][k] = f[a][k]
    BY <1>2
  <2>2. n \in 1..m /\ Len(f[a]) \in Nat
    BY SumsLen
  <2>3. /\ Len(f[n - 1]) \in Nat /\ Len(ss[n]) \in Nat /\ Len(f[n]) = Len(f[n - 1]) + Len(ss[n])
        /\ \A k \in 1..Len(f[n - 1]) : f[n][k] = f[n - 1][k]
    <3>1. Adds(f, ss, n)
      BY <2>2, SumsStep
    <3>2. QED BY <3>1 DEF Adds
  <2>4. Len(f[a]) <= Len(f[n])
    <3> DEFINE x == Len(f[a])
               y == Len(f[n - 1])
               z == Len(ss[n])
               w == Len(f[n])
    <3>1. x \in Nat /\ y \in Nat /\ z \in Nat /\ w = y + z /\ x <= y
      BY <2>1, <2>2, <2>3
    <3> HIDE DEF x, y, z, w
    <3>2. x <= w
      BY <3>1
    <3>3. QED BY <3>2 DEF x, w
  <2>5. \A k \in 1..Len(f[a]) : f[n][k] = f[a][k]
    BY <2>1, <2>2, <2>3
  <2>6. QED BY <2>4, <2>5
<1>3. b \in T
  <2>1. a \in Nat /\ a <= m
    OBVIOUS
  <2>2. Rises(T, a, b)
    BY <1>2 DEF Rises
  <2> HIDE DEF T
  <2>3. QED BY <1>1, <2>1, <2>2, Climb
<1>4. QED BY <1>3

(* Commands that are all answered bring a line each at least. *)
LEMMA SumsLonger ==
  ASSUME NEW m \in Nat, NEW ss, NEW f, Sums(f, ss, m), NEW a \in 0..m, NEW b \in a..m,
         \A n \in (a + 1)..b : Len(ss[n]) >= 1
  PROVE  Len(f[b]) >= Len(f[a]) + (b - a)
<1> DEFINE T == {n \in a..b : Len(f[n]) >= Len(f[a]) + (n - a)}
<1>1. a \in T
  BY SumsLen
<1>2. ASSUME NEW n \in (a + 1)..b, n - 1 \in T
      PROVE  n \in T
  <2>1. n \in 1..m /\ Len(f[a]) \in Nat
    BY SumsLen
  <2>2. Len(f[n - 1]) \in Nat /\ Len(ss[n]) \in Nat /\ Len(f[n]) = Len(f[n - 1]) + Len(ss[n])
    <3>1. Adds(f, ss, n)
      BY <2>1, SumsStep
    <3>2. QED BY <3>1 DEF Adds
  <2> DEFINE x == Len(f[a])
             y == Len(f[n - 1])
             z == Len(ss[n])
             w == Len(f[n])
  <2>3. x \in Nat /\ y \in Nat /\ z \in Nat /\ w = y + z /\ z >= 1 /\ y >= x + (n - 1 - a)
    BY <1>2, <2>1, <2>2
  <2>4. w >= x + (n - a)
    <3> HIDE DEF x, y, z, w, T
    <3>1. a \in Int /\ n \in Int
      OBVIOUS
    <3>2. QED BY ONLY <2>3, <3>1
  <2>5. QED BY <2>4
<1>3. b \in T
  <2>1. a \in Nat /\ b \in Nat /\ a <= b
    OBVIOUS
  <2>2. Rises(T, a, b)
    BY <1>2 DEF Rises
  <2> HIDE DEF T
  <2>3. QED BY <1>1, <2>1, <2>2, Climb
<1>4. QED BY <1>3

(* Commands answered with c lines each bring c lines each. *)
LEMMA SumsExact ==
  ASSUME NEW m \in Nat, NEW ss, NEW f, Sums(f, ss, m), NEW a \in 0..m, NEW b \in a..m, NEW c \in {0, 1},
         \A n \in (a + 1)..b : Len(ss[n]) = c
  PROVE  Len(f[b]) = Len(f[a]) + (IF c = 0 THEN 0 ELSE b - a)
<1> DEFINE e(n) == IF c = 0 THEN 0 ELSE n - a
           T == {n \in a..b : Len(f[n]) = Len(f[a]) + e(n)}
<1>1. a \in T
  BY SumsLen
<1>2. ASSUME NEW n \in (a + 1)..b, n - 1 \in T
      PROVE  n \in T
  <2>1. n \in 1..m /\ Len(f[a]) \in Nat
    BY SumsLen
  <2>2. Len(f[n - 1]) \in Nat /\ Len(ss[n]) = c /\ Len(f[n]) = Len(f[n - 1]) + Len(ss[n])
    <3>1. Adds(f, ss, n)
      BY <2>1, SumsStep
    <3>2. QED BY <3>1 DEF Adds
  <2> DEFINE x == Len(f[a])
             y == Len(f[n - 1])
             w == Len(f[n])
  <2>3. x \in Nat /\ y \in Nat /\ w = y + c /\ y = x + e(n - 1)
    <3> HIDE DEF e
    <3>1. QED BY <1>2, <2>1, <2>2
  <2>4. w = x + e(n)
    <3> HIDE DEF x, y, w, T
    <3>1. a \in Int /\ n \in Int /\ c \in {0, 1}
      OBVIOUS
    <3>2. QED BY ONLY <2>3, <3>1
  <2>5. n \in a..b
    OBVIOUS
  <2> HIDE DEF e
  <2>6. QED BY <2>4, <2>5
<1>3. b \in T
  <2>1. a \in Nat /\ b \in Nat /\ a <= b
    OBVIOUS
  <2>2. Rises(T, a, b)
    BY <1>2 DEF Rises
  <2> HIDE DEF T
  <2>3. QED BY <1>1, <2>1, <2>2, Climb
<1>4. QED BY <1>3

LinesIn(f, a, b, V) == \A k \in (Len(f[a]) + 1)..Len(f[b]) : f[b][k] \in V
AnswersIn(ss, a, b, V) == \A n \in (a + 1)..b : \A k \in 1..Len(ss[n]) : ss[n][k] \in V

(* The new lines come from the new answers. *)
LEMMA SumsFrom ==
  ASSUME NEW m \in Nat, NEW ss, NEW f, Sums(f, ss, m), NEW a \in 0..m, NEW b \in a..m, NEW V,
         AnswersIn(ss, a, b, V)
  PROVE  LinesIn(f, a, b, V)
<1> DEFINE T == {n \in a..b : \A k \in (Len(f[a]) + 1)..Len(f[n]) : f[n][k] \in V}
<1>1. a \in T
  BY SumsLen
<1>2. ASSUME NEW n \in (a + 1)..b, n - 1 \in T
      PROVE  n \in T
  <2>1. n \in 1..m /\ n - 1 \in a..m /\ Len(f[a]) \in Nat
    BY SumsLen
  <2>2. /\ Len(f[n - 1]) \in Nat /\ Len(ss[n]) \in Nat /\ Len(f[n]) = Len(f[n - 1]) + Len(ss[n])
        /\ \A k \in 1..Len(f[n - 1]) : f[n][k] = f[n - 1][k]
        /\ \A k \in 1..Len(ss[n]) : f[n][Len(f[n - 1]) + k] = ss[n][k]
    <3>1. Adds(f, ss, n)
      BY <2>1, SumsStep
    <3>2. QED BY <3>1 DEF Adds
  <2>3. Len(f[a]) <= Len(f[n - 1])
    BY <2>1, SumsGrow
  <2>4. ASSUME NEW k \in (Len(f[a]) + 1)..Len(f[n])
        PROVE  f[n][k] \in V
    <3>1. CASE k <= Len(f[n - 1])
      <4>1. k \in 1..Len(f[n - 1]) /\ k \in (Len(f[a]) + 1)..Len(f[n - 1])
        BY <2>1, <2>2, <3>1
      <4>2. QED BY <1>2, <2>2, <4>1
    <3>2. CASE k > Len(f[n - 1])
      <4> DEFINE h == k - Len(f[n - 1])
      <4>1. h \in 1..Len(ss[n]) /\ k = Len(f[n - 1]) + h
        <5> DEFINE x == Len(f[a])
                   y == Len(f[n - 1])
                   z == Len(ss[n])
                   w == Len(f[n])
        <5>1. x \in Nat /\ y \in Nat /\ z \in Nat /\ w = y + z /\ k > y /\ k \in (x + 1)..w
          BY <2>1, <2>2, <3>2
        <5> HIDE DEF x, y, z, w
        <5>2. k - y \in 1..z /\ k = y + (k - y)
          BY ONLY <5>1
        <5>3. QED BY <5>2 DEF y, z
      <4> HIDE DEF h
      <4>2. ss[n][h] \in V
        BY <4>1 DEF AnswersIn
      <4>3. f[n][k] = ss[n][h]
        BY <2>2, <4>1
      <4>4. QED BY <4>2, <4>3
    <3>3. QED BY <2>1, <2>2, <3>1, <3>2
  <2>5. QED BY <2>4
<1>3. b \in T
  <2>1. a \in Nat /\ b \in Nat /\ a <= b
    OBVIOUS
  <2>2. Rises(T, a, b)
    BY <1>2 DEF Rises
  <2> HIDE DEF T
  <2>3. QED BY <1>1, <2>1, <2>2, Climb
<1>4. QED BY <1>3 DEF LinesIn

Silent(server, i) == \E k \in 1..i : server[k] = "falls silent"

(* What the server says when it is sent command i, which expects e[i]. *)
Said(ss, e, server, i) ==
  /\ \A k \in 1..Len(ss[i]) : ss[i][k] \in {e[i], 550, 0}
  /\ Silent(server, i) => Len(ss[i]) = 0
  /\ ~Silent(server, i) =>
       /\ Len(ss[i]) >= 1
       /\ server[i] = "obeys" => Len(ss[i]) = 1
       /\ server[i] = "explains" => Len(ss[i]) = 2
       /\ server[i] \in {"refuses", "resets"} => ss[i][1] \in {550, 0}

AllSaid(ss, e, server, m) == \A i \in 1..m : Said(ss, e, server, i)

(* The i-th line is the one awaited. *)
Heard(f, e, m) == \A i \in 1..m : i \in 1..Len(f[m]) /\ f[m][i] = e[i]

Obeyed(server, n) == \A k \in 1..n : server[k] = "obeys"

(* A server that falls silent answers nothing from then on. *)
LEMMA StaysSilent ==
  ASSUME NEW server, NEW a \in Nat, NEW b \in Nat, a <= b, Silent(server, a)
  PROVE  Silent(server, b)
<1>1. PICK k \in 1..a : server[k] = "falls silent"
  BY DEF Silent
<1>2. k \in 1..b
  OBVIOUS
<1>3. QED BY <1>1, <1>2 DEF Silent

Disobeyed(m, e, server, ss, f, i) ==
  /\ e \in [1..m -> Nat \ {0, 550}] /\ server \in [1..m -> Manners]
  /\ Sums(f, ss, m) /\ AllSaid(ss, e, server, m) /\ Heard(f, e, m)
  /\ i \in 1..(m - 1) /\ e[i] # e[m] /\ server[i] # "obeys" /\ Obeyed(server, i - 1)

(* The heart of it: the client reads one line per command, so the first
   command the server does not just obey shifts the lines, ends them or puts
   a refusal among them, and the first code that differs from the awaited one
   of that command shows it: 221 at the latest, which only QUIT awaits. *)
LEMMA FirstDisobeyed ==
  ASSUME NEW m \in Nat, NEW e, NEW server, NEW ss, NEW f, NEW i
  PROVE  ~Disobeyed(m, e, server, ss, f, i)
<1> SUFFICES
      ASSUME e \in [1..m -> Nat \ {0, 550}], server \in [1..m -> Manners],
             Sums(f, ss, m), AllSaid(ss, e, server, m), Heard(f, e, m),
             i \in 1..(m - 1), e[i] # e[m], server[i] # "obeys", Obeyed(server, i - 1)
      PROVE  FALSE
  BY DEF Disobeyed
<1> USE DEF AllSaid, Heard, Obeyed
<1>1. PICK q \in (i + 1)..m : e[q] # e[i] /\ \A k \in (i + 1)..(q - 1) : e[k] = e[i]
  <2> DEFINE Q == {k \in (i + 1)..m : e[k] # e[i]}
  <2>1. m \in Q /\ Q \in SUBSET Nat
    OBVIOUS
  <2>2. PICK q \in Q : \A y \in Q : q <= y
    <3> HIDE DEF Q
    <3>1. QED BY <2>1, LeastMember
  <2>3. ASSUME NEW k \in (i + 1)..(q - 1)
        PROVE  e[k] = e[i]
    <3>1. k \in (i + 1)..m /\ ~(q <= k)
      OBVIOUS
    <3>2. QED BY <2>2, <3>1
  <2>4. QED BY <2>2, <2>3
<1> DEFINE V == {e[i], 550, 0}
           before == Len(f[i - 1])
           here == Len(f[i])
           there == Len(f[q - 1])
           total == Len(f[m])
<1>2. /\ i \in Nat /\ q \in Nat /\ i < q /\ q <= m
      /\ i - 1 \in 0..m /\ i \in 0..m /\ q - 1 \in i..m /\ q - 1 \in (i - 1)..m /\ q - 1 \in 0..m
      /\ m \in (q - 1)..m /\ m \in i..m
  OBVIOUS
<1>3. before \in Nat /\ here \in Nat /\ there \in Nat /\ total \in Nat
  BY <1>2, SumsLen
<1>4. before = i - 1
  <2>1. ASSUME NEW n \in (0 + 1)..(i - 1)
        PROVE  Len(ss[n]) = 1
    <3>1. n \in 1..m /\ n \in 1..(i - 1) /\ \A k \in 1..n : k \in 1..(i - 1)
      OBVIOUS
    <3>2. server[n] = "obeys" /\ ~Silent(server, n)
      BY <3>1 DEF Silent
    <3>3. Said(ss, e, server, n)
      BY <3>1
    <3>4. QED BY <3>2, <3>3 DEF Said
  <2>2. 0 \in 0..m /\ i - 1 \in 0..m /\ 1 \in {0, 1}
    BY <1>2
  <2>3. before = Len(f[0]) + (IF 1 = 0 THEN 0 ELSE i - 1 - 0)
    <3> DEFINE b == i - 1
    <3>1. b \in 0..m /\ \A n \in (0 + 1)..b : Len(ss[n]) = 1
      BY <1>2, <2>1
    <3> HIDE DEF b
    <3>2. Len(f[b]) = Len(f[0]) + (IF 1 = 0 THEN 0 ELSE b - 0)
      BY <2>2, <3>1, SumsExact
    <3>3. QED BY <3>2 DEF b
  <2>4. Len(f[0]) = 0
    BY DEF Sums
  <2>5. QED BY <1>2, <2>3, <2>4
<1>5. \A k \in (before + 1)..there : f[q - 1][k] \in V
  <2>1. ASSUME NEW n \in (i - 1 + 1)..(q - 1), NEW k \in 1..Len(ss[n])
        PROVE  ss[n][k] \in V
    <3>1. n \in 1..m /\ (n = i \/ n \in (i + 1)..(q - 1))
      BY <1>2
    <3>2. e[n] = e[i]
      BY <1>1, <3>1
    <3>3. Said(ss, e, server, n)
      BY <3>1
    <3>4. ss[n][k] \in {e[n], 550, 0}
      BY <3>3 DEF Said
    <3>5. QED BY <3>2, <3>4
  <2> DEFINE a == i - 1
             b == q - 1
  <2>2. a \in 0..m /\ b \in a..m /\ AnswersIn(ss, a, b, V)
    BY <1>2, <2>1 DEF AnswersIn
  <2> HIDE DEF V, a, b
  <2>3. LinesIn(f, a, b, V)
    BY ONLY m \in Nat, Sums(f, ss, m), <2>2, SumsFrom
  <2>4. QED BY <2>3 DEF a, b, LinesIn
<1>6. ~(q <= there)
  <2> SUFFICES ASSUME q <= there PROVE FALSE
    OBVIOUS
  <2>1. f[q - 1][q] \in V
    BY <1>2, <1>3, <1>4, <1>5
  <2>2. q \in 1..there
    BY <1>2, <1>3
  <2>3. f[m][q] = f[q - 1][q]
    BY <1>2, <2>2, SumsGrow
  <2>4. q \in 1..m
    BY <1>2
  <2>5. f[m][q] = e[q] /\ e[q] \in Nat \ {0, 550}
    BY <2>4
  <2>6. QED BY <1>1, <2>1, <2>3, <2>5
<1>7. ~Silent(server, q - 1)
  <2> SUFFICES ASSUME Silent(server, q - 1) PROVE FALSE
    OBVIOUS
  <2>1. ASSUME NEW n \in (q - 1 + 1)..m
        PROVE  Len(ss[n]) = 0
    <3>1. n \in 1..m /\ n \in Nat /\ q - 1 \in Nat /\ q - 1 <= n
      BY <1>2
    <3>2. Silent(server, n) /\ Said(ss, e, server, n)
      BY <3>1, StaysSilent
    <3>3. QED BY <3>2 DEF Said
  <2>2. total = there + (IF 0 = 0 THEN 0 ELSE m - (q - 1))
    BY <1>2, <2>1, SumsExact
  <2>3. total = there
    BY <1>3, <2>2
  <2>4. q \in 1..m
    BY <1>2
  <2>5. q \in 1..total
    BY <2>4
  <2>6. QED BY <1>3, <1>6, <2>3, <2>5
<1>8. \A n \in i..(q - 1) : n \in 1..m /\ ~Silent(server, n)
  <2> TAKE n \in i..(q - 1)
  <2>1. n \in 1..m /\ n \in Nat /\ q - 1 \in Nat /\ n <= q - 1
    BY <1>2
  <2>2. QED BY <1>7, <2>1, StaysSilent
<1>9. Said(ss, e, server, i) /\ ~Silent(server, i) /\ i \in 1..m
  BY <1>2, <1>8
<1>10. Adds(f, ss, i)
  BY <1>9, SumsStep
<1>11. CASE server[i] = "explains"
  <2>1. Len(ss[i]) = 2
    BY <1>9, <1>11 DEF Said
  <2>2. here = before + 2
    BY <1>10, <2>1 DEF Adds
  <2>3. \A n \in (i + 1)..(q - 1) : Len(ss[n]) >= 1
    BY <1>2, <1>8 DEF Said
  <2>4. there >= here + (q - 1 - i)
    BY <1>2, <2>3, SumsLonger
  <2> HIDE DEF there, here, before
  <2>5. QED BY ONLY <1>2, <1>3, <1>4, <1>6, <2>2, <2>4
<1>12. CASE server[i] \in {"refuses", "resets"}
  <2>1. Len(ss[i]) >= 1 /\ ss[i][1] \in {550, 0}
    BY <1>9, <1>12 DEF Said
  <2>2. Len(ss[i]) \in Nat /\ here = before + Len(ss[i])
        /\ \A k \in 1..Len(ss[i]) : f[i][before + k] = ss[i][k]
    BY <1>10 DEF Adds
  <2>3. 1 \in 1..Len(ss[i])
    BY <2>1, <2>2
  <2>4. f[i][before + 1] = ss[i][1] /\ before + 1 = i
    BY <1>2, <1>4, <2>2, <2>3
  <2>5. i \in 1..here
    <3> DEFINE z == Len(ss[i])
    <3>1. z \in Nat /\ z >= 1 /\ here = before + z
      BY <2>1, <2>2
    <3> HIDE DEF z, here, before
    <3>2. QED BY ONLY <1>2, <1>4, <3>1
  <2>6. f[m][i] = f[i][i]
    BY <1>2, <2>5, SumsGrow
  <2>7. f[m][i] = e[i] /\ e[i] \in Nat \ {0, 550}
    BY <1>9
  <2>8. f[i][i] = ss[i][1]
    BY <2>4
  <2>9. ss[i][1] = e[i]
    BY <2>6, <2>7, <2>8
  <2>10. e[i] = 550 \/ e[i] = 0
    BY <2>1, <2>9
  <2>11. QED BY <2>7, <2>10
<1>13. server[i] # "falls silent"
  <2>1. i \in 1..i
    OBVIOUS
  <2>2. QED BY <1>9, <2>1 DEF Silent
<1>14. QED BY <1>9, <1>11, <1>12, <1>13 DEF Manners

(* A reply of one line. *)
LEMMA OneLine ==
  ASSUME NEW y \in Nat, NEW r, r = <<y>>
  PROVE  r \in Seq(Nat) /\ Len(r) = 1 /\ r[1] = y
OBVIOUS

(* A reply of two lines of the same code. *)
LEMMA TwoLines ==
  ASSUME NEW y \in Nat, NEW r, r = <<y, y>>
  PROVE  r \in Seq(Nat) /\ Len(r) = 2 /\ r[1] = y /\ r[2] = y
OBVIOUS

(* The codes awaited are told from refusals, and the last one from the others. *)
WellSpoken(s, m, server) ==
  /\ m = Len(s) /\ m > 0
  /\ \A i \in 1..m : s[i].expects \in Nat \ {0, 550}
  /\ \A i \in 1..(m - 1) : s[i].expects # s[m].expects
  /\ server \in [1..m -> Manners] /\ Outcome(s, Lines(s, server)) = "sent"

(* expect: when every line is the one awaited, the server obeyed every command
   but, perhaps, the last. *)
LEMMA SentObeyed ==
  ASSUME NEW C, NEW s \in Seq(C), NEW m \in Nat, NEW server, WellSpoken(s, m, server)
  PROVE  /\ Obeyed(server, m - 1)
         /\ \A i \in 1..m : Matches(s, Lines(s, server), i)
<1> SUFFICES
      ASSUME m = Len(s), m > 0,
             \A i \in 1..m : s[i].expects \in Nat \ {0, 550},
             \A i \in 1..(m - 1) : s[i].expects # s[m].expects,
             server \in [1..m -> Manners], Outcome(s, Lines(s, server)) = "sent"
      PROVE  /\ \A i \in 1..(m - 1) : server[i] = "obeys"
             /\ \A i \in 1..m : Matches(s, Lines(s, server), i)
  BY DEF WellSpoken, Obeyed
<1> DEFINE mute == {i \in DOMAIN s : server[i] = "falls silent"}
           ss == [i \in DOMAIN s |-> IF \E k \in mute : k <= i THEN <<>> ELSE Reply(s[i], server[i])]
           lines == Lines(s, server)
           e == [i \in 1..m |-> s[i].expects]
<1>0. DOMAIN s = 1..m
  OBVIOUS
<1>1. DOMAIN s = 1..m /\ mute \subseteq 1..m
  BY <1>0
<1>2. \A i \in 1..m : Matches(s, lines, i)
  BY <1>1 DEF Outcome
<1>3. lines = FlattenSeq(ss)
  BY DEF Lines
<1>4. e \in [1..m -> Nat \ {0, 550}]
  OBVIOUS
<1>5. ASSUME NEW i \in 1..m
      PROVE  ss[i] \in Seq(Nat) /\ Said(ss, e, server, i)
  <2> DEFINE r == Reply(s[i], server[i])
  <2>1. e[i] \in Nat /\ e[i] = s[i].expects
    BY <1>4
  <2>2. (\E k \in mute : k <= i) <=> Silent(server, i)
    <3>1. ASSUME NEW k \in mute, k <= i PROVE k \in 1..i
      <4>1. k \in 1..m
        BY <1>1
      <4> HIDE DEF mute
      <4>2. QED BY <3>1, <4>1
    <3>2. \A k \in 1..i : k \in 1..m /\ k <= i
      OBVIOUS
    <3>3. ASSUME NEW k \in 1..m PROVE k \in mute <=> server[k] = "falls silent"
      BY <1>0
    <3> HIDE DEF mute
    <3>4. ASSUME NEW k \in mute, k <= i PROVE Silent(server, i)
      BY <1>1, <3>1, <3>3, <3>4 DEF Silent
    <3>5. ASSUME NEW k \in 1..i, server[k] = "falls silent" PROVE k \in mute /\ k <= i
      BY <3>2, <3>3, <3>5
    <3>6. ASSUME Silent(server, i) PROVE \E k \in mute : k <= i
      <4>1. PICK k \in 1..i : server[k] = "falls silent"
        BY <3>6 DEF Silent
      <4>2. QED BY <3>5, <4>1
    <3>7. ASSUME \E k \in mute : k <= i PROVE Silent(server, i)
      <4>1. PICK k \in mute : k <= i
        BY <3>7
      <4>2. QED BY <3>4, <4>1
    <3>8. QED BY <3>6, <3>7
  <2>3. ss[i] = IF Silent(server, i) THEN <<>> ELSE r
    <3> HIDE DEF r
    <3>1. ss[i] = IF \E k \in mute : k <= i THEN <<>> ELSE r
      BY <1>1 DEF r
    <3> HIDE DEF mute, ss
    <3>2. QED BY <2>2, <3>1
  <2>4. CASE Silent(server, i)
    <3>1. ss[i] = <<>>
      BY <2>3, <2>4
    <3> HIDE DEF ss
    <3>2. ss[i] \in Seq(Nat) /\ Len(ss[i]) = 0
      BY <3>1
    <3>3. QED BY <2>4, <3>2 DEF Said
  <2>5. CASE ~Silent(server, i)
    <3>1. server[i] # "falls silent" /\ server[i] \in Manners
      <4>1. i \in 1..i
        OBVIOUS
      <4>2. QED BY <2>5, <4>1 DEF Silent
    <3>2. ss[i] = r
      BY <2>3, <2>5
    <3> DEFINE x == e[i]
    <3>3. /\ server[i] = "obeys" => r = <<x>>
          /\ server[i] = "explains" => r = <<x, x>>
          /\ server[i] = "refuses" => r = <<550>>
          /\ server[i] = "resets" => r = <<0>>
      BY <2>1 DEF Reply
    <3>4. x \in Nat
      BY <2>1
    <3> HIDE DEF ss, r, x
    <3>6. CASE server[i] = "obeys"
      <4>1. r \in Seq(Nat) /\ Len(r) = 1 /\ r[1] = x
        <5>1. r = <<x>>
          BY <3>6, <3>3
        <5>2. QED BY ONLY <3>4, <5>1, OneLine
      <4>2. \A k \in 1..Len(r) : r[k] \in {x, 550, 0}
        BY <4>1
      <4>3. QED BY <2>5, <3>2, <3>6, <4>1, <4>2 DEF Said, x
    <3>7. CASE server[i] = "explains"
      <4>1. r \in Seq(Nat) /\ Len(r) = 2 /\ r[1] = x /\ r[2] = x
        <5>1. r = <<x, x>>
          BY <3>7, <3>3
        <5>2. QED BY ONLY <3>4, <5>1, TwoLines
      <4>2. \A k \in 1..Len(r) : r[k] \in {x, 550, 0}
        BY <4>1
      <4>3. QED BY <2>5, <3>2, <3>7, <4>1, <4>2 DEF Said, x
    <3>8. CASE server[i] \in {"refuses", "resets"}
      <4>1. r \in Seq(Nat) /\ Len(r) = 1 /\ r[1] \in {550, 0}
        <5>1. PICK y \in {550, 0} : r = <<y>>
          BY <3>3, <3>8
        <5>2. y \in Nat
          OBVIOUS
        <5>3. QED BY <5>1, <5>2, OneLine
      <4>2. \A k \in 1..Len(r) : r[k] \in {x, 550, 0}
        BY <4>1
      <4>3. QED BY <2>5, <3>2, <3>8, <4>1, <4>2 DEF Said, x
    <3>9. QED BY <3>1, <3>6, <3>7, <3>8 DEF Manners
  <2>6. QED BY <2>4, <2>5
<1>6. ss \in [1..m -> Seq(Nat)] /\ ss \in Seq(Seq(Nat)) /\ Len(ss) = m
  <2>1. ss = [i \in 1..m |-> ss[i]]
    BY <1>1
  <2> HIDE DEF ss
  <2>2. ss \in [1..m -> Seq(Nat)]
    BY <1>5, <2>1
  <2> DEFINE X == Seq(Nat)
  <2> HIDE DEF X
  <2>3. ss \in [1..m -> X]
    BY <2>2 DEF X
  <2>4. ss \in Seq(X) /\ Len(ss) = m
    BY <2>3
  <2>5. QED BY <2>2, <2>4 DEF X
<1> HIDE DEF ss, lines, e
<1>7. PICK f : Sums(f, ss, Len(ss)) /\ FlattenSeq(ss) = f[Len(ss)]
  <2>1. Len(ss) > 0
    BY <1>6
  <2>2. QED BY ONLY <1>6, <2>1, Flat
<1>8. Sums(f, ss, m) /\ lines = f[m]
  BY <1>3, <1>6, <1>7
<1>9. Heard(f, e, m) /\ AllSaid(ss, e, server, m)
  <2>1. f[m] \in Seq(Nat)
    BY <1>8, SumsLen
  <2>2. ASSUME NEW i \in 1..m
        PROVE  i \in 1..Len(f[m]) /\ f[m][i] = e[i]
    <3>1. i \in DOMAIN f[m] /\ f[m][i] = s[i].expects
      BY <1>2, <1>8 DEF Matches
    <3>2. QED BY <2>1, <3>1 DEF e
  <2>3. QED BY <1>5, <2>2 DEF Heard, AllSaid
<1>10. ASSUME NEW i \in 1..(m - 1), server[i] # "obeys", Obeyed(server, i - 1)
       PROVE  FALSE
  <2>1. e[i] # e[m]
    BY DEF e
  <2>2. m \in Nat /\ m > 0
    OBVIOUS
  <2>3. Disobeyed(m, e, server, ss, f, i)
    BY <1>4, <1>8, <1>9, <1>10, <2>1 DEF Disobeyed
  <2>4. QED BY <2>3, FirstDisobeyed
<1>11. QED
  <2> DEFINE Bad == {i \in 1..(m - 1) : server[i] # "obeys"}
  <2>1. Bad = {}
    <3> SUFFICES ASSUME Bad # {} PROVE FALSE
      OBVIOUS
    <3>1. Bad \in SUBSET Nat
      OBVIOUS
    <3>2. PICK i \in Bad : \A y \in Bad : i <= y
      <4> HIDE DEF Bad
      <4>1. QED BY <3>1, LeastMember
    <3>3. \A k \in 1..(i - 1) : k \in 1..(m - 1) /\ ~(i <= k)
      OBVIOUS
    <3>4. Obeyed(server, i - 1)
      BY <3>2, <3>3 DEF Obeyed
    <3>5. QED BY <1>10, <3>2, <3>4
  <2>2. QED BY <1>2, <2>1 DEF lines

(* The commands before DATA, and whom they name. *)
Commands(A) ==
  [verb : {"greeting", "EHLO", "STARTTLS", "AUTH", "user", "pass", "MAIL", "RCPT"},
   expects : {220, 250, 334, 235}, to : A]

Asks(A, p, keys) ==
  /\ p \in Seq(Commands(A))
  /\ \A i \in 1..Len(p) : p[i].verb = "RCPT" => p[i].to.key \in keys
  /\ \A k \in keys : \E i \in 1..Len(p) : p[i].verb = "RCPT" /\ p[i].to.key = k

(* One part of the opening after the other. *)
LEMMA AsksBoth ==
  ASSUME NEW A, NEW p, NEW q, NEW K, NEW L, Asks(A, p, K), Asks(A, q, L)
  PROVE  Asks(A, p \o q, K \cup L)
<1> DEFINE S == Commands(A)
           r == p \o q
<1>1. p \in Seq(S) /\ q \in Seq(S)
  BY DEF Asks
<1> HIDE DEF S
<1>2. /\ r \in Seq(S) /\ Len(p) \in Nat /\ Len(q) \in Nat /\ Len(r) = Len(p) + Len(q)
      /\ \A i \in 1..Len(p) : i \in 1..Len(r) /\ r[i] = p[i]
      /\ \A i \in 1..Len(q) : Len(p) + i \in 1..Len(r) /\ r[Len(p) + i] = q[i]
  BY <1>1
<1>3. ASSUME NEW i \in 1..Len(r), i \notin 1..Len(p)
      PROVE  i - Len(p) \in 1..Len(q) /\ r[i] = q[i - Len(p)]
  <2> DEFINE a == Len(p)
             b == Len(q)
             c == Len(r)
  <2>1. a \in Nat /\ b \in Nat /\ c = a + b
    BY <1>2
  <2>2. i \in 1..c /\ i \notin 1..a
    BY <1>3
  <2> HIDE DEF a, b, c
  <2>3. i - a \in 1..b /\ i = a + (i - a)
    BY ONLY <2>1, <2>2
  <2>4. QED BY <1>2, <2>3 DEF a, b
<1>4. ASSUME NEW i \in 1..Len(r), r[i].verb = "RCPT"
      PROVE  r[i].to.key \in K \cup L
  <2>1. CASE i \in 1..Len(p)
    BY <1>2, <1>4, <2>1 DEF Asks
  <2>2. CASE i \notin 1..Len(p)
    BY <1>3, <1>4, <2>2 DEF Asks
  <2>3. QED BY <2>1, <2>2
<1>5. ASSUME NEW k \in K \cup L
      PROVE  \E i \in 1..Len(r) : r[i].verb = "RCPT" /\ r[i].to.key = k
  <2> HIDE DEF r
  <2>1. CASE k \in K
    <3>1. PICK i \in 1..Len(p) : p[i].verb = "RCPT" /\ p[i].to.key = k
      BY <2>1 DEF Asks
    <3>2. QED BY <1>2, <3>1
  <2>2. CASE k \in L
    <3>1. PICK i \in 1..Len(q) : q[i].verb = "RCPT" /\ q[i].to.key = k
      BY <2>2 DEF Asks
    <3>2. QED BY <1>2, <3>1
  <2>3. QED BY <2>1, <2>2
<1>6. QED BY <1>2, <1>4, <1>5 DEF Asks, S

(* A part without RCPT. *)
LEMMA AsksNobody ==
  ASSUME NEW A, NEW p \in Seq(Commands(A)), \A i \in 1..Len(p) : p[i].verb # "RCPT"
  PROVE  Asks(A, p, {})
BY DEF Asks

(* The RCPT commands name the addressees. *)
LEMMA AsksThem ==
  ASSUME NEW A, NEW to \in Seq(A)
  PROVE  Asks(A, [i \in DOMAIN to |-> Rcpt(to[i])], {to[i].key : i \in DOMAIN to})
<1> DEFINE p == [i \in DOMAIN to |-> Rcpt(to[i])]
           keys == {to[i].key : i \in DOMAIN to}
<1>1. DOMAIN to = 1..Len(to) /\ Len(to) \in Nat
  OBVIOUS
<1>2. ASSUME NEW i \in DOMAIN to
      PROVE  p[i] \in Commands(A) /\ p[i].verb = "RCPT" /\ p[i].to = to[i]
  <2>1. to[i] \in A
    OBVIOUS
  <2>2. p[i] = Rcpt(to[i])
    OBVIOUS
  <2> DEFINE x == to[i]
             c == Rcpt(x)
  <2>3. x \in A
    BY <2>1
  <2>4. c \in Commands(A) /\ c.verb = "RCPT" /\ c.to = x
    <3> HIDE DEF x
    <3>1. c = [verb |-> "RCPT", expects |-> 250, to |-> x]
      BY DEF Rcpt, Cmd
    <3>2. QED BY <2>3, <3>1 DEF Commands
  <2>5. QED BY <2>2, <2>4
<1>3. p \in Seq(Commands(A)) /\ Len(p) = Len(to)
  <2> DEFINE S == Commands(A)
             n == Len(to)
  <2>1. p = [i \in 1..n |-> p[i]] /\ n \in Nat
    BY <1>1
  <2>2. \A i \in 1..n : p[i] \in S
    BY <1>1, <1>2
  <2> HIDE DEF p, S, n
  <2>3. p \in Seq(S) /\ Len(p) = n
    BY <2>1, <2>2
  <2>4. QED BY <2>3 DEF S, n
<1> HIDE DEF p
<1>4. \A k \in keys : \E i \in 1..Len(p) : p[i].verb = "RCPT" /\ p[i].to.key = k
  BY <1>1, <1>2, <1>3
<1>5. \A i \in 1..Len(p) : p[i].to.key \in keys
  BY <1>1, <1>2, <1>3
<1>6. QED BY <1>3, <1>4, <1>5 DEF Asks, p

(* Before DATA every command names an addressee or nobody. *)
Opening(to) ==
  <<Cmd("greeting", 220), Cmd("EHLO", 250)>>
  \o When(StartTls, <<Cmd("STARTTLS", 220), Cmd("EHLO", 250)>>)
  \o When(Login, <<Cmd("AUTH", 334), Cmd("user", 334), Cmd("pass", 235)>>)
  \o <<Cmd("MAIL", 250)>>
  \o [i \in DOMAIN to |-> Rcpt(to[i])]

Closing == <<Cmd("DATA", 354), Cmd("text", 250), Cmd("QUIT", 221)>>

(* sendSmtpMail names every addressee before DATA, and nobody else. *)
LEMMA AsksOpening ==
  ASSUME NEW A, NEW to \in Seq(A), Blank \in A
  PROVE  Asks(A, Opening(to), {to[i].key : i \in DOMAIN to})
<1> DEFINE S == Commands(A)
           V == {"greeting", "EHLO", "STARTTLS", "AUTH", "user", "pass", "MAIL"}
<1>1. ASSUME NEW v \in V, NEW code \in {220, 250, 334, 235}
      PROVE  Cmd(v, code) \in S /\ Cmd(v, code).verb # "RCPT"
  BY DEF Cmd, Commands
<1> DEFINE a == <<Cmd("greeting", 220), Cmd("EHLO", 250)>>
           b == When(StartTls, <<Cmd("STARTTLS", 220), Cmd("EHLO", 250)>>)
           c == When(Login, <<Cmd("AUTH", 334), Cmd("user", 334), Cmd("pass", 235)>>)
           d == <<Cmd("MAIL", 250)>>
           e == [i \in DOMAIN to |-> Rcpt(to[i])]
           keys == {to[i].key : i \in DOMAIN to}
<1> DEFINE Silently(x) == x \in S /\ x.verb # "RCPT"
<1>2. ASSUME NEW x, NEW y, NEW z, Silently(x), Silently(y), Silently(z)
      PROVE  Asks(A, <<>>, {}) /\ Asks(A, <<x>>, {}) /\ Asks(A, <<x, y>>, {}) /\ Asks(A, <<x, y, z>>, {})
  <2>1. x \in S /\ y \in S /\ z \in S /\ x.verb # "RCPT" /\ y.verb # "RCPT" /\ z.verb # "RCPT"
    BY <1>2
  <2> HIDE DEF S
  <2>2. <<>> \in Seq(S) /\ \A i \in 1..Len(<<>>) : <<>>[i].verb # "RCPT"
    OBVIOUS
  <2>3. <<x>> \in Seq(S) /\ \A i \in 1..Len(<<x>>) : <<x>>[i].verb # "RCPT"
    BY <2>1
  <2>4. <<x, y>> \in Seq(S) /\ \A i \in 1..Len(<<x, y>>) : <<x, y>>[i].verb # "RCPT"
    BY <2>1
  <2>5. <<x, y, z>> \in Seq(S) /\ \A i \in 1..Len(<<x, y, z>>) : <<x, y, z>>[i].verb # "RCPT"
    BY <2>1
  <2>6. QED BY <2>2, <2>3, <2>4, <2>5, AsksNobody DEF S
<1>3. Asks(A, a, {}) /\ Asks(A, b, {}) /\ Asks(A, c, {}) /\ Asks(A, d, {})
  <2> HIDE DEF S
  <2>1. \A v \in V, code \in {220, 250, 334, 235} : Silently(Cmd(v, code))
    BY <1>1
  <2>2. /\ Silently(Cmd("greeting", 220)) /\ Silently(Cmd("EHLO", 250)) /\ Silently(Cmd("STARTTLS", 220))
        /\ Silently(Cmd("AUTH", 334)) /\ Silently(Cmd("user", 334)) /\ Silently(Cmd("pass", 235))
        /\ Silently(Cmd("MAIL", 250))
    BY <2>1
  <2> HIDE DEF Silently
  <2>3. Asks(A, a, {})
    BY <1>2, <2>2
  <2>3a. Asks(A, <<>>, {})
    BY <1>2, <2>2
  <2>4. Asks(A, b, {})
    <3> DEFINE t == <<Cmd("STARTTLS", 220), Cmd("EHLO", 250)>>
    <3>1. Asks(A, t, {})
      BY <1>2, <2>2
    <3>2. b = t \/ b = <<>>
      <4> HIDE DEF t
      <4>1. When(StartTls, t) = t \/ When(StartTls, t) = <<>>
        BY DEF When
      <4>2. QED BY <4>1 DEF t
    <3> HIDE DEF b, t
    <3>3. QED BY <2>3a, <3>1, <3>2
  <2>5. Asks(A, c, {})
    <3> DEFINE x == Cmd("AUTH", 334)
               y == Cmd("user", 334)
               z == Cmd("pass", 235)
               t == <<x, y, z>>
    <3>1. Asks(A, t, {})
      <4>1. Silently(x) /\ Silently(y) /\ Silently(z)
        BY <2>2
      <4> HIDE DEF x, y, z
      <4>2. QED BY <1>2, <4>1
    <3>2. c = t \/ c = <<>>
      <4> HIDE DEF t
      <4>1. When(Login, t) = t \/ When(Login, t) = <<>>
        BY DEF When
      <4>2. QED BY <4>1 DEF t
    <3> HIDE DEF c, t
    <3>3. QED BY <2>3a, <3>1, <3>2
  <2>6. Asks(A, d, {})
    BY <1>2, <2>2
  <2>7. QED BY <2>3, <2>4, <2>5, <2>6
<1>4. Asks(A, e, keys)
  BY AsksThem
<1>5. Opening(to) = a \o b \o c \o d \o e
  BY DEF Opening
<1> HIDE DEF a, b, c, d, e, keys
<1>6. Asks(A, a \o b \o c \o d \o e, {} \cup {} \cup {} \cup {} \cup keys)
  <2>1. Asks(A, a \o b, {} \cup {})
    BY <1>3, AsksBoth
  <2>2. Asks(A, a \o b \o c, {} \cup {} \cup {})
    BY <1>3, <2>1, AsksBoth
  <2>3. Asks(A, a \o b \o c \o d, {} \cup {} \cup {} \cup {})
    BY <1>3, <2>2, AsksBoth
  <2>4. QED BY <1>4, <2>3, AsksBoth
<1>7. {} \cup {} \cup {} \cup {} \cup keys = keys
  OBVIOUS
<1>8. QED BY <1>5, <1>6, <1>7 DEF keys

(* The script: the opening, DATA, the text and QUIT. *)
Layout(s, p, n) ==
  /\ Len(s) = n + 3
  /\ \A i \in 1..n : s[i] = p[i]
  /\ s[n + 1] = Cmd("DATA", 354) /\ s[n + 2] = Cmd("text", 250) /\ s[n + 3] = Cmd("QUIT", 221)

Appended(C, p, q, r) ==
  /\ Len(p) \in Nat /\ Len(q) \in Nat
  /\ r \in Seq(C) /\ Len(r) = Len(p) + Len(q)
  /\ \A i \in 1..Len(p) : r[i] = p[i]
  /\ \A i \in 1..Len(q) : r[Len(p) + i] = q[i]

(* Concatenation, element by element. *)
LEMMA Joins ==
  ASSUME NEW C, NEW p \in Seq(C), NEW q \in Seq(C)
  PROVE  Appended(C, p, q, p \o q)
BY DEF Appended

(* Three commands more. *)
LEMMA Joined ==
  ASSUME NEW C, NEW p \in Seq(C), NEW q \in Seq(C), Len(q) = 3, NEW n \in Nat, n = Len(p)
  PROVE  /\ p \o q \in Seq(C) /\ Len(p \o q) = n + 3
         /\ \A i \in 1..n : (p \o q)[i] = p[i]
         /\ (p \o q)[n + 1] = q[1] /\ (p \o q)[n + 2] = q[2] /\ (p \o q)[n + 3] = q[3]
<1> DEFINE r == p \o q
           l == Len(q)
<1>1. /\ r \in Seq(C) /\ Len(r) = n + l /\ l = 3
      /\ \A i \in 1..n : r[i] = p[i]
      /\ \A i \in 1..l : r[n + i] = q[i]
  <2>1. Appended(C, p, q, r)
    BY Joins
  <2> HIDE DEF r
  <2>2. QED BY <2>1 DEF Appended
<1> HIDE DEF r, l
<1>2. r[n + 1] = q[1] /\ r[n + 2] = q[2] /\ r[n + 3] = q[3]
  BY <1>1
<1>3. QED BY <1>1, <1>2 DEF r

AnyCommand(A) == Commands(A) \cup {Cmd("DATA", 354), Cmd("text", 250), Cmd("QUIT", 221)}

(* The commands of sendSmtpMail and their codes. *)
LEMMA ScriptLayout ==
  ASSUME NEW A, NEW to \in Seq(A), Blank \in A
  PROVE  /\ Len(Opening(to)) \in Nat
         /\ Script(to) \in Seq(AnyCommand(A))
         /\ Layout(Script(to), Opening(to), Len(Opening(to)))
<1> DEFINE C == AnyCommand(A)
           S == Commands(A)
           p == Opening(to)
           n == Len(p)
           x == Cmd("DATA", 354)
           y == Cmd("text", 250)
           z == Cmd("QUIT", 221)
           q == <<x, y, z>>
<1>1. Script(to) = p \o q
  BY DEF Script, Opening
<1>2. p \in Seq(S)
  BY AsksOpening DEF Asks
<1>3. S \subseteq C /\ x \in C /\ y \in C /\ z \in C
  BY DEF AnyCommand
<1> HIDE DEF x, y, z, S, C, p
<1>4. p \in Seq(C)
  BY <1>2, <1>3
<1>5. q \in Seq(C) /\ Len(q) = 3 /\ q[1] = x /\ q[2] = y /\ q[3] = z
  BY <1>3
<1> HIDE DEF q
<1>6. /\ n \in Nat /\ p \o q \in Seq(C) /\ Len(p \o q) = n + 3
      /\ \A i \in 1..n : (p \o q)[i] = p[i]
      /\ (p \o q)[n + 1] = x /\ (p \o q)[n + 2] = y /\ (p \o q)[n + 3] = z
  <2>1. n \in Nat
    BY <1>4
  <2> HIDE DEF n
  <2>2. n = Len(p)
    BY DEF n
  <2>3. QED BY <1>4, <1>5, <2>1, <2>2, Joined
<1>7. Layout(p \o q, p, n)
  BY <1>6 DEF Layout, x, y, z
<1>8. QED
  <2>1. Len(p) \in Nat /\ Script(to) \in Seq(C) /\ Layout(Script(to), p, Len(p))
    BY <1>1, <1>6, <1>7
  <2>2. QED BY <2>1 DEF C, p

(* A conversation that ends well: the server took the text, and for every
   addressee. *)
LEMMA SentKeys ==
  ASSUME NEW A, NEW to \in Seq(A), Blank \in A,
         NEW server \in [DOMAIN Script(to) -> Manners],
         Outcome(Script(to), Lines(Script(to), server)) = "sent"
  PROVE  Taken(Script(to), Lines(Script(to), server), server) = {to[i].key : i \in DOMAIN to}
<1> DEFINE s == Script(to)
           p == Opening(to)
           n == Len(p)
           m == n + 3
           lines == Lines(s, server)
           keys == {to[i].key : i \in DOMAIN to}
           C == AnyCommand(A)
<1>1. n \in Nat /\ s \in Seq(C) /\ Layout(s, p, n) /\ m \in Nat /\ m > 0 /\ m = Len(s)
  <2>1. n \in Nat /\ s \in Seq(C) /\ Layout(s, p, n)
    BY ScriptLayout
  <2> HIDE DEF n, s, C
  <2>2. Len(s) = n + 3
    BY <2>1 DEF Layout
  <2>3. QED BY <2>1, <2>2
<1>2. Asks(A, p, keys)
  BY AsksOpening
<1>3. server \in [1..m -> Manners] /\ Outcome(s, lines) = "sent"
  <2> HIDE DEF s, C, n
  <2>1. DOMAIN s = 1..m
    BY <1>1
  <2>2. QED BY <2>1 DEF s
<1>4. ASSUME NEW i \in 1..n
      PROVE  /\ s[i] = p[i] /\ s[i].expects \in {220, 250, 334, 235}
             /\ s[i].verb # "text"
  <2>1. s[i] = p[i]
    BY <1>1 DEF Layout
  <2>2. p[i] \in Commands(A)
    <3> DEFINE S == Commands(A)
    <3>1. p \in Seq(S)
      BY <1>2 DEF Asks
    <3> HIDE DEF S, p
    <3>2. QED BY <3>1 DEF S
  <2> HIDE DEF s, p
  <2>3. QED BY <2>1, <2>2 DEF Commands
<1>5. /\ s[n + 1].verb = "DATA" /\ s[n + 1].expects = 354
      /\ s[n + 2].verb = "text" /\ s[n + 2].expects = 250
      /\ s[m].verb = "QUIT" /\ s[m].expects = 221
  <2>1. s[n + 1] = Cmd("DATA", 354) /\ s[n + 2] = Cmd("text", 250) /\ s[m] = Cmd("QUIT", 221)
    BY <1>1 DEF Layout
  <2> HIDE DEF s, m, n
  <2>2. QED BY <2>1 DEF Cmd
<1> HIDE DEF s, p, lines, C
<1>6. \A i \in 1..(m - 1) : s[i].expects \in {220, 250, 334, 235, 354}
  <2>1. ASSUME NEW i \in 1..(m - 1) PROVE s[i].expects \in {220, 250, 334, 235, 354}
    <3> HIDE DEF n
    <3>1. i \in 1..n \/ i = n + 1 \/ i = n + 2
      BY <1>1
    <3>2. QED BY <1>4, <1>5, <3>1
  <2>2. QED BY <2>1
<1> HIDE DEF n, m
<1>7. \A i \in 1..m : s[i].expects \in Nat \ {0, 550}
  <2>1. \A i \in 1..m : i \in 1..(m - 1) \/ i = m
    BY <1>1
  <2>2. QED BY <1>5, <1>6, <2>1
<1>8. \A i \in 1..(m - 1) : s[i].expects # s[m].expects
  BY <1>5, <1>6
<1>9. /\ \A i \in 1..(m - 1) : server[i] = "obeys"
      /\ \A i \in 1..m : Matches(s, lines, i)
  <2>1. s \in Seq(C) /\ m \in Nat /\ m = Len(s) /\ m > 0
    BY <1>1
  <2>2. WellSpoken(s, m, server)
    BY <1>3, <1>7, <1>8, <2>1 DEF WellSpoken, lines
  <2>3. QED BY <2>1, <2>2, SentObeyed DEF lines, Obeyed
<1> DEFINE willing == {i \in DOMAIN s : Reaches(s, lines, i) /\ server[i] \in {"obeys", "explains"}}
<1>10. DOMAIN s = 1..m /\ n \in Nat /\ m = n + 3
  BY <1>1 DEF m
<1>11. \A i \in 1..m : Reaches(s, lines, i)
  BY <1>9, <1>10 DEF Reaches
<1>12. ASSUME NEW i \in 1..(n + 2)
       PROVE  i \in willing
  <2>1. i \in 1..m /\ i \in 1..(m - 1)
    BY <1>10
  <2>2. QED BY <1>9, <1>10, <1>11, <2>1
<1>13. willing \subseteq 1..m
  BY <1>10
<1> HIDE DEF willing
<1>14. {s[i].to.key : i \in {k \in willing : s[k].verb = "RCPT"}} = keys
  <2>1. ASSUME NEW i \in willing, s[i].verb = "RCPT"
        PROVE  s[i].to.key \in keys
    <3>1. i \in 1..n
      <4>1. i \in 1..n \/ i = n + 1 \/ i = n + 2 \/ i = m
        BY <1>10, <1>13
      <4>2. i # n + 1 /\ i # n + 2 /\ i # m
        BY <1>5, <2>1
      <4>3. QED BY <4>1, <4>2
    <3>2. s[i] = p[i]
      BY <1>4, <3>1
    <3> HIDE DEF keys
    <3>3. QED BY <1>2, <2>1, <3>1, <3>2 DEF Asks, n
  <2>2. ASSUME NEW k \in keys
        PROVE  \E i \in willing : s[i].verb = "RCPT" /\ s[i].to.key = k
    <3> HIDE DEF keys
    <3>1. PICK i \in 1..n : p[i].verb = "RCPT" /\ p[i].to.key = k
      BY <1>2 DEF Asks, n
    <3>2. i \in willing /\ s[i] = p[i]
      BY <1>4, <1>10, <1>12, <3>1
    <3>3. QED BY <3>1, <3>2
  <2> HIDE DEF keys
  <2>3. QED BY <2>1, <2>2
<1>15. \E i \in willing : s[i].verb = "text"
  <2>1. n + 2 \in 1..(n + 2)
    BY <1>10
  <2>2. QED BY <1>5, <1>12, <2>1
<1>16. Taken(s, lines, server) = keys
  <2> HIDE DEF keys
  <2>1. QED BY <1>14, <1>15 DEF Taken, willing
<1>17. QED BY <1>16 DEF s, lines

Keys(s) == {s[i].key : i \in DOMAIN s}

(* Addresses after addresses. *)
LEMMA KeysBoth ==
  ASSUME NEW A, NEW p \in Seq(A), NEW q \in Seq(A)
  PROVE  Keys(p \o q) = Keys(p) \cup Keys(q)
<1> DEFINE r == p \o q
           a == Len(p)
           b == Len(q)
<1>1. Appended(A, p, q, r)
  BY Joins
<1>2. DOMAIN p = 1..a /\ DOMAIN q = 1..b
  OBVIOUS
<1> HIDE DEF r
<1>3. DOMAIN r = 1..Len(r)
  <2>1. r \in Seq(A)
    BY <1>1 DEF Appended
  <2>2. QED BY <2>1
<1>4. a \in Nat /\ b \in Nat /\ DOMAIN r = 1..(a + b)
  BY <1>1, <1>3 DEF Appended
<1>5. (\A i \in 1..a : r[i] = p[i]) /\ \A i \in 1..b : r[a + i] = q[i]
  BY <1>1 DEF Appended
<1> HIDE DEF a, b
<1>6. ASSUME NEW i \in 1..a
      PROVE  i \in DOMAIN r /\ r[i] = p[i]
  BY <1>4, <1>5
<1>7. ASSUME NEW i \in 1..b
      PROVE  a + i \in DOMAIN r /\ r[a + i] = q[i]
  BY <1>4, <1>5
<1>8. ASSUME NEW i \in DOMAIN r
      PROVE  r[i].key \in Keys(p) \cup Keys(q)
  <2>1. CASE i \in 1..a
    BY <1>2, <1>6, <2>1 DEF Keys
  <2>2. CASE i \notin 1..a
    <3>1. i - a \in 1..b /\ i = a + (i - a)
      BY <1>4, <2>2
    <3>2. r[i] = q[i - a]
      BY <1>7, <3>1
    <3>3. QED BY <1>2, <3>1, <3>2 DEF Keys
  <2>3. QED BY <2>1, <2>2
<1>9. Keys(p) \cup Keys(q) \subseteq Keys(r)
  <2>1. ASSUME NEW k \in Keys(p) PROVE k \in Keys(r)
    <3>1. PICK i \in 1..a : k = p[i].key
      BY <1>2 DEF Keys
    <3>2. QED BY <1>6, <3>1 DEF Keys
  <2>2. ASSUME NEW k \in Keys(q) PROVE k \in Keys(r)
    <3>1. PICK i \in 1..b : k = q[i].key
      BY <1>2 DEF Keys
    <3>2. QED BY <1>7, <3>1 DEF Keys
  <2>3. QED BY <2>1, <2>2
<1>10. Keys(r) \subseteq Keys(p) \cup Keys(q)
  BY <1>8 DEF Keys
<1>11. QED BY <1>9, <1>10 DEF r

(* One address. *)
LEMMA KeysOne ==
  ASSUME NEW x
  PROVE  Keys(<<x>>) = {x.key}
BY DEF Keys

(* No address. *)
LEMMA KeysNone == Keys(<<>>) = {}
BY DEF Keys

(* normalizeEmailList adds the n-th address or does not. *)
Kept(to, n, out) ==
  IF to[n] = Blank \/ \E k \in DOMAIN out : out[k].key = to[n].key THEN <<>> ELSE <<to[n]>>

KeysUpTo(to, n) == {to[i].key : i \in {k \in 1..n : to[k] # Blank}}

Normalizes(out, to, A) ==
  \A n \in 0..Len(to) :
    /\ out[n] \in Seq(A)
    /\ out[n] = IF n = 0 THEN <<>> ELSE out[n - 1] \o Kept(to, n, out[n - 1])

(* One turn of the loop of normalizeEmailList loses no key. *)
LEMMA KeptKeys ==
  ASSUME NEW A, NEW to \in Seq(A), NEW n \in 1..Len(to), NEW out \in Seq(A),
         Keys(out) = KeysUpTo(to, n - 1)
  PROVE  /\ Kept(to, n, out) \in Seq(A)
         /\ Keys(out \o Kept(to, n, out)) = KeysUpTo(to, n)
<1> DEFINE z == Kept(to, n, out)
           x == to[n]
<1>1. x \in A
  OBVIOUS
<1>2. z \in Seq(A)
  <2> HIDE DEF x
  <2>1. <<>> \in Seq(A) /\ <<x>> \in Seq(A)
    BY <1>1
  <2>2. QED BY <2>1 DEF Kept, x
<1> HIDE DEF z
<1>3. Keys(out \o z) = Keys(out) \cup Keys(z)
  BY <1>2, KeysBoth
<1>4. Len(to) \in Nat
  OBVIOUS
<1>5. KeysUpTo(to, n) = KeysUpTo(to, n - 1) \cup (IF x = Blank THEN {} ELSE {x.key})
  <2> DEFINE l == Len(to)
  <2>1. n \in 1..l /\ l \in Nat
    BY <1>4
  <2> HIDE DEF l
  <2>2. \A k \in 1..n : k \in 1..(n - 1) \/ k = n
    BY <2>1
  <2>3. \A k \in 1..(n - 1) : k \in 1..n
    BY <2>1
  <2>4. n \in 1..n
    BY <2>1
  <2>5. QED BY <2>2, <2>3, <2>4 DEF KeysUpTo
<1>6. CASE x = Blank
  <2>1. z = <<>>
    BY <1>6 DEF z, Kept
  <2>2. Keys(z) = {}
    BY <2>1, KeysNone
  <2>3. QED BY <1>2, <1>3, <1>5, <1>6, <2>2 DEF z
<1>7. CASE x # Blank /\ \E k \in DOMAIN out : out[k].key = x.key
  <2>1. z = <<>>
    BY <1>7 DEF z, Kept
  <2>2. Keys(z) = {}
    BY <2>1, KeysNone
  <2>3. x.key \in Keys(out)
    BY <1>7 DEF Keys
  <2>4. QED BY <1>2, <1>3, <1>5, <1>7, <2>2, <2>3 DEF z
<1>8. CASE x # Blank /\ ~\E k \in DOMAIN out : out[k].key = x.key
  <2>1. z = <<x>>
    BY <1>8 DEF z, Kept
  <2>2. Keys(z) = {x.key}
    <3> HIDE DEF x
    <3>1. QED BY <2>1, KeysOne
  <2>3. QED BY <1>2, <1>3, <1>5, <1>8, <2>2 DEF z
<1>9. QED BY <1>6, <1>7, <1>8

(* normalizeEmailList drops blanks and repeated spellings, and no address. *)
LEMMA Normalized ==
  ASSUME NEW A, NEW to \in Seq(A)
  PROVE  /\ NormalizeEmailList(to) \in Seq(A)
         /\ Keys(NormalizeEmailList(to)) = KeysUpTo(to, Len(to))
<1> DEFINE m == Len(to)
           S == Seq(A)
           F(g) == [n \in 0..m |-> IF n = 0 THEN <<>> ELSE g[n - 1] \o Kept(to, n, g[n - 1])]
           out == CHOOSE g : g = F(g)
<1>1. NormalizeEmailList(to) = out[m]
  BY DEF NormalizeEmailList, Kept
<1>2. m \in Nat
  OBVIOUS
<1>3. \E g : g = F(g)
  <2> DEFINE step == [x \in (1..m) \X S |-> x[2] \o Kept(to, x[1], x[2])]
             base == <<>>
  <2>1. base \in S
    OBVIOUS
  <2>2. ASSUME NEW n \in 1..m, NEW s \in S
        PROVE  s \o Kept(to, n, s) \in S
    <3>1. to[n] \in A
      OBVIOUS
    <3>2. Kept(to, n, s) \in {<<>>, <<to[n]>>}
      BY DEF Kept
    <3> DEFINE z == Kept(to, n, s)
               x == to[n]
    <3>3. z \in {<<>>, <<x>>} /\ x \in A
      BY <3>1, <3>2
    <3> HIDE DEF z, x
    <3>4. z \in Seq(A)
      <4>1. <<x>> \in Seq(A) /\ <<>> \in Seq(A)
        BY <3>3
      <4>2. QED BY <3>3, <4>1
    <3>5. QED BY <3>4 DEF z
  <2>3. step \in [(1..m) \X S -> S]
    <3> HIDE DEF S, m
    <3>1. \A x \in (1..m) \X S : x[1] \in 1..m /\ x[2] \in S
      OBVIOUS
    <3>2. \A x \in (1..m) \X S : x[2] \o Kept(to, x[1], x[2]) \in S
      BY <2>2, <3>1
    <3>3. QED BY <3>2
  <2>4. \A n \in 1..m, s \in S : step[<<n, s>>] = s \o Kept(to, n, s)
    <3> HIDE DEF S, m
    <3>1. QED OBVIOUS
  <2> HIDE DEF step, S, m, base
  <2>5. PICK f : Defined(f, S, m, base, step)
    BY <1>2, <2>1, <2>3, Recursion
  <2>6. f \in [0..m -> S] /\ f[0] = <<>> /\ \A n \in 1..m : f[n] = step[<<n, f[n - 1]>>]
    BY <2>5 DEF Defined, base
  <2>7. ASSUME NEW n \in 0..m
        PROVE  f[n] = IF n = 0 THEN <<>> ELSE f[n - 1] \o Kept(to, n, f[n - 1])
    <3>1. CASE n = 0
      BY <2>6, <3>1
    <3>2. CASE n # 0
      <4>1. n \in 1..m /\ n - 1 \in 0..m
        BY <1>2, <3>2
      <4>2. f[n - 1] \in S /\ f[n] = step[<<n, f[n - 1]>>]
        BY <2>6, <4>1
      <4>3. step[<<n, f[n - 1]>>] = f[n - 1] \o Kept(to, n, f[n - 1])
        BY <2>4, <4>1, <4>2
      <4>4. QED BY <3>2, <4>2, <4>3
    <3>3. QED BY <3>1, <3>2
  <2>8. f = F(f)
    BY <2>6, <2>7
  <2>9. QED BY <2>8
<1>4. out = F(out)
  <2> HIDE DEF F
  <2>1. QED BY <1>3
<1>5. /\ out[0] = <<>>
      /\ \A n \in 1..m : out[n] = out[n - 1] \o Kept(to, n, out[n - 1])
  <2> HIDE DEF out, m
  <2>1. QED BY <1>2, <1>4
<1> HIDE DEF out
<1> DEFINE T == {n \in 0..m : out[n] \in Seq(A) /\ Keys(out[n]) = KeysUpTo(to, n)}
<1>6. 0 \in T
  <2> DEFINE none == <<>>
  <2>1. none \in Seq(A) /\ Keys(none) = {} /\ out[0] = none
    BY <1>5, KeysNone
  <2>2. KeysUpTo(to, 0) = {}
    BY DEF KeysUpTo
  <2> HIDE DEF none, m
  <2>3. 0 \in 0..m
    BY <1>2
  <2>4. out[0] \in Seq(A) /\ Keys(out[0]) = KeysUpTo(to, 0)
    BY <2>1, <2>2
  <2>5. QED BY ONLY <2>3, <2>4 DEF T
<1>7. ASSUME NEW n \in 1..m, n - 1 \in T
      PROVE  n \in T
  <2> DEFINE r == out[n - 1]
  <2>1. r \in Seq(A) /\ Keys(r) = KeysUpTo(to, n - 1) /\ out[n] = r \o Kept(to, n, r)
    BY <1>5, <1>7
  <2> HIDE DEF r
  <2> DEFINE z == Kept(to, n, r)
  <2>2. z \in Seq(A) /\ Keys(r \o z) = KeysUpTo(to, n)
    BY <2>1, KeptKeys
  <2> HIDE DEF z
  <2>3. r \o z \in Seq(A)
    BY <2>1, <2>2
  <2>4. n \in 0..m
    BY <1>2
  <2>5. QED BY <2>1, <2>2, <2>3, <2>4 DEF z
<1>8. m \in T
  <2>1. Rises(T, 0, m)
    <3> HIDE DEF T, m
    <3>1. QED BY <1>7 DEF Rises
  <2> HIDE DEF T, m
  <2>2. QED BY <1>2, <1>6, <2>1, Climb
<1>9. QED BY <1>1, <1>8
(* resolveAlertRecipients: the contacts and ADMIN_EMAIL. *)
LEMMA ResolvedKeys ==
  ASSUME NEW A, NEW to \in Seq(A), Admin \in A
  PROVE  /\ ResolveAlertRecipients(to) \in Seq(A)
         /\ Keys(ResolveAlertRecipients(to)) = {a.key : a \in ({Admin} \cup ToSet(to)) \ {Blank}}
<1> DEFINE c == NormalizeEmailList(to)
           named == \E x \in ToSet(c) : x.key = Admin.key
           z == IF Admin = Blank \/ named THEN <<>> ELSE <<Admin>>
<1>1. ResolveAlertRecipients(to) = c \o z
  BY DEF ResolveAlertRecipients
<1>2. c \in Seq(A) /\ Keys(c) = KeysUpTo(to, Len(to))
  BY Normalized
<1>3. KeysUpTo(to, Len(to)) = {a.key : a \in ToSet(to) \ {Blank}}
  <2>1. DOMAIN to = 1..Len(to)
    OBVIOUS
  <2>2. QED BY <2>1 DEF KeysUpTo, ToSet
<1> HIDE DEF c
<1>4. named <=> Admin.key \in Keys(c)
  BY DEF ToSet, Keys
<1> HIDE DEF named
<1>5. z \in Seq(A)
  <2>1. <<>> \in Seq(A) /\ <<Admin>> \in Seq(A)
    OBVIOUS
  <2>2. QED BY <2>1
<1>6. Keys(c \o z) = Keys(c) \cup Keys(z) /\ c \o z \in Seq(A)
  <2> HIDE DEF z
  <2>1. QED BY <1>2, <1>5, KeysBoth
<1>7. Keys(c) \cup Keys(z) = {a.key : a \in ({Admin} \cup ToSet(to)) \ {Blank}}
  <2>1. CASE Admin = Blank
    <3>1. Keys(z) = {}
      BY <2>1, KeysNone
    <3> HIDE DEF z
    <3>2. ({Admin} \cup ToSet(to)) \ {Blank} = ToSet(to) \ {Blank}
      BY <2>1
    <3>3. QED BY <1>2, <1>3, <3>1, <3>2
  <2>2. CASE Admin # Blank /\ named
    <3>1. Keys(z) = {}
      BY <2>2, KeysNone
    <3> HIDE DEF z
    <3>2. QED BY <1>2, <1>3, <1>4, <2>2, <3>1
  <2>3. CASE Admin # Blank /\ ~named
    <3>1. Keys(z) = {Admin.key}
      BY <2>3, KeysOne
    <3> HIDE DEF z
    <3>2. QED BY <1>2, <1>3, <2>3, <3>1
  <2>4. QED BY <2>1, <2>2, <2>3
<1>8. QED BY <1>1, <1>6, <1>7

(* Every mail of a result "sent" reached all it should. *)
LEMMA SentReachesAll ==
  ASSUME NEW A, NEW to \in Seq(A), Admin \in A, Blank \in A,
         NEW result \in Results(ResolveAlertRecipients(to)), result.outcome = "sent"
  PROVE  result.taken = {a.key : a \in ({Admin} \cup ToSet(to)) \ {Blank}}
<1> DEFINE all == ResolveAlertRecipients(to)
           s == Script(all)
<1>1. all \in Seq(A) /\ Keys(all) = {a.key : a \in ({Admin} \cup ToSet(to)) \ {Blank}}
  BY ResolvedKeys
<1> HIDE DEF all
<1>2. PICK server \in Servers(s) :
        result = [outcome |-> Outcome(s, Lines(s, server)),
                  taken |-> IF Outcome(s, Lines(s, server)) = "sent"
                            THEN Taken(s, Lines(s, server), server) ELSE {}]
  BY DEF Results, all
<1>3. server \in [DOMAIN s -> Manners]
  <2> DEFINE D == DOMAIN s
  <2>1. PICK t \in UNION {[d -> Manners \ {"obeys"}] : d \in {x \in SUBSET D : Cardinality(x) <= MaxTroubles}} :
          server = [i \in D |-> IF i \in DOMAIN t THEN t[i] ELSE "obeys"]
    BY <1>2 DEF Servers
  <2> HIDE DEF D
  <2>2. PICK d \in SUBSET D : t \in [d -> Manners \ {"obeys"}]
    BY <2>1
  <2>3. \A i \in D : (IF i \in DOMAIN t THEN t[i] ELSE "obeys") \in Manners
    BY <2>2 DEF Manners
  <2>4. server \in [D -> Manners]
    BY <2>1, <2>3
  <2>5. QED BY <2>4 DEF D
<1>4. Outcome(s, Lines(s, server)) = "sent" /\ result.taken = Taken(s, Lines(s, server), server)
  <2> HIDE DEF s
  <2>1. QED BY <1>2
<1>5. Taken(s, Lines(s, server), server) = {all[i].key : i \in DOMAIN all}
  BY <1>1, <1>3, <1>4, SentKeys
<1>6. QED BY <1>1, <1>4, <1>5 DEF Keys

-----------------------------------------------------------------------------
\* A worker that has mailed holds one of the results its alert could have.
Mailed(x) == x.pc = "mailed" => x.result \in (IF x.kind = "tier-b-probe" THEN AdminResults ELSE ContactResults)

MailedOK == \A w \in Workers : Mailed(worker[w])

(* Only Mail leads to "mailed", and with a result of the worker's kind. *)
LEMMA NextMailedOK == IInv /\ MailedOK /\ [Next]_vars => MailedOK'
<1> SUFFICES ASSUME IInv, MailedOK, [Next]_vars PROVE MailedOK'
  OBVIOUS
<1>t. worker \in [Workers -> WorkerType] /\ "health" \in Workers /\ "consumer" \in Workers /\ DOMAIN worker = Workers
  BY DEF IInv, TypeInv, Workers
<1>i. Mailed(Idle)
  BY DEF Mailed, Idle
<1>a. ASSUME NEW w \in Workers, NEW x, worker' = [worker EXCEPT ![w] = x], Mailed(x)
      PROVE  MailedOK'
  <2>1. \A v \in Workers : worker'[v] = IF v = w THEN x ELSE worker[v]
    BY <1>a, <1>t
  <2>2. QED BY <1>a, <2>1 DEF MailedOK
<1>b. ASSUME NEW w \in Workers, NEW pc, pc # "mailed", worker' = [worker EXCEPT ![w].pc = pc]
      PROVE  MailedOK'
  <2> DEFINE x == [worker[w] EXCEPT !.pc = pc]
  <2>1. worker' = [worker EXCEPT ![w] = x]
    BY <1>b
  <2>2. Mailed(x)
    <3>1. x.pc = pc
      BY <1>t DEF WorkerType
    <3> HIDE DEF x
    <3>2. QED BY <1>b, <3>1 DEF Mailed
  <2> HIDE DEF x
  <2>3. QED BY <1>a, <2>1, <2>2
<1>1. CASE UNCHANGED worker
  BY <1>1 DEF MailedOK
<1>2. ASSUME NEW j \in Jobs,
             ListRow(j) \/ AddEvent(j) \/ AddFails(j) \/ RetryDeadLetter(j) \/ Ages(j)
      PROVE  MailedOK'
  BY <1>1, <1>2 DEF ListRow, AddEvent, AddFails, RetryDeadLetter, Ages
<1>3. ASSUME Ingest \/ SetTierEnabled \/ RunsChange \/ UNCHANGED vars
      PROVE  MailedOK'
  BY <1>1, <1>3 DEF Ingest, SetTierEnabled, RunsChange, vars
<1>4. ASSUME NEW j \in Jobs, TakeEvent(j)
      PROVE  MailedOK'
  <2> DEFINE x == ProcessDeadLetterEvent(j)
  <2>1. worker' = [worker EXCEPT !["consumer"] = x]
    BY <1>4 DEF TakeEvent
  <2>2. Mailed(x)
    BY DEF Mailed, ProcessDeadLetterEvent, Idle
  <2> HIDE DEF x
  <2>3. QED BY <1>a, <1>t, <2>1, <2>2
<1>5. ASSUME NEW kind \in Kinds, TakeHealth(kind)
      PROVE  MailedOK'
  <2>1. PICK degraded :
           worker' = [worker EXCEPT !["health"] =
             [Idle EXCEPT !.pc = CASE kind = "dead-letter-escalate" -> "rows"
                               [] kind = "tier-b-probe" -> IF degraded THEN "degraded" ELSE "in order"
                               [] OTHER -> "run",
                          !.kind = kind,
                          !.rows = IF kind = "dead-letter-escalate" THEN Overdue ELSE {}]]
    BY <1>5 DEF TakeHealth
  <2> DEFINE pc == CASE kind = "dead-letter-escalate" -> "rows"
                     [] kind = "tier-b-probe" -> IF degraded THEN "degraded" ELSE "in order"
                     [] OTHER -> "run"
             rows == IF kind = "dead-letter-escalate" THEN Overdue ELSE {}
             x == [Idle EXCEPT !.pc = pc, !.kind = kind, !.rows = rows]
  <2>2. worker' = [worker EXCEPT !["health"] = x]
    BY <2>1
  <2>3. pc # "mailed"
    OBVIOUS
  <2> HIDE DEF pc, rows
  <2>4. x.pc = pc
    BY DEF Idle
  <2> HIDE DEF x
  <2>5. Mailed(x)
    BY <2>3, <2>4 DEF Mailed
  <2>6. QED BY <1>a, <1>t, <2>2, <2>5
<1>6. ASSUME FinishOther \/ EscalationEnds
      PROVE  MailedOK'
  <2>1. worker' = [worker EXCEPT !["health"] = Idle]
    BY <1>6 DEF FinishOther, EscalationEnds
  <2>2. QED BY <1>a, <1>i, <1>t, <2>1
<1>7. ASSUME RecordProbe
      PROVE  MailedOK'
  <2>1. worker' = [worker EXCEPT !["health"].pc = "alert"] \/ worker' = [worker EXCEPT !["health"] = Idle]
    BY <1>7 DEF RecordProbe, To
  <2>2. QED BY <1>a, <1>b, <1>i, <1>t, <2>1
<1>8. ASSUME NextRow
      PROVE  MailedOK'
  <2>1. PICK r \in worker["health"].rows :
          worker' = [worker EXCEPT !["health"].pc = "alert", !["health"].at = r,
                                   !["health"].rows = @ \ {r}]
    BY <1>8 DEF NextRow
  <2> DEFINE y == worker["health"]
             x == [y EXCEPT !.pc = "alert", !.at = r, !.rows = @ \ {r}]
  <2>2. worker' = [worker EXCEPT !["health"] = x]
    BY <1>t, <2>1
  <2>3. x.pc = "alert"
    BY <1>t DEF WorkerType
  <2> HIDE DEF x
  <2>4. Mailed(x)
    BY <2>3 DEF Mailed
  <2>5. QED BY <1>a, <1>t, <2>2, <2>4
<1>9. ASSUME Restart
      PROVE  MailedOK'
  <2>1. worker' = [w \in Workers |-> Idle]
    BY <1>9, <1>t DEF Restart
  <2>2. QED BY <1>i, <2>1 DEF MailedOK
<1>10. ASSUME NEW w \in Workers, Audit(w)
       PROVE  MailedOK'
  <2>1. worker' = [worker EXCEPT ![w].pc = "mail"]
    BY <1>10 DEF Audit, To
  <2>2. QED BY <1>b, <2>1
<1>11. ASSUME NEW w \in Workers, Mail(w)
       PROVE  MailedOK'
  <2>1. PICK result \in ResultsFor(w) :
          worker' = [worker EXCEPT ![w].pc = IF result.outcome = "hung" THEN "hung" ELSE "mailed",
                                   ![w].result = result]
    BY <1>11 DEF Mail
  <2> DEFINE y == worker[w]
             pc == IF result.outcome = "hung" THEN "hung" ELSE "mailed"
             x == [y EXCEPT !.pc = pc, !.result = result]
  <2>2. worker' = [worker EXCEPT ![w] = x]
    BY <1>t, <2>1
  <2>3. x.result = result /\ x.kind = worker[w].kind
    BY <1>t DEF WorkerType
  <2> HIDE DEF x
  <2>4. Mailed(x)
    BY <2>3 DEF Mailed, ResultsFor
  <2>5. QED BY <1>a, <2>2, <2>4
<1>12. ASSUME NEW w \in Workers, MarkOrFinish(w)
       PROVE  MailedOK'
  <2>1. CASE worker' = [worker EXCEPT ![w] = Idle]
    BY <1>a, <1>i, <2>1
  <2>2. CASE worker' = [worker EXCEPT ![w].pc = "rows", ![w].at = <<>>, ![w].result = NoResult]
    <3> DEFINE y == worker[w]
               x == [y EXCEPT !.pc = "rows", !.at = <<>>, !.result = NoResult]
    <3>1. worker' = [worker EXCEPT ![w] = x]
      BY <1>t, <2>2
    <3>2. x.pc = "rows"
      BY <1>t DEF WorkerType
    <3> HIDE DEF x
    <3>3. Mailed(x)
      BY <3>2 DEF Mailed
    <3>4. QED BY <1>a, <3>1, <3>3
  <2>3. QED BY <1>12, <2>1, <2>2 DEF MarkOrFinish
<1>13. ASSUME NEW w \in Workers, JobFails(w)
       PROVE  MailedOK'
  <2>1. worker' = [worker EXCEPT ![w] = Idle]
    BY <1>13 DEF JobFails
  <2>2. QED BY <1>a, <1>i, <2>1
<1>14. QED
  BY <1>2, <1>3, <1>4, <1>5, <1>6, <1>7, <1>8, <1>9, <1>10, <1>11, <1>12, <1>13, <1>t
  DEF Next, HealthStep, Work

(* The results of an alert's mail, sent or not, from its recipients. *)
LEMMA SentForContacts ==
  ASSUME NEW result, result.outcome = "sent"
  PROVE  /\ result \in ContactResults =>
              result.taken = {a.key : a \in ({Admin} \cup ToSet(Contacts)) \ {Blank}}
         /\ result \in AdminResults =>
              result.taken = {a.key : a \in ({Admin} \cup {}) \ {Blank}}
<1> DEFINE B == ToSet(Contacts)
           A == B \cup {Admin, Blank}
           none == <<>>
<1>1. Contacts \in Seq(B)
  BY MailAssumption
<1> HIDE DEF B
<1>2. Contacts \in Seq(A) /\ none \in Seq(A) /\ Admin \in A /\ Blank \in A
  <2>1. B \subseteq A /\ Admin \in A /\ Blank \in A
    OBVIOUS
  <2> HIDE DEF A
  <2>2. QED BY <1>1, <2>1
<1>3. ToSet(none) = {}
  BY DEF ToSet
<1> HIDE DEF A, none
<1>4. result \in ContactResults => result.taken = {a.key : a \in ({Admin} \cup ToSet(Contacts)) \ {Blank}}
  <2> SUFFICES ASSUME result \in ContactResults
               PROVE  result.taken = {a.key : a \in ({Admin} \cup ToSet(Contacts)) \ {Blank}}
    OBVIOUS
  <2>1. result \in Results(ResolveAlertRecipients(Contacts))
    BY DEF ContactResults
  <2>2. result.taken = {a.key : a \in ({Admin} \cup ToSet(Contacts)) \ {Blank}}
    BY <1>2, <2>1, SentReachesAll
  <2>3. QED BY <2>2
<1>5. result \in AdminResults => result.taken = {a.key : a \in ({Admin} \cup {}) \ {Blank}}
  <2> SUFFICES ASSUME result \in AdminResults PROVE result.taken = {a.key : a \in ({Admin} \cup {}) \ {Blank}}
    OBVIOUS
  <2>1. result \in Results(ResolveAlertRecipients(none))
    BY DEF AdminResults, none
  <2>2. result.taken = {a.key : a \in ({Admin} \cup ToSet(none)) \ {Blank}}
    BY <1>2, <2>1, SentReachesAll
  <2>3. QED BY <1>3, <2>2
<1>6. QED BY <1>4, <1>5

(* When sendSmtpMail reports no error, the mail server has taken the mail for
   every contact of the project and for ADMIN_EMAIL (HealthWorker!SentIsTaken),
   for any list of contacts, however they were typed, and whatever the server
   answers to any of the commands: expect reads one line per command, and no
   conversation in which a reply of several lines, a refusal, a reset or
   silence met a command before QUIT ends with the code QUIT awaits. *)
THEOREM SentIsTakenThm == Spec => []SentIsTaken
<1>1. Init => MailedOK
  BY DEF Init, MailedOK, Mailed, Idle, Workers
<1>2. IInv /\ MailedOK => SentIsTaken
  <2> SUFFICES ASSUME IInv, MailedOK, NEW w \in DOMAIN worker, At(w, "mailed"),
                      worker[w].result.outcome = "sent"
               PROVE  worker[w].result.taken = {a.key : a \in ({Admin} \cup AddressedBy(w)) \ {Blank}}
    BY DEF SentIsTaken
  <2>1. PICK result : result = worker[w].result
    OBVIOUS
  <2>2. w \in Workers
    BY DEF IInv, TypeInv
  <2>3. result.outcome = "sent" /\ Mailed(worker[w]) /\ worker[w].pc = "mailed"
    BY <2>1, <2>2 DEF MailedOK, At
  <2>4. CASE worker[w].kind = "tier-b-probe"
    <3>1. result \in AdminResults
      BY <2>1, <2>3, <2>4 DEF Mailed
    <3>2. result.taken = {a.key : a \in ({Admin} \cup {}) \ {Blank}}
      BY <2>3, <3>1, SentForContacts
    <3>3. AddressedBy(w) = {}
      BY <2>4 DEF AddressedBy
    <3>4. QED BY <2>1, <3>2, <3>3
  <2>5. CASE worker[w].kind # "tier-b-probe"
    <3>1. result \in ContactResults
      BY <2>1, <2>3, <2>5 DEF Mailed
    <3>2. result.taken = {a.key : a \in ({Admin} \cup ToSet(Contacts)) \ {Blank}}
      BY <2>3, <3>1, SentForContacts
    <3>3. AddressedBy(w) = ToSet(Contacts)
      BY <2>5 DEF AddressedBy
    <3>4. QED BY <2>1, <3>2, <3>3
  <2>6. QED BY <2>4, <2>5
<1>3. QED
  BY <1>1, <1>2, NextMailedOK, InductiveInvariant, PTL DEF Spec

=============================================================================
