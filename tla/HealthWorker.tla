---------------------------- MODULE HealthWorker ----------------------------
(***************************************************************************)
(* The pgos-health worker, which runs its repeatable jobs one at a time,   *)
(* and two of them in full: the probe of tier B and the escalation of dead *)
(* letters.  With them, what operators hear of a job that exhausted its    *)
(* attempts: the row of dead_letter_jobs and the queue event whose         *)
(* consumer mails the project.  Each await of a worker is a step.          *)
(***************************************************************************)
EXTENDS AlertMail, TierHealth

CONSTANTS
  Jobs,
  MaxBurials,  \* bound on how often a job is buried
  MaxFaults    \* bound on crashes and failed Postgres statements

ASSUME BoundsAssumption == {MaxBurials, MaxFaults} \subseteq Nat

VARIABLES
  row,      \* dead_letter_jobs
  burial,   \* how far handleFailure is with a job: "alive", "listed" or "dead"
  event,    \* the entry dlq-<job> of the pgos-dead-letter queue
  worker,   \* the health worker and the dead-letter consumer
  tierB,    \* the row of tier_health: enabled and degraded
  healthy,  \* whether what GitHub lists is promising, see TierHealth
  burials,  \* how often each job was buried
  told,     \* jobs about whose first burial a mail was reported sent
  lost,     \* jobs about whose first burial a mail failed, and none was sent
  mails,    \* escalation mails of each job
  faults

letters == <<row, burial, event, burials>>
ghosts == <<told, lost, mails>>
tiers == <<tierB, healthy>>
vars == <<letters, worker, tiers, ghosts, faults>>

Kinds == {"stale-lock-scan", "redis-failover-check", "tier-b-probe", "dead-letter-escalate"}
Hours == {24, 72}
NoRow == [listed |-> FALSE, age |-> 0, escalated |-> {}]
NoResult == [outcome |-> "none", taken |-> {}]
Idle == [pc |-> "idle", kind |-> "none", rows |-> {}, at |-> <<>>, result |-> NoResult]

Init ==
  /\ row = [j \in Jobs |-> NoRow]
  /\ burial = [j \in Jobs |-> "alive"]
  /\ event = [j \in Jobs |-> "none"]
  /\ worker = [w \in {"health", "consumer"} |-> Idle]
  /\ tierB = [enabled |-> TRUE, degraded |-> FALSE]
  /\ healthy \in BOOLEAN
  /\ burials = [j \in Jobs |-> 0]
  /\ told = {}
  /\ lost = {}
  /\ mails = [j \in Jobs |-> [h \in Hours |-> 0]]
  /\ faults = 0

-----------------------------------------------------------------------------
(* A job is buried, retried and buried again.                              *)

\* handleFailure, the transaction; ON CONFLICT keeps created_at and flags.
ListRow(j) ==
  /\ burial[j] = "alive"
  /\ burials[j] < MaxBurials
  /\ row' = [row EXCEPT ![j].listed = TRUE]
  /\ burial' = [burial EXCEPT ![j] = "listed"]
  /\ burials' = [burials EXCEPT ![j] = @ + 1]
  /\ told' = told \ {j}
  /\ lost' = lost \ {j}
  /\ UNCHANGED <<event, worker, tiers, mails, faults>>

\* handleFailure, deadLetterQueue.add: an id the queue still has is ignored.
AddEvent(j) ==
  /\ burial[j] = "listed"
  /\ burial' = [burial EXCEPT ![j] = "dead"]
  /\ event' = [event EXCEPT ![j] = IF @ = "none" THEN "waiting" ELSE @]
  /\ UNCHANGED <<row, burials, worker, tiers, ghosts, faults>>

\* The release or the add before it throws, or the process dies there.
AddFails(j) ==
  /\ burial[j] = "listed"
  /\ faults < MaxFaults
  /\ faults' = faults + 1
  /\ burial' = [burial EXCEPT ![j] = "dead"]
  /\ UNCHANGED <<row, burials, event, worker, tiers, ghosts>>

\* retryDeadLetter archives the row and starts the job again.
RetryDeadLetter(j) ==
  /\ burial[j] = "dead"
  /\ row' = [row EXCEPT ![j].listed = FALSE]
  /\ burial' = [burial EXCEPT ![j] = "alive"]
  /\ UNCHANGED <<event, burials, worker, tiers, ghosts, faults>>

\* created_at gets 24 and 72 hours old, whatever the row is by then.
Ages(j) ==
  /\ burials[j] > 0
  /\ row[j].age < 72
  /\ row' = [row EXCEPT ![j].age = IF @ = 0 THEN 24 ELSE 72]
  /\ UNCHANGED <<burial, event, burials, worker, tiers, ghosts, faults>>

-----------------------------------------------------------------------------
(* The workers.  BullMQ gives each one job at a time.                      *)

At(w, pc) == worker[w].pc = pc
To(w, pc) == [worker EXCEPT ![w].pc = pc]

\* Mutant: the second mail follows the first, and the first is for the second day.
OverdueInTurn ==
  { late \in Jobs \X Hours :
      LET j == late[1]
          h == late[2]
      IN /\ row[j].listed
         /\ h \notin row[j].escalated
         /\ IF h = 24 THEN row[j].age = 24 ELSE row[j].age = 72 /\ 24 \in row[j].escalated }

\* What escalateUnresolvedDeadLetters decides from the rows and the time it
\* starts with.
Overdue ==
  { late \in Jobs \X Hours :
      LET j == late[1]
          h == late[2]
      IN /\ row[j].listed
         /\ row[j].age >= h
         /\ h \notin row[j].escalated
         /\ h = 24 => ~(row[j].age >= 72 /\ 72 \notin row[j].escalated) }

\* The lists a probe may get: what GitHub has is promising or it is not.
Degraded(promising) == {EvaluateDegraded(h) : h \in {g \in Histories : Promising(g) = promising}}
DegradedWhenHealthy == Degraded(TRUE)
DegradedWhenNot == Degraded(FALSE)

\* The health worker takes a job and reads what it needs.  The lock scan and
\* the failover check are JobLifecycle's and FencingLock's.
TakeHealth(kind) ==
  /\ At("health", "idle")
  /\ \E degraded \in IF kind # "tier-b-probe" THEN {FALSE}
                     ELSE IF healthy THEN DegradedWhenHealthy ELSE DegradedWhenNot :
       worker' = [worker EXCEPT !["health"] =
         [Idle EXCEPT !.pc = CASE kind = "dead-letter-escalate" -> "rows"
                               [] kind = "tier-b-probe" -> IF degraded THEN "degraded" ELSE "in order"
                               [] OTHER -> "run",
                      !.kind = kind,
                      !.rows = IF kind = "dead-letter-escalate" THEN Overdue ELSE {}]]
  /\ UNCHANGED <<letters, tiers, ghosts, faults>>

FinishOther ==
  /\ At("health", "run")
  /\ worker' = [worker EXCEPT !["health"] = Idle]
  /\ UNCHANGED <<letters, tiers, ghosts, faults>>

\* recordProbe; the average cold start it also keeps serves deadlines only,
\* which no job has.
Recorded(degraded) == [tierB EXCEPT !.degraded = degraded]

\* probeTierB records what it read, and alerts the administrator if degraded.
RecordProbe ==
  /\ worker["health"].pc \in {"degraded", "in order"}
  /\ tierB' = Recorded(At("health", "degraded"))
  /\ worker' = IF At("health", "degraded") THEN To("health", "alert")
               ELSE [worker EXCEPT !["health"] = Idle]
  /\ UNCHANGED <<letters, healthy, ghosts, faults>>

\* The next row of the scan, in whatever order Postgres gave them.
NextRow ==
  /\ At("health", "rows")
  /\ \E r \in worker["health"].rows :
       worker' = [worker EXCEPT !["health"].pc = "alert", !["health"].at = r,
                                !["health"].rows = @ \ {r}]
  /\ UNCHANGED <<letters, tiers, ghosts, faults>>

EscalationEnds ==
  /\ At("health", "rows")
  /\ worker["health"].rows = {}
  /\ worker' = [worker EXCEPT !["health"] = Idle]
  /\ UNCHANGED <<letters, tiers, ghosts, faults>>

\* processDeadLetterEvent reads the job and its project, and alerts.
ProcessDeadLetterEvent(j) ==
  [Idle EXCEPT !.pc = "alert", !.kind = "dead-letter", !.at = <<j>>]

\* The worker of pgos-dead-letter; an event that is done stays in the queue.
TakeEvent(j) ==
  /\ At("consumer", "idle")
  /\ event[j] = "waiting"
  /\ event' = [event EXCEPT ![j] = "kept"]
  /\ worker' = [worker EXCEPT !["consumer"] = ProcessDeadLetterEvent(j)]
  /\ UNCHANGED <<row, burial, burials, tiers, ghosts, faults>>

-----------------------------------------------------------------------------
(* Tier B from outside the worker.                                         *)

\* POST /tiers/B/probe, from godot_health.yml or an operator.
Ingested == {IngestDegraded(report) : report \in Reports}

Ingest ==
  /\ \E degraded \in Ingested : tierB' = Recorded(degraded)
  /\ UNCHANGED <<letters, worker, healthy, ghosts, faults>>

\* POST /tiers/B/enable.
SetTierEnabled ==
  /\ \E enabled \in BOOLEAN : tierB' = [tierB EXCEPT !.enabled = enabled]
  /\ UNCHANGED <<letters, worker, healthy, ghosts, faults>>

\* Runs start, end and grow old.
RunsChange ==
  /\ healthy' = ~healthy
  /\ UNCHANGED <<letters, worker, tierB, ghosts, faults>>

-----------------------------------------------------------------------------
(* sendAlert, called by either worker.                                     *)

\* A tier alert names no contacts; a dead-letter alert those of the project.
AddressedBy(w) == IF worker[w].kind = "tier-b-probe" THEN {} ELSE ToSet(Contacts)

ContactResults == Results(ResolveAlertRecipients(Contacts))
AdminResults == Results(ResolveAlertRecipients(<<>>))
ResultsFor(w) == IF worker[w].kind = "tier-b-probe" THEN AdminResults ELSE ContactResults

\* The row in audit_logs, and the webhook, whose errors are swallowed.
Audit(w) ==
  /\ At(w, "alert")
  /\ worker' = To(w, "mail")
  /\ UNCHANGED <<letters, tiers, ghosts, faults>>

\* Mutant: a failed mail is tried again, however often it takes.
MailRetry(w) ==
  /\ At(w, "mail")
  /\ \E result \in ResultsFor(w) :
       worker' = [worker EXCEPT ![w].pc = CASE result.outcome = "hung" -> "hung"
                                            [] result.outcome = "failed" -> "alert"
                                            [] OTHER -> "mailed"]
  /\ UNCHANGED <<letters, tiers, ghosts, faults>>

\* The job a mail is about, in its first burial.
MailAbout(w) == {j \in Jobs : worker[w].at # <<>> /\ worker[w].at[1] = j /\ burials[j] = 1}

\* Every alert here is high or critical, so a mail follows; whatever comes of
\* it, short of never coming back, sendAlert returns: an error is swallowed.
Mail(w) ==
  /\ At(w, "mail")
  /\ \E result \in ResultsFor(w) :
       /\ worker' = [worker EXCEPT ![w].pc = IF result.outcome = "hung" THEN "hung" ELSE "mailed",
                                   ![w].result = result]
       /\ told' = told \cup (IF result.outcome = "sent" THEN MailAbout(w) ELSE {})
       /\ lost' = (lost \cup (IF result.outcome = "failed" THEN MailAbout(w) ELSE {})) \ told'
  /\ mails' = IF Len(worker[w].at) = 2
              THEN [mails EXCEPT ![worker[w].at[1]][worker[w].at[2]] = @ + 1]
              ELSE mails
  /\ UNCHANGED <<letters, tiers, faults>>

\* Mutant: the row is marked as 24 hours late, whichever mail was sent.
MarkOrFinish24(w) ==
  /\ At(w, "mailed")
  /\ IF worker[w].kind = "dead-letter-escalate"
     THEN /\ row' = [row EXCEPT ![worker[w].at[1]].escalated = @ \cup {24}]
          /\ worker' = [worker EXCEPT ![w].pc = "rows", ![w].at = <<>>, ![w].result = NoResult]
     ELSE row' = row /\ worker' = [worker EXCEPT ![w] = Idle]
  /\ UNCHANGED <<burial, event, burials, tiers, ghosts, faults>>

\* The scan sets the flag of the mail; the other alerts end their job.
MarkOrFinish(w) ==
  /\ At(w, "mailed")
  /\ IF worker[w].kind = "dead-letter-escalate"
     THEN /\ row' = [row EXCEPT ![worker[w].at[1]].escalated = @ \cup {worker[w].at[2]}]
          /\ worker' = [worker EXCEPT ![w].pc = "rows", ![w].at = <<>>, ![w].result = NoResult]
     ELSE row' = row /\ worker' = [worker EXCEPT ![w] = Idle]
  /\ UNCHANGED <<burial, event, burials, tiers, ghosts, faults>>

\* A statement fails and with it the job; nothing retries it.
JobFails(w) ==
  /\ worker[w].pc \in {"run", "degraded", "in order", "alert", "mailed"}
  /\ faults < MaxFaults
  /\ faults' = faults + 1
  /\ worker' = [worker EXCEPT ![w] = Idle]
  /\ UNCHANGED <<letters, tiers, ghosts>>

\* The process dies and starts again: BullMQ hands out the jobs it had.
Restart ==
  /\ faults < MaxFaults
  /\ faults' = faults + 1
  /\ event' = [j \in Jobs |-> IF worker["consumer"].at = <<j>> THEN "waiting" ELSE event[j]]
  /\ worker' = [w \in DOMAIN worker |-> Idle]
  /\ burial' = [j \in Jobs |-> IF burial[j] = "listed" THEN "dead" ELSE burial[j]]
  /\ UNCHANGED <<row, burials, tiers, ghosts>>

Work(w) == Audit(w) \/ Mail(w) \/ MarkOrFinish(w)

HealthStep == FinishOther \/ RecordProbe \/ NextRow \/ EscalationEnds

Next ==
  \/ \E j \in Jobs :
       ListRow(j) \/ AddEvent(j) \/ AddFails(j) \/ RetryDeadLetter(j) \/ Ages(j) \/ TakeEvent(j)
  \/ \E kind \in Kinds : TakeHealth(kind)
  \/ HealthStep \/ Restart
  \/ Ingest \/ SetTierEnabled \/ RunsChange
  \/ \E w \in DOMAIN worker : Work(w) \/ JobFails(w)

Fairness ==
  /\ \A kind \in Kinds : SF_vars(TakeHealth(kind))
  /\ WF_vars(HealthStep \/ Work("health")) /\ WF_vars(Work("consumer"))
  /\ \A j \in Jobs : WF_vars(AddEvent(j)) /\ WF_vars(TakeEvent(j)) /\ WF_vars(Ages(j))

Spec == Init /\ [][Next]_vars /\ Fairness

-----------------------------------------------------------------------------
\* When sendSmtpMail reports no error the server has taken the mail for every
\* contact of the project and for ADMIN_EMAIL, however they were typed and
\* however many lines its replies had.
SentIsTaken ==
  \A w \in DOMAIN worker :
    At(w, "mailed") /\ worker[w].result.outcome = "sent" =>
      worker[w].result.taken =
        {a.key : a \in ({Admin} \cup AddressedBy(w)) \ {Blank}}

\* A job's escalation mail of either kind is repeated only when a crash or a
\* failed statement came between the mail and its flag.
EscalatedOnce ==
  \A j \in Jobs, h \in Hours : mails[j][h] <= 1 + faults

Hung(w) == At(w, "hung")

\* The first time a job is buried a mail about it is sent, or it is retried:
\* what the queue event loses, or its consumer never gets rid of, the escalation
\* makes up for, unless the mail server leaves the health worker waiting.  When
\* the server fails a mail nobody need hear of the job: the error is swallowed
\* and the row flagged all the same.
FirstBurialHeard ==
  \A j \in Jobs :
    burials[j] = 1 /\ row[j].listed
      ~> j \in told \/ j \in lost \/ ~row[j].listed \/ Hung("health")

\* The stale-lock scan runs again and again, unless the mail server leaves
\* the health worker waiting for a line that never comes.
ScansGoOn ==
  []<>(worker["health"].kind = "stale-lock-scan") \/ <>[]Hung("health")

BOk == tierB.enabled /\ ~tierB.degraded

\* Tier B is not lost for good: when it stays enabled and what GitHub lists is
\* promising from some point on, jobs that do not ask for tier A are sent to
\* it again and again, whatever older reports or operators write in between.
TierReturns ==
  \/ ~<>[](healthy /\ tierB.enabled)
  \/ []<>(\A preferred \in {"B", "none"}, aOk \in BOOLEAN, deep \in BOOLEAN :
            SelectTier(preferred, aOk, BOk, FALSE, deep) = "B")
  \/ <>[]Hung("health")
=============================================================================
