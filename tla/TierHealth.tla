----------------------------- MODULE TierHealth -----------------------------
(***************************************************************************)
(* How tier B (hosted runners) is judged from the workflow runs GitHub     *)
(* lists, and how a job's tier is chosen (tier-probe.ts, github-service.ts,*)
(* scheduler-service.ts).  Time is in half minutes and the lists are read  *)
(* at the moment Now.                                                      *)
(***************************************************************************)
EXTENDS Integers, FiniteSets, Sequences, SequencesExt

CONSTANT RunTimes  \* moments at which the runs in a list were created

Now == 200
MaxAge == 180         \* TIER_B_HEALTH_RUN_MAX_AGE_MS
SlowStart == 4        \* TIER_B_COLD_START_DEGRADED_MS
Unknown == -1         \* a timestamp GitHub did not give

ASSUME RunTimesAssumption == RunTimes \subseteq 0..Now

\* A run as listRecentWorkflowRuns returns it.
Run(created, started, updated, status, conclusion) ==
  [created |-> created, started |-> started, updated |-> updated,
   status |-> status, conclusion |-> conclusion]

Runs ==
  LET Soon(t) == {t + 1, t + 10} \cap 0..Now
  IN UNION { {Run(t, Unknown, t, "queued", "null")}
             \cup {Run(t, s, s, "in_progress", "null") : s \in Soon(t) \cup {Unknown}}
             \cup {Run(t, s, u, "completed", c) : s \in Soon(t) \cup {Unknown}, u \in Soon(t),
                                                  c \in {"success", "failure"}} : t \in RunTimes }

\* What probeTierBAvailability has in hand: whether the API answered, the runs
\* of godot_health.yml and those of the worker workflow.
Histories ==
  {[api |-> FALSE, health |-> <<>>, other |-> <<>>]}
  \cup {[api |-> TRUE, health |-> h, other |-> o] : h \in SeqOf(Runs, 1), o \in SeqOf(Runs, 1)}

MinOf(a, b) == IF a <= b THEN a ELSE b
MaxOf(a, b) == IF a >= b THEN a ELSE b

EstimateColdStart(run) ==
  CASE run.started # Unknown /\ run.started >= run.created -> run.started - run.created
    [] run.status = "completed" /\ run.updated # Unknown /\ run.updated >= run.created ->
         MinOf(run.updated - run.created, 20)
    [] run.status \in {"queued", "in_progress"} -> MaxOf(0, Now - run.created)
    [] OTHER -> 2

\* Mutant: the runs of the health workflow come first, whatever their age.
LatestHealthFirst(history) == Head(history.health \o history.other)

\* The newest of both lists; of equals the one listed first.
Latest(history) ==
  LET all == history.health \o history.other
      first == CHOOSE i \in DOMAIN all :
                 /\ \A k \in DOMAIN all : all[k].created <= all[i].created
                 /\ \A k \in 1..(i - 1) : all[k].created < all[i].created
  IN all[first]

\* evaluateTierBFromWorkflowRuns, the flag it gives.
EvaluateDegraded(history) ==
  \/ ~history.api
  \/ history.health \o history.other = <<>>
  \/ LET latest == Latest(history)
         fresh == MaxOf(0, Now - latest.created) <= MaxAge
         success == latest.status = "completed" /\ latest.conclusion = "success"
         online == fresh /\ (success \/ latest.status \in {"in_progress", "queued"})
     IN ~online \/ EstimateColdStart(latest) > SlowStart

\* evaluateTierBFromWorkflowIngest and the override of POST /tiers/B/probe.
IngestDegraded(report) ==
  IF report.degraded = "unset"
  THEN ~report.online \/ report.cold > SlowStart
  ELSE report.degraded = "true"

Reports == [online : BOOLEAN, cold : {0, SlowStart, SlowStart + 1}, degraded : {"unset", "true", "false"}]

\* selectTier; no caller gives it a deadline.  A tier is usable when it is
\* enabled, in the environment and in tier_health, and not degraded.
SelectTier(preferred, aOk, bOk, highVolume, deep) ==
  CASE preferred = "A" /\ aOk -> "A"
    [] preferred = "B" /\ bOk -> "B"
    [] aOk /\ highVolume /\ deep -> "A"
    [] bOk -> "B"
    [] aOk -> "A"
    [] OTHER -> "B"

-----------------------------------------------------------------------------
\* The yardstick: GitHub answers, there is a run, and every newest run is at
\* most 90 minutes old, has not failed, and took or has been taking no more
\* than two minutes to get a runner as far as its timestamps tell.
Promising(history) ==
  LET runs == ToSet(history.health) \cup ToSet(history.other)
      newest == {r \in runs : \A q \in runs : q.created <= r.created}
      Met(r) == IF r.started # Unknown THEN r.started
                ELSE IF r.status = "completed" THEN r.updated ELSE Now
  IN /\ history.api
     /\ runs # {}
     /\ \A r \in newest :
          r.created >= Now - MaxAge /\ r.conclusion # "failure" /\ Met(r) <= r.created + SlowStart
=============================================================================
