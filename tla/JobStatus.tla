----------------------------- MODULE JobStatus -----------------------------
(***************************************************************************)
(* The job status machine (shared/job-status.ts) and the pure decisions of *)
(* dependency-gate.ts.  "NONE" is a job that is not in the jobs table.     *)
(***************************************************************************)

JobStatuses ==
    {"QUEUED", "DISPATCHING", "DISPATCH_TIMEOUT", "DISPATCH_FAILED", "BLOCKED",
     "STAGING", "VALIDATING", "VALIDATION_REPORT", "VALIDATION_FAILED",
     "REIMPORT_FAILED", "COMMITTING", "COMMIT_FAILED", "POST_COMMIT_VERIFY",
     "ROLLBACK", "COMPLETED", "LOCK_STALE", "DEP_FAILED", "PAUSED_EDITOR_LOCK",
     "CANCELLED", "DEAD_LETTER"}

ActiveGeneration ==
    {"QUEUED", "DISPATCHING", "STAGING", "VALIDATING", "VALIDATION_REPORT",
     "COMMITTING", "POST_COMMIT_VERIFY"}

RetriableFailures ==
    {"REIMPORT_FAILED", "VALIDATION_FAILED", "COMMIT_FAILED",
     "DISPATCH_TIMEOUT", "DISPATCH_FAILED"}

Terminal == {"COMPLETED", "ROLLBACK", "DEP_FAILED", "CANCELLED", "DEAD_LETTER"}

(* JOB_STATUS_TRANSITIONS *)
AllowedFrom(s) ==
    CASE s = "QUEUED" ->
            {"DISPATCHING", "DISPATCH_FAILED", "BLOCKED", "CANCELLED", "LOCK_STALE"}
      [] s = "DISPATCHING" ->
            {"STAGING", "DISPATCH_TIMEOUT", "DISPATCH_FAILED", "BLOCKED",
             "CANCELLED", "LOCK_STALE"}
      [] s = "DISPATCH_TIMEOUT" ->
            {"QUEUED", "DEAD_LETTER", "CANCELLED", "LOCK_STALE", "DISPATCH_FAILED"}
      [] s \in {"DISPATCH_FAILED", "REIMPORT_FAILED", "VALIDATION_FAILED",
                "COMMIT_FAILED"} ->
            {"QUEUED", "DEAD_LETTER", "CANCELLED", "LOCK_STALE"}
      [] s = "BLOCKED" -> {"QUEUED", "CANCELLED"}
      [] s = "STAGING" ->
            {"VALIDATING", "REIMPORT_FAILED", "PAUSED_EDITOR_LOCK", "LOCK_STALE",
             "CANCELLED"}
      [] s = "VALIDATING" ->
            {"VALIDATION_REPORT", "VALIDATION_FAILED", "REIMPORT_FAILED",
             "LOCK_STALE", "CANCELLED"}
      [] s = "VALIDATION_REPORT" -> {"COMMITTING", "VALIDATION_FAILED", "CANCELLED"}
      [] s = "COMMITTING" ->
            {"POST_COMMIT_VERIFY", "COMMIT_FAILED", "PAUSED_EDITOR_LOCK",
             "LOCK_STALE", "CANCELLED"}
      [] s = "POST_COMMIT_VERIFY" ->
            {"COMPLETED", "ROLLBACK", "REIMPORT_FAILED", "LOCK_STALE", "CANCELLED"}
      [] s = "LOCK_STALE" -> {"QUEUED", "DEAD_LETTER", "CANCELLED", "DISPATCH_FAILED"}
      [] s = "PAUSED_EDITOR_LOCK" -> {"STAGING", "CANCELLED", "LOCK_STALE"}
      [] OTHER -> {}

CanTransition(from, to) == from = to \/ to \in AllowedFrom(from)

-----------------------------------------------------------------------------
(* dependency-gate.ts *)

\* mutant: a dependency that ended, however it ended, lets its dependents run
DependencyGateEnded(depStatus) ==
    CASE depStatus \in Terminal -> "allow"
      [] depStatus = "NONE" -> "dep_failed"
      [] OTHER -> "block_dependency"

(* evaluateDependencyGate for a dependency of the same project. *)
DependencyGate(depStatus) ==
    CASE depStatus = "COMPLETED" -> "allow"
      [] depStatus \in (Terminal \ {"COMPLETED"}) \cup {"NONE"} -> "dep_failed"
      [] OTHER -> "block_dependency"

(* PROJECT_SLOT_ACTIVE_STATUSES *)
SlotActive == ActiveGeneration \cup RetriableFailures

(* canPromoteBlockedJob: hasDep/depStatus describe dependsOnJobId, waits says
   that blockedByJobId is set to another job than the finished one and
   blockerStatus is that job's status, held that another job is active. *)
PromoteDecision(hasDep, depStatus, waits, blockerStatus, held) ==
    IF hasDep /\ DependencyGate(depStatus) = "dep_failed" THEN "dep_failed"
    ELSE IF \/ hasDep /\ depStatus # "COMPLETED"
            \/ waits /\ blockerStatus \in SlotActive
            \/ held
         THEN "keep" ELSE "promote"
=============================================================================
