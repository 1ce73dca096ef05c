---------------------------- MODULE MergeOutbox ----------------------------
(***************************************************************************)
(* POST /merge and the merge outbox: an override is merged into a scene    *)
(* file at once, or queued and applied later by a drain of the outbox, on  *)
(* the orchestrator's disk when the project is mounted there, else by a    *)
(* merge_apply workflow run on a runner, which uses its own disk or the    *)
(* commit agent of the target host and then posts /complete.               *)
(*                                                                         *)
(* Every awaited statement or file operation is a step of its own, because *)
(* drains of two processes, requests and runs interleave there.  The       *)
(* overrides are all of one project and, the ones in plain apart, of one   *)
(* file.  The file is the set of overrides merged into it; how scenes      *)
(* merge is in TscnMerge.  Hashes and details are left out: only people    *)
(* read them.                                                              *)
(***************************************************************************)
EXTENDS Naturals, SequencesExt

CONSTANTS
  Overrides,   \* the requests that may be made
  Scripts,     \* the overrides whose patch introduces a script
  MaybePlain,  \* the overrides whose path need not end in .tscn
  Drains,      \* processes that run the drain, one job at a time each
  Runs,        \* workflow runs under way at a time
  NoOne,       \* not an override
  BatchLimit,  \* rows a drain takes
  MaxFaults    \* bound on crashes, errors and lost answers

ASSUME OutboxAssumption ==
  /\ Scripts \subseteq Overrides
  /\ MaybePlain \subseteq Overrides
  /\ NoOne \notin Overrides
  /\ BatchLimit \in Nat \ {0}
  /\ MaxFaults \in Nat

VARIABLES
  redispatch,  \* PGOS_MERGE_OUTBOX_REDISPATCH = 1
  mode,        \* what PGOS_STRUCTURAL_MERGE and PGOS_MERGE_MODE come to
  plain,       \* the overrides whose path does not end in .tscn
  mounted,     \* project_root is a directory on the orchestrator
  scene,       \* the scene file: the overrides merged into it
  req,         \* the POST /merge of each override
  over,        \* table overrides
  outbox,      \* table merge_outbox, its row for each override
  created,     \* the rows of merge_outbox by created_at
  drain,       \* the drain jobs
  run,         \* the workflow runs
  landed,      \* overrides some merge of which was written to the file
  overlap,     \* two read-merge-rename of the file have overlapped
  faults

tables == <<over, outbox, created>>
files  == <<scene, landed, overlap>>
env    == <<redispatch, mode, plain, mounted>>
vars   == <<env, files, req, tables, drain, run, faults>>

\* A scene that was not read.
NoScene == {NoOne}

Row(status, dispatched) == [status |-> status, dispatched |-> dispatched]
NoRow == Row("absent", FALSE)

Pending(o) == outbox[o].status = "pending"

\* What a request, a drain or a run is at, the override it processes and the
\* scene it has read or written.
Task(pc, o, content) == [pc |-> pc, of |-> o, content |-> content]
Idle == Task("idle", NoOne, NoScene)

Init ==
  /\ redispatch \in BOOLEAN
  /\ mode \in {"local_fs", "outbox", "registry_only"}
  /\ mounted \in BOOLEAN
  /\ plain \in SUBSET MaybePlain
  /\ scene = {}
  /\ landed = {}
  /\ overlap = FALSE
  /\ req = [o \in Overrides |-> Idle]
  /\ over = [o \in Overrides |-> "absent"]
  /\ outbox = [o \in Overrides |-> NoRow]
  /\ created = <<>>
  /\ drain = [d \in Drains |-> [task |-> Idle, queue |-> <<>>]]
  /\ run = [r \in Runs |-> Idle]
  /\ faults = 0

Fault == faults < MaxFaults /\ faults' = faults + 1

\* The task of a request, drain or run that has read the file and not yet
\* replaced it; a step that may start one.
Writing(t) == t.pc \in {"merge", "local", "agent"}
Writers == {req[o] : o \in Overrides} \cup {drain[d].task : d \in Drains} \cup {run[r] : r \in Runs}

MayRead(task) ==
  /\ overlap' = (overlap \/ (Writing(task) /\ \E t \in Writers : Writing(t)))
  /\ UNCHANGED <<scene, landed>>

\* The rename that puts a merged scene in place of the file: what was read is
\* merged with o, whatever the file has become since.
PutAlone(o, read) ==
  /\ scene' = {o}
  /\ landed' = landed \cup {o}
  /\ UNCHANGED overlap

PutScene(o, read) ==
  /\ scene' = read \cup {o}
  /\ landed' = landed \cup {o}
  /\ UNCHANGED overlap

---------------------------------------------------------------------------
\* POST /merge.

ReqTo(o, pc, content) == req' = [req EXCEPT ![o] = Task(pc, NoOne, content)]

\* patchIntroducesScript, which the agent has a port of.
IntroducesScript(o) == o \in Scripts
AgentRefuses(o) == o \in Scripts

\* A script needs an admin.  A readable root and a scene are merged at once;
\* a root that is not readable turns the request into an outbox one.
Submit(o, admin) ==
  /\ req[o].pc = "idle"
  /\ IF IntroducesScript(o) /\ ~admin
     THEN ReqTo(o, "refused", NoScene)
     ELSE CASE mode = "local_fs" /\ mounted /\ o \notin plain -> ReqTo(o, "merge", scene)
            [] mode = "local_fs" /\ mounted /\ o \in plain    -> ReqTo(o, "local_fs", NoScene)
            [] mode = "local_fs" /\ ~mounted                      -> ReqTo(o, "outbox", NoScene)
            [] OTHER                                              -> ReqTo(o, mode, NoScene)
  /\ MayRead(req'[o])
  /\ UNCHANGED <<env, tables, drain, run, faults>>

\* The file was read when the request came; it is merged and replaced now.
RequestMerge(o) ==
  /\ req[o].pc = "merge"
  /\ PutScene(o, req[o].content)
  /\ ReqTo(o, "local_fs", NoScene)
  /\ UNCHANGED <<env, tables, drain, run, faults>>

\* Reading or writing fails: a missing scene refuses the request, any other
\* error leaves it to the outbox.
RequestMergeFails(o) ==
  /\ req[o].pc = "merge"
  /\ Fault
  /\ \E pc \in {"refused", "outbox"} : ReqTo(o, pc, NoScene)
  /\ UNCHANGED <<env, files, tables, drain, run>>

RequestInsert(o) ==
  /\ req[o].pc \in {"local_fs", "outbox", "registry_only"}
  /\ over' = [over EXCEPT ![o] = IF req[o].pc = "registry_only" THEN "null" ELSE req[o].pc]
  /\ ReqTo(o, IF req[o].pc = "outbox" THEN "queue" ELSE "done", NoScene)
  /\ UNCHANGED <<env, files, outbox, created, drain, run, faults>>

RequestQueue(o) ==
  /\ req[o].pc = "queue"
  /\ outbox' = [outbox EXCEPT ![o] = Row("pending", FALSE)]
  /\ created' = Append(created, o)
  /\ ReqTo(o, "done", NoScene)
  /\ UNCHANGED <<env, files, over, drain, run, faults>>

RequestCrash(o) ==
  /\ req[o].pc \notin {"idle", "refused", "done"}
  /\ Fault
  /\ ReqTo(o, "done", NoScene)
  /\ UNCHANGED <<env, files, tables, drain, run>>

---------------------------------------------------------------------------
\* The drain job.

DrainTo(d, pc, content) ==
  drain' = [drain EXCEPT ![d].task = Task(pc, @.of, content)]
RowDone(d) == drain' = [drain EXCEPT ![d].task = Task("next", NoOne, NoScene)]

ListedNew(o) == Pending(o) /\ ~outbox[o].dispatched

\* The rows that listPending returns: locks taken by the SELECT are gone when
\* it returns, so another drain may return them too.
Listed(o) == Pending(o) /\ (redispatch \/ ~outbox[o].dispatched)

ListPending(d) ==
  LET rows == SelectSeq(created, Listed)
  IN  /\ drain[d].task.pc = "idle"
      /\ rows # <<>>
      /\ drain' = [drain EXCEPT ![d].task = Task("next", NoOne, NoScene),
                                ![d].queue = SubSeq(rows, 1, Min({Len(rows), BatchLimit}))]
      /\ UNCHANGED <<env, files, req, tables, run, faults>>

\* The next row of the batch, as it was listed.  project_root is NOT NULL, so
\* a root that is not readable is always a remote target.
TakeRow(d) ==
  /\ drain[d].task.pc = "next"
  /\ IF drain[d].queue = <<>>
     THEN drain' = [drain EXCEPT ![d].task = Idle]
     ELSE LET o == Head(drain[d].queue)
              task == CASE o \in plain               -> Task("fail", o, NoScene)
                        [] o \notin plain /\ mounted -> Task("merge", o, scene)
                        [] OTHER                     -> Task("dispatch", o, NoScene)
          IN  drain' = [drain EXCEPT ![d] = [task |-> task, queue |-> Tail(drain[d].queue)]]
  /\ MayRead(drain'[d].task)
  /\ UNCHANGED <<env, req, tables, run, faults>>

DrainMerge(d) ==
  /\ drain[d].task.pc = "merge"
  /\ PutScene(drain[d].task.of, drain[d].task.content)
  /\ DrainTo(d, "applied", NoScene)
  /\ UNCHANGED <<env, req, tables, run, faults>>

\* markApplied: two statements, the row and then the override's hash.
MarkApplied(d) ==
  /\ drain[d].task.pc = "applied"
  /\ outbox' = [outbox EXCEPT ![drain[d].task.of] = Row("applied", FALSE)]
  /\ DrainTo(d, "hash", NoScene)
  /\ UNCHANGED <<env, files, req, over, created, run, faults>>

MarkHash(d) ==
  /\ drain[d].task.pc = "hash"
  /\ over' = [over EXCEPT ![drain[d].task.of] = "outbox"]
  /\ RowDone(d)
  /\ UNCHANGED <<env, files, req, outbox, created, run, faults>>

\* The patch goes to S3 and, sealed in an envelope, a service token and, for
\* a target host, the key that was provisioned for this row.
SealDispatch(d) ==
  /\ drain[d].task.pc = "dispatch"
  /\ DrainTo(d, "sealed", NoScene)
  /\ UNCHANGED <<env, files, req, tables, run, faults>>

\* What a run can open again and again: the row it is for, no reference that
\* would be used up.
CreateDirectDispatchJwe(o) == Task("queued", o, NoScene)

\* A run of merge_apply.yml is queued.
DispatchWorkflowFile(o) ==
  \E r \in Runs :
    /\ run[r].pc = "idle"
    /\ run' = [run EXCEPT ![r] = CreateDirectDispatchJwe(o)]

\* The workflow dispatch.
DispatchMergeApply(d) ==
  LET o == drain[d].task.of
  IN  /\ drain[d].task.pc = "sealed"
      /\ DispatchWorkflowFile(o)
      /\ \/ DrainTo(d, "stamp", NoScene) /\ UNCHANGED faults
         \/ DrainTo(d, "fail", NoScene) /\ Fault   \* the answer is lost
      /\ UNCHANGED <<env, files, req, tables>>

\* markDispatched: the row stays pending.
MarkDispatched(d) ==
  LET o == drain[d].task.of
  IN  /\ drain[d].task.pc = "stamp"
      /\ outbox' = IF redispatch \/ Pending(o)
                   THEN [outbox EXCEPT ![o] = Row(@.status, TRUE)] ELSE outbox
      /\ RowDone(d)
      /\ UNCHANGED <<env, files, req, over, created, run, faults>>

\* Whatever throws while a row is processed ends in markFailed, which does
\* not look at the row's status.
RowThrows(d) ==
  /\ drain[d].task.pc \in {"merge", "applied", "hash", "dispatch", "sealed", "stamp"}
  /\ Fault
  /\ DrainTo(d, "fail", NoScene)
  /\ UNCHANGED <<env, files, req, tables, run>>

MarkFailed(d) ==
  /\ drain[d].task.pc = "fail"
  /\ outbox' = [outbox EXCEPT ![drain[d].task.of] = Row("failed", FALSE)]
  /\ DrainTo(d, "alert", NoScene)
  /\ UNCHANGED <<env, files, req, over, created, run, faults>>

\* The alert that markFailed is followed by is awaited.
SendAlert(d) ==
  /\ drain[d].task.pc = "alert"
  /\ RowDone(d)
  /\ UNCHANGED <<env, files, req, tables, run, faults>>

\* Two awaits of a remote row have no timeout, the POST that provisions a key
\* over mTLS and the SMTP session of the alert, which is of severity high for
\* a failed dispatch alone.  The drain never takes another row.
MayHang(task) ==
  \/ task.pc = "dispatch"
  \/ task.pc = "alert" /\ task.of \notin plain /\ ~mounted

DrainHangs(d) ==
  /\ MayHang(drain[d].task)
  /\ Fault
  /\ DrainTo(d, "hung", NoScene)
  /\ UNCHANGED <<env, files, req, tables, run>>

\* The process stops and comes back, or what the handler of a failed row calls
\* (markFailed, the alert's INSERT) throws and ends the job.
DrainCrash(d) ==
  /\ drain[d].task.pc # "idle"
  /\ Fault
  /\ drain' = [drain EXCEPT ![d] = [task |-> Idle, queue |-> <<>>]]
  /\ UNCHANGED <<env, files, req, tables, run>>

---------------------------------------------------------------------------
\* The workflow run: merge-apply.sh.

RunTo(r, pc, content) == run' = [run EXCEPT ![r] = Task(pc, @.of, content)]
RunEnds(r) == run' = [run EXCEPT ![r] = Idle]

RunReadAny(r, colocated) ==
  /\ run[r].pc = "queued"
  /\ IF colocated \/ ~AgentRefuses(run[r].of)
     THEN RunTo(r, IF colocated THEN "local" ELSE "agent", scene)
     ELSE RunTo(r, "report", NoScene)
  /\ MayRead(run'[r])
  /\ UNCHANGED <<env, req, tables, drain, faults>>

\* The tree is on the runner (apply_local), or on the target host, whose
\* agent refuses every patch that introduces a script.
RunRead(r, colocated) ==
  /\ run[r].pc = "queued"
  /\ IF colocated \/ ~AgentRefuses(run[r].of)
     THEN RunTo(r, IF colocated THEN "local" ELSE "agent", scene)
     ELSE RunEnds(r)
  /\ MayRead(run'[r])
  /\ UNCHANGED <<env, req, tables, drain, faults>>

ApplyLocal(r) ==
  /\ run[r].pc = "local"
  /\ PutScene(run[r].of, run[r].content)
  /\ RunTo(r, "report", NoScene)
  /\ UNCHANGED <<env, req, tables, drain, faults>>

HandleMergeApply(r) ==
  /\ run[r].pc = "agent"
  /\ PutScene(run[r].of, run[r].content)
  /\ RunTo(r, "report", NoScene)
  /\ UNCHANGED <<env, req, tables, drain, faults>>

\* POST /merge-outbox/:id/complete: whatever the row's status is, two statements.
Complete(r) ==
  /\ run[r].pc = "report"
  /\ outbox' = [outbox EXCEPT ![run[r].of] = Row("applied", FALSE)]
  /\ RunTo(r, "hash", NoScene)
  /\ UNCHANGED <<env, files, req, over, created, drain, faults>>

CompleteHash(r) ==
  /\ run[r].pc = "hash"
  /\ over' = [over EXCEPT ![run[r].of] = "outbox"]
  /\ RunEnds(r)
  /\ UNCHANGED <<env, files, req, outbox, created, drain, faults>>

\* The run, its SSH session or its callback is lost at any point.
RunDies(r) ==
  /\ run[r].pc # "idle"
  /\ Fault
  /\ RunEnds(r)
  /\ UNCHANGED <<env, files, req, tables, drain>>

---------------------------------------------------------------------------
Request(o) ==
  \/ \E admin \in BOOLEAN : Submit(o, admin)
  \/ RequestMerge(o)
  \/ RequestMergeFails(o)
  \/ RequestInsert(o)
  \/ RequestQueue(o)
  \/ RequestCrash(o)

DrainStep(d) ==
  \/ ListPending(d)
  \/ TakeRow(d)
  \/ DrainMerge(d)
  \/ MarkApplied(d)
  \/ MarkHash(d)
  \/ SealDispatch(d)
  \/ DispatchMergeApply(d)
  \/ MarkDispatched(d)
  \/ RowThrows(d)
  \/ MarkFailed(d)
  \/ SendAlert(d)

RunStep(r) ==
  \/ \E colocated \in BOOLEAN : RunRead(r, colocated)
  \/ ApplyLocal(r)
  \/ HandleMergeApply(r)
  \/ Complete(r)
  \/ CompleteHash(r)

Next ==
  \/ \E o \in Overrides : Request(o)
  \/ \E d \in Drains : DrainStep(d) \/ DrainHangs(d) \/ DrainCrash(d)
  \/ \E r \in Runs : RunStep(r) \/ RunDies(r)

\* The drain is a repeated job of the queue, taken by the workers that are not
\* hung: DrainStep is disabled in a hung one until its process restarts.
DrainsRepeat == \A d \in Drains : WF_vars(DrainStep(d))

\* A dispatched run is started.  Strong fairness undoes the bound on Runs:
\* GitHub takes any number of them.
Fairness ==
  /\ DrainsRepeat
  /\ \A d \in Drains : SF_vars(DispatchMergeApply(d))
  /\ \A r \in Runs : WF_vars(RunStep(r))

Spec == Init /\ [][Next]_vars /\ Fairness

---------------------------------------------------------------------------
Phases == {"idle", "refused", "merge", "local_fs", "outbox", "registry_only", "queue", "done"}

TypeOK ==
  /\ redispatch \in BOOLEAN
  /\ mode \in {"local_fs", "outbox", "registry_only"}
  /\ mounted \in BOOLEAN
  /\ plain \in SUBSET MaybePlain
  /\ scene \subseteq Overrides
  /\ landed \subseteq Overrides
  /\ overlap \in BOOLEAN
  /\ \A o \in Overrides :
       /\ req[o].pc \in Phases
       /\ over[o] \in {"absent", "null", "local_fs", "outbox"}
       /\ outbox[o].status \in {"absent", "pending", "applied", "failed"}
       /\ outbox[o].status = "absent" <=> ~Contains(created, o)
  /\ \A d \in Drains :
       drain[d].task.pc \in {"idle", "next", "merge", "applied", "hash", "dispatch", "sealed", "stamp",
                             "fail", "alert", "hung"}
  /\ \A r \in Runs : run[r].pc \in {"idle", "queued", "local", "agent", "report", "hash"}
  /\ faults \in 0 .. MaxFaults

\* A row says "applied" only when a merge of its override was written to the
\* scene file, whichever of drains and runs processed it, however often.
AppliedHasLanded ==
  \A o \in Overrides : outbox[o].status = "applied" => o \in landed

\* What was merged into the file stays there, although nothing locks it: an
\* override is lost only when two read-merge-rename of the file overlapped.
LostOnlyByOverlap == landed \subseteq scene \/ overlap

AllHung == \A d \in Drains : drain[d].task.pc = "hung"

\* With re-dispatch on, no pending row without a script stays pending for ever:
\* a lost run is followed by another one, and another drain lists the rows of
\* one that hangs, unless every drain hangs.  Rows with a script, which the
\* agent refuses every time, must be fewer than a batch: they stay first in line.
PendingSettles ==
  Cardinality(Scripts) < BatchLimit =>
    \A o \in Overrides \ Scripts : (redispatch /\ Pending(o)) ~> (~Pending(o) \/ AllHung)

\* What docs/errors/E014.md tells the operator: a failed row is dispatched
\* again when PGOS_MERGE_OUTBOX_REDISPATCH is on.
FailedRedispatched ==
  \A o \in Overrides \ (Scripts \cup plain) :
    (redispatch /\ outbox[o].status = "failed") ~> outbox[o].status = "applied"
=============================================================================
