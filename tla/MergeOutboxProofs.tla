------------------------- MODULE MergeOutboxProofs -------------------------
(***************************************************************************)
(* Proofs about MergeOutbox, for any overrides, any number of drains and   *)
(* runs, any batch and any number of faults.                               *)
(*                                                                         *)
(* What a drain lists is a sequence the provers know nothing about, and    *)
(* nothing here depends on it: the argument is about what has been read    *)
(* and written by whoever holds a task, not about which task it got.       *)
(***************************************************************************)
EXTENDS MergeOutbox, TLAPS

Job(d) == drain[d].task

\* Rows and tasks have the form of their store.
Forms ==
  /\ req = [o \in Overrides |-> req[o]]
  /\ outbox = [o \in Overrides |-> Row(outbox[o].status, outbox[o].dispatched)]
  /\ drain = [d \in Drains |-> [task |-> Job(d), queue |-> drain[d].queue]]
  /\ run = [r \in Runs |-> run[r]]
  /\ mode \in {"local_fs", "outbox", "registry_only"}

\* Who says that an override was applied has seen it written.
Landed ==
  /\ \A o \in Overrides : outbox[o].status = "applied" => o \in landed
  /\ \A d \in Drains : Job(d).pc = "applied" => Job(d).of \in landed
  /\ \A r \in Runs : run[r].pc = "report" => run[r].of \in landed

\* While nobody has overlapped, one task at most is between its read and its
\* rename, and what it read is still the file.
Alone ==
  /\ \A o, p \in Overrides : Writing(req[o]) /\ Writing(req[p]) => o = p
  /\ \A d, e \in Drains : Writing(Job(d)) /\ Writing(Job(e)) => d = e
  /\ \A r, s \in Runs : Writing(run[r]) /\ Writing(run[s]) => r = s
  /\ \A o \in Overrides, d \in Drains : ~ (Writing(req[o]) /\ Writing(Job(d)))
  /\ \A o \in Overrides, r \in Runs : ~ (Writing(req[o]) /\ Writing(run[r]))
  /\ \A d \in Drains, r \in Runs : ~ (Writing(Job(d)) /\ Writing(run[r]))

Current ==
  /\ \A o \in Overrides : Writing(req[o]) => req[o].content = scene
  /\ \A d \in Drains : Writing(Job(d)) => Job(d).content = scene
  /\ \A r \in Runs : Writing(run[r]) => run[r].content = scene

Undisturbed == ~ overlap => Alone /\ Current /\ landed \subseteq scene

IInv == Forms /\ Landed /\ Undisturbed

-----------------------------------------------------------------------------
(* Initially nothing is under way. *)
LEMMA InitIInv == Init => IInv
  <1> SUFFICES ASSUME Init PROVE IInv
    OBVIOUS
  <1>1. \A o \in Overrides : req[o] = Idle /\ outbox[o] = NoRow
    BY DEF Init
  <1>2. \A d \in Drains : Job(d) = Idle
    BY DEF Init, Job
  <1>3. \A r \in Runs : run[r] = Idle
    BY DEF Init
  <1>4. Idle.pc = "idle" /\ NoRow.status = "absent"
    BY DEF Idle, Task, NoRow, Row
  <1>5. Forms
    BY <1>4, <1>1 DEF Init, Forms, Job, NoRow, Row
  <1>6. Landed
    BY <1>1, <1>2, <1>3, <1>4 DEF Landed
  <1>7. Undisturbed
    <2>1. landed \subseteq scene
      BY DEF Init
    <2>2. ~ Writing(Idle)
      BY <1>4 DEF Writing
    <2> QED BY <1>1, <1>2, <1>3, <2>1, <2>2 DEF Undisturbed, Alone, Current
  <1> QED BY <1>5, <1>6, <1>7 DEF IInv

-----------------------------------------------------------------------------
(* Steps of one task.  Such a step replaces the task of a request, a drain  *)
(* or a run by another one.                                                 *)

ReqStep(o, x) == req' = [req EXCEPT ![o] = x] /\ UNCHANGED <<drain, run>>
JobStep(d, x) ==
  /\ \E q : drain' = [drain EXCEPT ![d] = [task |-> x, queue |-> q]]
  /\ UNCHANGED <<req, run>>
RunsStep(r, x) == run' = [run EXCEPT ![r] = x] /\ UNCHANGED <<req, drain>>

\* The task x takes the place of the task old.
Moves(old, x) ==
  \/ \E o \in Overrides : ReqStep(o, x) /\ old = req[o]
  \/ \E d \in Drains : JobStep(d, x) /\ old = Job(d)
  \/ \E r \in Runs : RunsStep(r, x) /\ old = run[r]

\* A step that reads or writes no scene.
Quiet(old, x) ==
  /\ UNCHANGED files
  /\ ~ Writing(x)

\* A step that reads the scene, or reads and writes nothing.
Reads(x) ==
  /\ MayRead(x)
  /\ Writing(x) => x.content = scene

\* A step that writes the scene.
Puts(old, x) ==
  /\ Writing(old)
  /\ \E o : PutScene(o, old.content)
  /\ ~ Writing(x)

(* A step of one task keeps Undisturbed when it ends the task's writing, reads
   the scene as MayRead says, or puts what was read and merged. *)
LEMMA UndisturbedKept ==
  ASSUME Forms, Undisturbed, NEW old, NEW x, Moves(old, x),
         Quiet(old, x) \/ Reads(x) \/ Puts(old, x)
  PROVE  Undisturbed'
PROOF
  <1> SUFFICES ASSUME ~ overlap' PROVE (Alone /\ Current /\ landed \subseteq scene)'
    BY DEF Undisturbed
  <1>0. ~ overlap /\ Alone /\ Current /\ landed \subseteq scene
    <2>1. overlap' = overlap \/ (overlap' = (overlap \/ (Writing(x) /\ \E t \in Writers : Writing(t))))
      BY DEF Quiet, Reads, Puts, MayRead, PutScene, files
    <2>2. ~ overlap
      BY <2>1, Zenon
    <2> QED BY <2>2 DEF Undisturbed
  <1>1. ASSUME NEW o \in Overrides, ReqStep(o, x), old = req[o]
        PROVE  (Alone /\ Current /\ landed \subseteq scene)'
    <2>1. /\ req'[o] = x /\ \A p \in Overrides \ {o} : req'[p] = req[p]
          /\ \A d \in Drains : Job(d)' = Job(d)
          /\ \A r \in Runs : run'[r] = run[r]
      BY <1>1 DEF ReqStep, Forms, Job
    <2>2. CASE ~ Writing(x) /\ UNCHANGED <<scene, landed>>
      BY <1>0, <2>1, <2>2 DEF Alone, Current
    <2>3. CASE Puts(old, x)
      <3>1. \E p : scene' = scene \cup {p} /\ landed' = landed \cup {p}
        BY <1>0, <1>1, <2>3 DEF Puts, PutScene, Current
      <3>2. /\ \A p \in Overrides : ~ Writing(req'[p])
            /\ \A d \in Drains : ~ Writing(Job(d)')
            /\ \A r \in Runs : ~ Writing(run'[r])
        BY <1>0, <1>1, <2>1, <2>3 DEF Puts, Alone
      <3> QED BY <1>0, <3>1, <3>2 DEF Alone, Current
    <2>4. CASE Reads(x) /\ Writing(x)
      <3>1. \A t \in Writers : ~ Writing(t)
        BY <2>4 DEF Reads, MayRead
      <3>2. /\ \A p \in Overrides : ~ Writing(req[p])
            /\ \A d \in Drains : ~ Writing(Job(d))
            /\ \A r \in Runs : ~ Writing(run[r])
        BY <3>1 DEF Writers, Job
      <3>3. UNCHANGED <<scene, landed>> /\ x.content = scene
        BY <2>4 DEF Reads, MayRead
      <3> QED BY <1>0, <2>1, <3>2, <3>3 DEF Alone, Current
    <2> QED BY <2>2, <2>3, <2>4 DEF Quiet, Reads, MayRead, files
  <1>2. ASSUME NEW d \in Drains, JobStep(d, x), old = Job(d)
        PROVE  (Alone /\ Current /\ landed \subseteq scene)'
    <2>1. /\ Job(d)' = x /\ \A e \in Drains \ {d} : Job(e)' = Job(e)
          /\ \A o \in Overrides : req'[o] = req[o]
          /\ \A r \in Runs : run'[r] = run[r]
      BY <1>2 DEF JobStep, Forms, Job
    <2>2. CASE ~ Writing(x) /\ UNCHANGED <<scene, landed>>
      BY <1>0, <2>1, <2>2 DEF Alone, Current
    <2>3. CASE Puts(old, x)
      <3>1. \E p : scene' = scene \cup {p} /\ landed' = landed \cup {p}
        BY <1>0, <1>2, <2>3 DEF Puts, PutScene, Current
      <3>2. /\ \A p \in Overrides : ~ Writing(req'[p])
            /\ \A e \in Drains : ~ Writing(Job(e)')
            /\ \A r \in Runs : ~ Writing(run'[r])
        BY <1>0, <1>2, <2>1, <2>3 DEF Puts, Alone
      <3> QED BY <1>0, <3>1, <3>2 DEF Alone, Current
    <2>4. CASE Reads(x) /\ Writing(x)
      <3>1. \A t \in Writers : ~ Writing(t)
        BY <2>4 DEF Reads, MayRead
      <3>2. /\ \A p \in Overrides : ~ Writing(req[p])
            /\ \A e \in Drains : ~ Writing(Job(e))
            /\ \A r \in Runs : ~ Writing(run[r])
        BY <3>1 DEF Writers, Job
      <3>3. UNCHANGED <<scene, landed>> /\ x.content = scene
        BY <2>4 DEF Reads, MayRead
      <3> QED BY <1>0, <2>1, <3>2, <3>3 DEF Alone, Current
    <2> QED BY <2>2, <2>3, <2>4 DEF Quiet, Reads, MayRead, files
  <1>3. ASSUME NEW r \in Runs, RunsStep(r, x), old = run[r]
        PROVE  (Alone /\ Current /\ landed \subseteq scene)'
    <2>1. /\ run'[r] = x /\ \A s \in Runs \ {r} : run'[s] = run[s]
          /\ \A o \in Overrides : req'[o] = req[o]
          /\ \A d \in Drains : Job(d)' = Job(d)
      BY <1>3 DEF RunsStep, Forms, Job
    <2>2. CASE ~ Writing(x) /\ UNCHANGED <<scene, landed>>
      BY <1>0, <2>1, <2>2 DEF Alone, Current
    <2>3. CASE Puts(old, x)
      <3>1. \E p : scene' = scene \cup {p} /\ landed' = landed \cup {p}
        BY <1>0, <1>3, <2>3 DEF Puts, PutScene, Current
      <3>2. /\ \A p \in Overrides : ~ Writing(req'[p])
            /\ \A d \in Drains : ~ Writing(Job(d)')
            /\ \A s \in Runs : ~ Writing(run'[s])
        BY <1>0, <1>3, <2>1, <2>3 DEF Puts, Alone
      <3> QED BY <1>0, <3>1, <3>2 DEF Alone, Current
    <2>4. CASE Reads(x) /\ Writing(x)
      <3>1. \A t \in Writers : ~ Writing(t)
        BY <2>4 DEF Reads, MayRead
      <3>2. /\ \A p \in Overrides : ~ Writing(req[p])
            /\ \A d \in Drains : ~ Writing(Job(d))
            /\ \A s \in Runs : ~ Writing(run[s])
        BY <3>1 DEF Writers, Job
      <3>3. UNCHANGED <<scene, landed>> /\ x.content = scene
        BY <2>4 DEF Reads, MayRead
      <3> QED BY <1>0, <2>1, <3>2, <3>3 DEF Alone, Current
    <2> QED BY <2>2, <2>3, <2>4 DEF Quiet, Reads, MayRead, files
  <1> QED BY <1>1, <1>2, <1>3 DEF Moves

-----------------------------------------------------------------------------
\* At most one row of the outbox changes, and it is not said to be applied
\* unless it was.
OutboxStep ==
  \/ UNCHANGED outbox
  \/ \E o, s, b : /\ outbox' = [outbox EXCEPT ![o] = Row(s, b)]
                  /\ o \in Overrides /\ s = "applied" => o \in landed

LEMMA RowWritten ==
  ASSUME NEW o, NEW s, NEW b, outbox' = [outbox EXCEPT ![o] = Row(s, b)],
         o \in Overrides /\ s = "applied" => o \in landed
  PROVE  OutboxStep
  BY Zenon DEF OutboxStep

(* What is common to all steps of a task. *)
LEMMA StepKept ==
  ASSUME IInv, NEW old, NEW x, Moves(old, x),
         Quiet(old, x) \/ Reads(x) \/ Puts(old, x), OutboxStep, UNCHANGED mode,
         x.pc \in {"applied", "report"} => x.of \in landed'
  PROVE  IInv'
PROOF
  <1>0. Forms /\ Landed /\ Undisturbed
    BY DEF IInv
  <1>1. landed \subseteq landed'
    BY DEF Quiet, Reads, Puts, MayRead, PutScene, files
  <1>2. Undisturbed'
    BY <1>0, UndisturbedKept
  <1>3. \A o \in Overrides : outbox'[o].status = "applied" => o \in landed
    BY <1>0 DEF OutboxStep, Forms, Landed, Row
  <1>4. outbox' = [o \in Overrides |-> Row(outbox'[o].status, outbox'[o].dispatched)]
    BY <1>0 DEF OutboxStep, Forms, Row
  <1>5. ASSUME NEW o \in Overrides, ReqStep(o, x)
        PROVE  Forms' /\ Landed'
    <2>1. Forms'
      BY <1>0, <1>4, <1>5 DEF ReqStep, Forms, Job
    <2>2. Landed'
      BY <1>0, <1>1, <1>3, <1>5 DEF ReqStep, Landed, Job
    <2> QED BY <2>1, <2>2
  <1>6. ASSUME NEW d \in Drains, JobStep(d, x)
        PROVE  Forms' /\ Landed'
    <2>1. PICK q : drain' = [drain EXCEPT ![d] = [task |-> x, queue |-> q]]
      BY <1>6 DEF JobStep
    <2>2. UNCHANGED <<req, run>>
      BY <1>6 DEF JobStep
    <2>3. /\ drain'[d] = [task |-> x, queue |-> q]
          /\ \A e \in Drains \ {d} : drain'[e] = drain[e]
          /\ DOMAIN drain' = Drains
      BY <1>0, <2>1 DEF Forms
    <2>4. \A e \in Drains : drain'[e] = [task |-> drain'[e].task, queue |-> drain'[e].queue]
      BY <1>0, <2>3 DEF Forms, Job
    <2>5. Forms'
      BY <1>0, <1>4, <2>1, <2>2, <2>4 DEF Forms, Job
    <2>6. Landed'
      BY <1>0, <1>1, <1>3, <2>2, <2>3 DEF Landed, Job
    <2> QED BY <2>5, <2>6
  <1>7. ASSUME NEW r \in Runs, RunsStep(r, x)
        PROVE  Forms' /\ Landed'
    <2>1. Forms'
      BY <1>0, <1>4, <1>7 DEF RunsStep, Forms, Job
    <2>2. Landed'
      BY <1>0, <1>1, <1>3, <1>7 DEF RunsStep, Forms, Landed, Job
    <2> QED BY <2>1, <2>2
  <1>8. Forms' /\ Landed'
    BY <1>5, <1>6, <1>7 DEF Moves
  <1> QED BY <1>2, <1>8 DEF IInv

(* The two ways a drain changes its task. *)
LEMMA DrainTask ==
  ASSUME Forms, UNCHANGED <<req, run>>, NEW d \in Drains, NEW x,
         drain' = [drain EXCEPT ![d].task = x]
  PROVE  Moves(Job(d), x)
PROOF
  <1>1. /\ drain[d] = [task |-> Job(d), queue |-> drain[d].queue]
        /\ drain = [e \in Drains |-> drain[e]]
    BY DEF Forms
  <1>2. [drain[d] EXCEPT !.task = x] = [task |-> x, queue |-> drain[d].queue]
    BY <1>1
  <1>3. drain' = [drain EXCEPT ![d] = [task |-> x, queue |-> drain[d].queue]]
    BY <1>2
  <1> QED BY <1>3 DEF Moves, JobStep

LEMMA DrainToMoves ==
  ASSUME Forms, UNCHANGED <<req, run>>, NEW d \in Drains, NEW pc, NEW content,
         DrainTo(d, pc, content)
  PROVE  Moves(Job(d), Task(pc, Job(d).of, content))
  BY DrainTask DEF DrainTo, Job

LEMMA RowDoneMoves ==
  ASSUME Forms, UNCHANGED <<req, run>>, NEW d \in Drains, RowDone(d)
  PROVE  Moves(Job(d), Task("next", NoOne, NoScene))
  BY DrainTask DEF RowDone

-----------------------------------------------------------------------------
(* The actions. *)
LEMMA RequestKeeps ==
  ASSUME IInv, NEW o \in Overrides, Request(o)
  PROVE  IInv'
PROOF
  <1>0. Forms /\ Landed
    BY DEF IInv
  <1> USE DEF Task
  <1>1. ASSUME NEW pc, NEW content, ReqTo(o, pc, content), UNCHANGED <<drain, run>>
        PROVE  /\ Moves(req[o], Task(pc, NoOne, content))
               /\ req'[o] = Task(pc, NoOne, content)
    BY <1>0, <1>1 DEF ReqTo, Moves, ReqStep, Forms
  <1>2. ASSUME NEW admin \in BOOLEAN, Submit(o, admin)
        PROVE  IInv'
    <2>1. PICK pc, content :
            /\ pc \in {"refused", "merge", "local_fs", "outbox", "registry_only"}
            /\ ReqTo(o, pc, content) /\ (pc = "merge" => content = scene)
      <3>1. CASE IntroducesScript(o) /\ ~ admin
        BY <1>2, <3>1 DEF Submit
      <3>2. CASE ~ (IntroducesScript(o) /\ ~ admin) /\ mode = "local_fs" /\ mounted /\ o \notin plain
        BY <1>2, <3>2 DEF Submit
      <3>3. CASE ~ (IntroducesScript(o) /\ ~ admin) /\ mode = "local_fs" /\ mounted /\ o \in plain
        BY <1>2, <3>3 DEF Submit
      <3>4. CASE ~ (IntroducesScript(o) /\ ~ admin) /\ mode = "local_fs" /\ ~ mounted
        BY <1>2, <3>4 DEF Submit
      <3>5. CASE ~ (IntroducesScript(o) /\ ~ admin) /\ mode # "local_fs"
        BY <1>0, <1>2, <3>5 DEF Submit, Forms
      <3> QED BY <3>1, <3>2, <3>3, <3>4, <3>5
    <2> DEFINE x == Task(pc, NoOne, content)
    <2>2. Moves(req[o], x) /\ req'[o] = x
      BY <1>1, <1>2, <2>1 DEF Submit
    <2>3. MayRead(x) /\ UNCHANGED <<outbox, mode>>
      BY <1>2, <2>2 DEF Submit, tables, env
    <2>4. Reads(x)
      BY <2>1, <2>3 DEF Reads, Writing
    <2>5. x.pc \notin {"applied", "report"}
      BY <2>1
    <2> QED BY <2>2, <2>3, <2>4, <2>5, StepKept DEF OutboxStep
  <1>3. CASE RequestMerge(o)
    <2> DEFINE x == Task("local_fs", NoOne, NoScene)
    <2>1. Moves(req[o], x)
      BY <1>1, <1>3 DEF RequestMerge
    <2>2. Puts(req[o], x)
      <3>1. Writing(req[o]) /\ ~ Writing(x)
        BY <1>3 DEF RequestMerge, Writing
      <3>2. PutScene(o, req[o].content)
        BY <1>3 DEF RequestMerge
      <3> QED BY <3>1, <3>2 DEF Puts, PutScene
    <2> QED BY <1>3, <2>1, <2>2, StepKept DEF RequestMerge, tables, env, OutboxStep
  <1>4. ASSUME RequestMergeFails(o) \/ RequestInsert(o) \/ RequestQueue(o) \/ RequestCrash(o)
        PROVE  IInv'
    <2>1. PICK pc \in {"refused", "outbox", "queue", "done"} : ReqTo(o, pc, NoScene)
      BY <1>4 DEF RequestMergeFails, RequestInsert, RequestQueue, RequestCrash
    <2> DEFINE x == Task(pc, NoOne, NoScene)
    <2>2. Moves(req[o], x)
      BY <1>1, <1>4, <2>1 DEF RequestMergeFails, RequestInsert, RequestQueue, RequestCrash
    <2>3. Quiet(req[o], x)
      BY <1>4, <2>1 DEF RequestMergeFails, RequestInsert, RequestQueue, RequestCrash, Quiet, Writing
    <2>4. OutboxStep /\ UNCHANGED mode
      <3>1. CASE RequestQueue(o)
        <4>1. outbox' = [outbox EXCEPT ![o] = Row("pending", FALSE)] /\ UNCHANGED mode
          BY <3>1 DEF RequestQueue, env
        <4>2. "pending" # "applied"
          OBVIOUS
        <4> QED BY <4>1, <4>2, RowWritten
      <3>2. CASE ~ RequestQueue(o)
        BY <1>4, <3>2 DEF RequestMergeFails, RequestInsert, RequestCrash, tables, env, OutboxStep
      <3> QED BY <3>1, <3>2
    <2>5. x.pc \notin {"applied", "report"}
      BY <2>1
    <2> QED BY <2>2, <2>3, <2>4, <2>5, StepKept
  <1> QED BY <1>2, <1>3, <1>4 DEF Request

(* The dispatch of a workflow changes two tasks, a drain's and a run's, of
   which neither is writing before or after. *)
LEMMA DispatchKeeps ==
  ASSUME IInv, NEW d \in Drains, DispatchMergeApply(d)
  PROVE  IInv'
PROOF
  <1>0. Forms /\ Landed /\ Undisturbed
    BY DEF IInv
  <1>1. PICK r \in Runs : run[r].pc = "idle" /\ run' = [run EXCEPT ![r] = CreateDirectDispatchJwe(Job(d).of)]
    BY DEF DispatchMergeApply, DispatchWorkflowFile, Job
  <1>2. PICK pc \in {"stamp", "fail"} : drain' = [drain EXCEPT ![d].task = Task(pc, @.of, NoScene)]
    BY DEF DispatchMergeApply, DrainTo
  <1> DEFINE x == Task(pc, Job(d).of, NoScene)
             y == CreateDirectDispatchJwe(Job(d).of)
  <1>3. drain[d] = [task |-> Job(d), queue |-> drain[d].queue] /\ drain = [e \in Drains |-> drain[e]]
    BY <1>0 DEF Forms
  <1>4. drain' = [drain EXCEPT ![d].task = x]
    BY <1>2 DEF Job
  <1>5. x.pc = pc /\ ~ Writing(x) /\ y.pc = "queued" /\ ~ Writing(y)
    BY DEF Task, CreateDirectDispatchJwe, Writing
  <1> HIDE DEF x, y
  <1>6. drain' = [drain EXCEPT ![d] = [task |-> x, queue |-> drain[d].queue]]
    <2>1. [drain[d] EXCEPT !.task = x] = [task |-> x, queue |-> drain[d].queue]
      BY <1>3
    <2> QED BY <1>4, <2>1
  <1>7. /\ Job(d)' = x /\ drain'[d] = [task |-> x, queue |-> drain[d].queue]
        /\ \A e \in Drains \ {d} : drain'[e] = drain[e] /\ Job(e)' = Job(e)
        /\ DOMAIN drain' = Drains
    BY <1>3, <1>6 DEF Job
  <1>8. run'[r] = y /\ (\A s \in Runs \ {r} : run'[s] = run[s]) /\ run' = [s \in Runs |-> run'[s]]
    BY <1>0, <1>1 DEF Forms, y
  <1>9. UNCHANGED <<req, outbox, scene, landed, overlap, mode>>
    BY DEF DispatchMergeApply, files, tables, env
  <1>10. Forms'
    <2>1. \A e \in Drains : drain'[e] = [task |-> Job(e)', queue |-> drain'[e].queue]
      BY <1>0, <1>7 DEF Forms, Job
    <2>2. drain' = [e \in Drains |-> [task |-> Job(e)', queue |-> drain'[e].queue]]
      BY <1>6, <1>7, <2>1
    <2> QED BY <1>0, <1>8, <1>9, <2>2 DEF Forms
  <1>11. Landed'
    BY <1>0, <1>5, <1>7, <1>8, <1>9 DEF Landed
  <1>12. Undisturbed'
    BY <1>0, <1>5, <1>7, <1>8, <1>9 DEF Undisturbed, Alone, Current
  <1> QED BY <1>10, <1>11, <1>12 DEF IInv

LEMMA DrainKeeps ==
  ASSUME IInv, NEW d \in Drains, DrainStep(d) \/ DrainHangs(d) \/ DrainCrash(d)
  PROVE  IInv'
PROOF
  <1>0. Forms /\ Landed
    BY DEF IInv
  <1> DEFINE of == Job(d).of
  <1>i. UNCHANGED <<mode, req>>
    BY DEF DrainStep, DrainCrash, ListPending, TakeRow, DrainMerge, MarkApplied, MarkHash,
           SealDispatch, DispatchMergeApply, MarkDispatched, RowThrows, MarkFailed, SendAlert,
           DrainHangs, env
  <1>1. CASE ListPending(d) \/ DrainCrash(d)
    <2>1. PICK x \in {Idle, Task("next", NoOne, NoScene)} : JobStep(d, x)
      BY <1>0, <1>1 DEF ListPending, DrainCrash, JobStep, Forms
    <2>2. Quiet(Job(d), x) /\ OutboxStep /\ x.pc \notin {"applied", "report"}
      BY <1>1, <2>1 DEF ListPending, DrainCrash, Quiet, tables, OutboxStep, Idle, Task, Writing
    <2>3. Moves(Job(d), x)
      BY <2>1 DEF Moves
    <2> QED BY <1>i, <2>2, <2>3, StepKept
  <1>2. CASE TakeRow(d)
    <2>1. PICK x : /\ JobStep(d, x)
                   /\ x.pc \notin {"applied", "report"}
                   /\ Writing(x) => x.content = scene
      <3>0. drain[d] = [task |-> Job(d), queue |-> drain[d].queue] /\ drain = [e \in Drains |-> drain[e]]
        BY <1>0 DEF Forms
      <3>1. CASE drain[d].queue = <<>>
        <4>1. drain' = [drain EXCEPT ![d].task = Idle]
          BY <1>2, <3>1 DEF TakeRow
        <4>2. JobStep(d, Idle)
          <5>1. [drain[d] EXCEPT !.task = Idle] = [task |-> Idle, queue |-> drain[d].queue]
            BY <3>0
          <5>2. drain' = [drain EXCEPT ![d] = [task |-> Idle, queue |-> drain[d].queue]]
            BY <4>1, <5>1
          <5> QED BY <1>2, <5>2 DEF JobStep, TakeRow
        <4>3. Idle.pc = "idle" /\ ~ Writing(Idle)
          BY DEF Idle, Task, Writing
        <4> QED BY <4>2, <4>3
      <3>2. CASE drain[d].queue # <<>>
        <4> DEFINE o == Head(drain[d].queue)
                   y == CASE o \in plain -> Task("fail", o, NoScene)
                          [] o \notin plain /\ mounted -> Task("merge", o, scene)
                          [] OTHER -> Task("dispatch", o, NoScene)
                   rest == Tail(drain[d].queue)
        <4>1. drain' = [drain EXCEPT ![d] = [task |-> y, queue |-> rest]]
          BY <1>2, <3>2 DEF TakeRow
        <4>2. y.pc \in {"fail", "merge", "dispatch"} /\ (y.pc = "merge" => y.content = scene)
          BY DEF Task
        <4> HIDE DEF y, rest
        <4>3. JobStep(d, y)
          BY <1>2, <4>1 DEF JobStep, TakeRow
        <4> QED BY <4>2, <4>3 DEF Writing
      <3> QED BY <3>1, <3>2
    <2>2. drain'[d].task = x
      BY <1>0, <2>1 DEF JobStep, Forms
    <2>3. Reads(x) /\ OutboxStep
      BY <1>2, <2>1, <2>2 DEF TakeRow, Reads, OutboxStep, tables
    <2>4. Moves(Job(d), x)
      BY <2>1 DEF Moves
    <2> QED BY <1>i, <2>1, <2>3, <2>4, StepKept
  <1>3. CASE DrainMerge(d)
    <2> DEFINE x == Task("applied", of, NoScene)
    <2>1. Moves(Job(d), x)
      BY <1>0, <1>3, DrainToMoves DEF DrainMerge
    <2>2. Puts(Job(d), x) /\ of \in landed'
      BY <1>3 DEF DrainMerge, Job, Puts, PutScene, Writing, Task
    <2>3. x.of = of
      BY DEF Task
    <2>4. OutboxStep
      BY <1>3 DEF DrainMerge, tables, OutboxStep
    <2> QED BY <1>i, <2>1, <2>2, <2>3, <2>4, StepKept
  <1>4. CASE MarkApplied(d)
    <2> DEFINE x == Task("hash", of, NoScene)
    <2>1. Moves(Job(d), x)
      BY <1>0, <1>4, DrainToMoves DEF MarkApplied
    <2>2. Quiet(Job(d), x) /\ x.pc = "hash"
      BY <1>4 DEF MarkApplied, Quiet, Writing, Task
    <2>3. of \in landed
      BY <1>0, <1>4 DEF MarkApplied, Landed, Job
    <2>4. OutboxStep
      BY <1>4, <2>3, RowWritten DEF MarkApplied, Job
    <2> QED BY <1>i, <2>1, <2>2, <2>4, StepKept
  <1>5. CASE MarkHash(d)
    <2> DEFINE x == Task("next", NoOne, NoScene)
    <2>1. Moves(Job(d), x)
      BY <1>0, <1>5, RowDoneMoves DEF MarkHash
    <2>2. Quiet(Job(d), x) /\ x.pc = "next" /\ OutboxStep
      BY <1>5 DEF MarkHash, Quiet, Writing, Task, OutboxStep
    <2> QED BY <1>i, <2>1, <2>2, StepKept
  <1>6. CASE SealDispatch(d)
    <2> DEFINE x == Task("sealed", of, NoScene)
    <2>1. Moves(Job(d), x)
      BY <1>0, <1>6, DrainToMoves DEF SealDispatch
    <2>2. Quiet(Job(d), x) /\ x.pc = "sealed" /\ OutboxStep
      BY <1>6 DEF SealDispatch, Quiet, Writing, Task, OutboxStep, tables
    <2> QED BY <1>i, <2>1, <2>2, StepKept
  <1>7. CASE DispatchMergeApply(d)
    BY <1>7, DispatchKeeps
  <1>8. CASE MarkDispatched(d)
    <2> DEFINE x == Task("next", NoOne, NoScene)
    <2>1. Moves(Job(d), x)
      BY <1>0, <1>8, RowDoneMoves DEF MarkDispatched
    <2>2. Quiet(Job(d), x) /\ x.pc = "next"
      BY <1>8 DEF MarkDispatched, Quiet, Writing, Task
    <2>3. CASE UNCHANGED outbox
      BY <1>i, <2>1, <2>2, <2>3, StepKept DEF OutboxStep
    <2>4. CASE outbox' = [outbox EXCEPT ![of] = Row(outbox[of].status, TRUE)]
      <3>1. of \in Overrides /\ outbox[of].status = "applied" => of \in landed
        BY <1>0 DEF Landed
      <3> QED BY <1>i, <2>1, <2>2, <2>4, <3>1, RowWritten, StepKept
    <2> QED BY <1>8, <2>3, <2>4 DEF MarkDispatched, Job
  <1>9. CASE RowThrows(d)
    <2> DEFINE x == Task("fail", of, NoScene)
    <2>1. Moves(Job(d), x)
      BY <1>0, <1>9, DrainToMoves DEF RowThrows
    <2>2. Quiet(Job(d), x) /\ x.pc = "fail" /\ OutboxStep
      BY <1>9 DEF RowThrows, Quiet, Writing, Task, OutboxStep, tables
    <2> QED BY <1>i, <2>1, <2>2, StepKept
  <1>10. CASE MarkFailed(d)
    <2> DEFINE x == Task("alert", of, NoScene)
    <2>1. Moves(Job(d), x)
      BY <1>0, <1>10, DrainToMoves DEF MarkFailed
    <2>2. Quiet(Job(d), x) /\ x.pc = "alert" /\ "failed" # "applied"
      BY <1>10 DEF MarkFailed, Quiet, Writing, Task
    <2>3. OutboxStep
      BY <1>10, <2>2, RowWritten DEF MarkFailed
    <2> QED BY <1>i, <2>1, <2>2, <2>3, StepKept
  <1>11. CASE SendAlert(d)
    <2> DEFINE x == Task("next", NoOne, NoScene)
    <2>1. Moves(Job(d), x)
      BY <1>0, <1>11, RowDoneMoves DEF SendAlert
    <2>2. Quiet(Job(d), x) /\ x.pc = "next" /\ OutboxStep
      BY <1>11 DEF SendAlert, Quiet, Writing, Task, OutboxStep, tables
    <2> QED BY <1>i, <2>1, <2>2, StepKept
  <1>12. CASE DrainHangs(d)
    <2> DEFINE x == Task("hung", of, NoScene)
    <2>1. Moves(Job(d), x)
      BY <1>0, <1>12, DrainToMoves DEF DrainHangs
    <2>2. Quiet(Job(d), x) /\ x.pc = "hung" /\ OutboxStep
      BY <1>12 DEF DrainHangs, Quiet, Writing, Task, OutboxStep, tables
    <2> QED BY <1>i, <2>1, <2>2, StepKept
  <1> QED
    BY <1>1, <1>2, <1>3, <1>4, <1>5, <1>6, <1>7, <1>8, <1>9, <1>10, <1>11, <1>12 DEF DrainStep

LEMMA RunTask ==
  ASSUME Forms, UNCHANGED <<req, drain>>, NEW r \in Runs, NEW x,
         run' = [run EXCEPT ![r] = x]
  PROVE  Moves(run[r], x)
  BY DEF Moves, RunsStep

LEMMA RunToMoves ==
  ASSUME Forms, UNCHANGED <<req, drain>>, NEW r \in Runs, NEW pc, NEW content,
         RunTo(r, pc, content)
  PROVE  Moves(run[r], Task(pc, run[r].of, content))
  BY RunTask DEF RunTo

LEMMA RunEndsMoves ==
  ASSUME Forms, UNCHANGED <<req, drain>>, NEW r \in Runs, RunEnds(r)
  PROVE  Moves(run[r], Idle)
  BY RunTask DEF RunEnds

LEMMA RunKeeps ==
  ASSUME IInv, NEW r \in Runs, RunStep(r) \/ RunDies(r)
  PROVE  IInv'
PROOF
  <1>0. Forms /\ Landed
    BY DEF IInv
  <1> DEFINE of == run[r].of
  <1>i. UNCHANGED <<mode, req, drain>>
    BY DEF RunStep, RunRead, ApplyLocal, HandleMergeApply, Complete, CompleteHash, RunDies, env
  <1>1. ASSUME NEW colocated \in BOOLEAN, RunRead(r, colocated)
        PROVE  IInv'
    <2>1. PICK x \in {Idle, Task("local", of, scene), Task("agent", of, scene)} :
            run' = [run EXCEPT ![r] = x]
      BY <1>1 DEF RunRead, RunTo, RunEnds
    <2>2. Moves(run[r], x) /\ run'[r] = x
      BY <1>0, <1>i, <2>1, RunTask DEF Forms
    <2>3. x.pc \in {"idle", "local", "agent"} /\ (Writing(x) => x.content = scene)
      BY <2>1 DEF Idle, Task, Writing
    <2>4. Reads(x) /\ OutboxStep
      BY <1>1, <2>2, <2>3 DEF RunRead, Reads, OutboxStep, tables
    <2> QED BY <1>i, <2>2, <2>3, <2>4, StepKept
  <1>2. CASE ApplyLocal(r) \/ HandleMergeApply(r)
    <2> DEFINE x == Task("report", of, NoScene)
    <2>1. Moves(run[r], x)
      BY <1>0, <1>i, <1>2, RunToMoves DEF ApplyLocal, HandleMergeApply
    <2>2. Puts(run[r], x) /\ of \in landed'
      BY <1>2 DEF ApplyLocal, HandleMergeApply, Puts, PutScene, Writing, Task
    <2>3. x.of = of
      BY DEF Task
    <2>4. OutboxStep
      BY <1>2 DEF ApplyLocal, HandleMergeApply, tables, OutboxStep
    <2> QED BY <1>i, <2>1, <2>2, <2>3, <2>4, StepKept
  <1>3. CASE Complete(r)
    <2> DEFINE x == Task("hash", of, NoScene)
    <2>1. Moves(run[r], x)
      BY <1>0, <1>i, <1>3, RunToMoves DEF Complete
    <2>2. Quiet(run[r], x) /\ x.pc = "hash"
      BY <1>3 DEF Complete, Quiet, Writing, Task
    <2>3. of \in landed
      BY <1>0, <1>3 DEF Complete, Landed
    <2>4. OutboxStep
      BY <1>3, <2>3, RowWritten DEF Complete
    <2> QED BY <1>i, <2>1, <2>2, <2>4, StepKept
  <1>4. CASE CompleteHash(r) \/ RunDies(r)
    <2>1. Moves(run[r], Idle)
      BY <1>0, <1>i, <1>4, RunEndsMoves DEF CompleteHash, RunDies
    <2>2. Quiet(run[r], Idle) /\ Idle.pc = "idle" /\ OutboxStep
      BY <1>4 DEF CompleteHash, RunDies, Quiet, Writing, Idle, Task, OutboxStep, tables
    <2> QED BY <1>i, <2>1, <2>2, StepKept
  <1> QED BY <1>1, <1>2, <1>3, <1>4 DEF RunStep

LEMMA NextIInv == IInv /\ [Next]_vars => IInv'
  <1> SUFFICES ASSUME IInv, [Next]_vars PROVE IInv'
    OBVIOUS
  <1>1. CASE UNCHANGED vars
    BY <1>1 DEF IInv, vars, env, files, tables, Forms, Landed, Undisturbed, Alone, Current, Job
  <1> QED BY <1>1, RequestKeeps, DrainKeeps, RunKeeps DEF Next

(* The inductive invariant: whoever is about to say that an override was
   applied has seen it written, and until two writers overlap what a writer has
   read is still the file. *)
THEOREM InductiveInvariant == Spec => []IInv
  BY InitIInv, NextIInv, PTL DEF Spec

-----------------------------------------------------------------------------
(* A row says "applied" only when a merge of its override was written to the
   scene file (MergeOutbox!AppliedHasLanded): for any number of drains and runs
   that process it, however often, and whichever of them or of their messages
   is lost, markApplied and /complete come after the rename. *)
THEOREM AppliedHasLandedThm == Spec => []AppliedHasLanded
  <1>1. IInv => AppliedHasLanded
    BY DEF IInv, Landed, AppliedHasLanded
  <1> QED BY <1>1, InductiveInvariant, PTL

(* A merge is lost only when two read-merge-rename of the file overlapped
   (MergeOutbox!LostOnlyByOverlap), for any number of requests, drains and
   runs: processMergeOutbox, submitMerge and merge-apply lock nothing, and
   nothing but that can lose a merge. *)
THEOREM LostOnlyByOverlapThm == Spec => []LostOnlyByOverlap
  <1>1. IInv => LostOnlyByOverlap
    BY DEF IInv, Undisturbed, LostOnlyByOverlap
  <1> QED BY <1>1, InductiveInvariant, PTL

=============================================================================
