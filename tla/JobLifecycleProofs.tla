------------------------- MODULE JobLifecycleProofs -------------------------
(***************************************************************************)
(* Theorems about JobLifecycle, from the invariants of JobInvariants.      *)
(*                                                                         *)
(* The first part is about jobs until a lock expires, something is         *)
(* scanned, reclaimed or retried, a callback reads a job that has been     *)
(* dispatched again, or two promotions overlap (Calm).  The second part    *)
(* says what has which type, whatever happens.                             *)
(***************************************************************************)
EXTENDS JobInvariants, TLAPS, SequenceTheorems

-----------------------------------------------------------------------------
(* What a step may do *)

Same(i) ==
    /\ job'[i].status = job[i].status /\ job'[i].attempt = job[i].attempt
    /\ job'[i].dep = job[i].dep /\ job'[i].cb = job[i].cb

(* A step of request t that concerns job j. *)
Local(t, j) ==
    /\ \A u \in Threads \ {t} : stack'[u] = stack[u] /\ answer'[u] = answer[u]
    /\ \A i \in Jobs \ {j} : Same(i)
    /\ Drives(t, j) \/ (Same(j) /\ lk' = lk /\ queuedIds' = queuedIds)
    /\ job[j].status = "COMPLETED" => job'[j].status = "COMPLETED"
    /\ job[j].status = "BLOCKED" => job'[j].status = "BLOCKED" \/ Promoting(t)
    /\ \/ job'[j].cb = job[j].cb
       \/ /\ job'[j].cb = mints + 1 /\ mints' = mints + 1
          /\ \A u \in Threads : ~ (Serves(u) # 0 /\ At(u, "update") /\ Top(u).j = j)
    /\ mints' \in {mints, mints + 1}
    /\ Early(t) \/ job'[j].status = job[j].status \/ job'[j].status \in BeforeWork
    /\ \A l \in Locks, i \in Jobs \ {j} : lk[l].owner = i => lk'[l].owner = i
    /\ \A n \in Mints : \/ run'[n] = run[n]
                        \/ n = answer[t].n
                        \/ At(t, "workflow") /\ Top(t).n = n
    /\ \A id \in queuedIds \cup queuedIds' : id[1] # j =>
          /\ id \in queuedIds <=> id \in queuedIds'
          /\ id \in pending <=> id \in pending'
    /\ answer'[t].n \in {0, answer[t].n} \/ ~ Waiting(answer'[t].n)
    /\ \A i \in Jobs : Drives(t, i) \/ Drives(t, i)' => i = j
    /\ Drives(t, j)' => Drives(t, j) \/ \A u \in Threads : ~ Drives(u, j)
    /\ Promoting(t)' => Promoting(t) \/ \A u \in Threads : ~ Promoting(u)

-----------------------------------------------------------------------------
(* Sequences and frames *)

LEMMA Tuples ==
    /\ \A x : Head(<<x>>) = x /\ Tail(<<x>>) = <<>> /\ <<x>> # <<>> /\ Len(<<x>>) = 1
    /\ \A x, y : /\ Head(<<x, y>>) = x /\ Tail(<<x, y>>) = <<y>> /\ <<x, y>> # <<>>
                 /\ Len(<<x, y>>) = 2 /\ <<x, y>>[2] = y
    /\ \A x, y, z : /\ Head(<<x, y, z>>) = x /\ Tail(<<x, y, z>>) = <<y, z>>
                    /\ <<x, y, z>> # <<>> /\ Len(<<x, y, z>>) = 3 /\ <<x, y, z>>[3] = z
<1>1. \A x : Head(<<x>>) = x /\ Tail(<<x>>) = <<>> /\ <<x>> # <<>> /\ Len(<<x>>) = 1
  OBVIOUS
<1>2. \A x, y : /\ Head(<<x, y>>) = x /\ Tail(<<x, y>>) = <<y>> /\ <<x, y>> # <<>>
                /\ Len(<<x, y>>) = 2 /\ <<x, y>>[2] = y
  OBVIOUS
<1>3. \A x, y, z : /\ Head(<<x, y, z>>) = x /\ Tail(<<x, y, z>>) = <<y, z>>
                   /\ <<x, y, z>> # <<>> /\ Len(<<x, y, z>>) = 3 /\ <<x, y, z>>[3] = z
  OBVIOUS
<1>4. QED  BY <1>1, <1>2, <1>3

LEMMA Joins ==
    /\ <<>> \o <<>> = <<>>
    /\ \A x : <<x>> \o <<>> = <<x>> /\ <<>> \o <<x>> = <<x>>
    /\ \A x, y : <<x, y>> \o <<>> = <<x, y>> /\ <<>> \o <<x, y>> = <<x, y>>
    /\ \A x, y, z : <<x, y, z>> \o <<>> = <<x, y, z>>
<1>1. <<>> \o <<>> = <<>>
  OBVIOUS
<1>2. \A x : <<x>> \o <<>> = <<x>> /\ <<>> \o <<x>> = <<x>>
  OBVIOUS
<1>3. \A x, y : <<x, y>> \o <<>> = <<x, y>> /\ <<>> \o <<x, y>> = <<x, y>>
  OBVIOUS
<1>4. \A x, y, z : <<x, y, z>> \o <<>> = <<x, y, z>>
  OBVIOUS
<1>5. QED  BY <1>1, <1>2, <1>3, <1>4

LEMMA Frames ==
    ASSUME NEW j \in Jobs
    PROVE  /\ \A op \in CalmOps :
                /\ Call(op, j) \in FrameType
                /\ Call(op, j).op = op /\ Call(op, j).j = j /\ Call(op, j).w = {}
                /\ Call(op, j).n = 0
           /\ \A s \in Statuses :
                /\ Update(j, s) \in FrameType
                /\ Update(j, s).op = "update" /\ Update(j, s).j = j /\ Update(j, s).s = s
                /\ Update(j, s).k = 0 /\ Update(j, s).w = {}
           /\ \A l \in Locks :
                /\ Release(l, j) \in FrameType
                /\ Release(l, j).op = "release" /\ Release(l, j).j = j /\ Release(l, j).l = l
                /\ Release(l, j).w = {}
<1>1. \A op \in CalmOps :
         /\ Call(op, j) \in FrameType
         /\ Call(op, j).op = op /\ Call(op, j).j = j /\ Call(op, j).w = {}
         /\ Call(op, j).n = 0
  BY DEF Call, NoFrame, FrameType, Statuses, JobOrNone, Locks
<1>2. \A s \in Statuses :
         /\ Update(j, s) \in FrameType
         /\ Update(j, s).op = "update" /\ Update(j, s).j = j /\ Update(j, s).s = s
         /\ Update(j, s).k = 0 /\ Update(j, s).w = {}
  BY DEF Update, NoFrame, FrameType, CalmOps, JobOrNone, Locks
<1>3. \A l \in Locks :
         /\ Release(l, j) \in FrameType
         /\ Release(l, j).op = "release" /\ Release(l, j).j = j /\ Release(l, j).l = l
         /\ Release(l, j).w = {}
  BY DEF Release, NoFrame, FrameType, CalmOps, Statuses, JobOrNone, Locks
<1>4. QED  BY <1>1, <1>2, <1>3

LEMMA WithAttempt ==
    ASSUME NEW x \in FrameType, NEW n \in Nat
    PROVE  /\ [x EXCEPT !.a = n] \in FrameType
           /\ [x EXCEPT !.a = n].op = x.op /\ [x EXCEPT !.a = n].j = x.j
           /\ [x EXCEPT !.a = n].a = n
  BY DEF FrameType

LEMMA WithList ==
    ASSUME NEW x \in FrameType, NEW w \in SUBSET x.w
    PROVE  /\ [x EXCEPT !.w = w] \in FrameType
           /\ [x EXCEPT !.w = w].op = x.op /\ [x EXCEPT !.w = w].w = w
<1>1. w \in SUBSET (Jobs \X JobOrNone)
  BY DEF FrameType
<1>2. QED  BY <1>1 DEF FrameType

(* The first call of a request, and what is left when it is done. *)
LEMMA Shape ==
    ASSUME NEW t \in Threads, Form(stack[t]), stack[t] # <<>>
    PROVE  /\ Top(t) \in FrameType
           /\ Top(t).op \notin {"release", "update"} => stack[t] = <<Top(t)>>
           /\ Top(t).op = "update" =>
                \/ stack[t] = <<Top(t)>>
                \/ /\ Top(t).s = "DEP_FAILED"
                   /\ \E y \in FrameType : stack[t] = <<Top(t), y>> /\ y.op = "promotenext"
           /\ Top(t).op = "release" =>
                \/ \E y \in FrameType : stack[t] = <<Top(t), y>> /\ AfterRelease(y, Top(t).j)
                \/ \E y, z \in FrameType :
                      /\ stack[t] = <<Top(t), y, z>> /\ y.op = "release" /\ y.j = Top(t).j
                      /\ AfterRelease(z, Top(t).j)
  BY Tuples DEF Form, Top, AfterRelease

(* A call that is neither a release nor an update is the only one. *)
LEMMA Goes ==
    ASSUME NEW t \in Threads, Form(stack[t]), stack[t] # <<>>, Stores,
           Top(t).op \notin {"release", "update"},
           NEW frames, frames \o <<>> = frames, Continue(t, frames)
    PROVE  /\ stack' = [u \in Threads |-> stack'[u]]
           /\ stack'[t] = frames
           /\ \A u \in Threads \ {t} : stack'[u] = stack[u]
<1>1. Tail(stack[t]) = <<>>  BY Shape, Tuples
<1>2. QED  BY <1>1 DEF Continue, Stores

LEMMA Promotes ==
    ASSUME NEW t \in Threads, Form(stack[t])
    PROVE  Promoting(t) <=>
             /\ stack[t] # <<>>
             /\ \/ Top(t).op \in {"promotenext", "unblock"}
                \/ Top(t).op = "update" /\ stack[t] # <<Top(t)>>
<1>1. CASE stack[t] = <<>>  BY <1>1 DEF Promoting, At
<1>2. CASE \E x \in FrameType : stack[t] = <<x>> /\ x.op # "release"
  BY <1>2, Tuples DEF Promoting, At, Top
<1>3. CASE \E x, y \in FrameType :
              /\ stack[t] = <<x, y>>
              /\ \/ x.op = "release" /\ AfterRelease(y, x.j)
                 \/ x.op = "update" /\ x.s = "DEP_FAILED" /\ y.op = "promotenext"
  <2>1. PICK x \in FrameType, y \in FrameType :
              /\ stack[t] = <<x, y>>
              /\ \/ x.op = "release" /\ AfterRelease(y, x.j)
                 \/ x.op = "update" /\ x.s = "DEP_FAILED" /\ y.op = "promotenext"
    BY <1>3
  <2>2. DOMAIN stack[t] = {1, 2} /\ stack[t][1] = x /\ stack[t][2] = y
    BY <2>1
  <2>3. Top(t) = x  BY <2>1, Tuples DEF Top
  <2>4. stack[t] # <<x>>  BY <2>1
  <2>5. QED  BY <2>1, <2>2, <2>3, <2>4 DEF Promoting, At, Top, AfterRelease
<1>4. CASE \E x, y, z \in FrameType :
              /\ stack[t] = <<x, y, z>> /\ x.op = "release" /\ y.op = "release" /\ y.j = x.j
              /\ AfterRelease(z, x.j)
  <2>1. PICK x \in FrameType, y \in FrameType, z \in FrameType :
              /\ stack[t] = <<x, y, z>> /\ x.op = "release" /\ y.op = "release"
              /\ AfterRelease(z, x.j)
    BY <1>4
  <2>2. /\ DOMAIN stack[t] = {1, 2, 3}
        /\ stack[t][1] = x /\ stack[t][2] = y /\ stack[t][3] = z
    BY <2>1
  <2>3. Top(t) = x  BY <2>1, Tuples DEF Top
  <2>4. QED  BY <2>1, <2>2, <2>3 DEF Promoting, At, Top, AfterRelease
<1>5. QED  BY <1>1, <1>2, <1>3, <1>4 DEF Form

-----------------------------------------------------------------------------
(* What a step of one request leaves alone *)

LEMMA MintsFacts == Mints \subseteq Nat \ {0}
  BY LimitsAssumption DEF Mints

(* The one call that drives a job whose worker is at work is the worker's. *)
LEMMA WorkingDriver ==
    ASSUME Inv, NEW t \in Threads, NEW j \in Jobs, Drives(t, j),
           job[j].status \in {"STAGING"} \cup Accepted
    PROVE  /\ At(t, "write") /\ Early(t)
           /\ answer[t].n \in Mints /\ answer[t].n # 0
           /\ run[answer[t].n].job = j /\ job[j].cb = answer[t].n
<1>1. stack[t] # <<>> /\ Top(t) \in FrameType /\ Top(t).j = j
  BY Shape DEF Inv, Requests, Drives
<1>2. CallOK(t) /\ AnswerOK(t)
  BY <1>1 DEF Inv, Requests
<1>3. Top(t).op = "write" /\ Top(t).s \in WorkerStatuses /\ Top(t).s = answer[t].s
  <2>1. Top(t).op \in CalmOps
    BY <1>1 DEF FrameType
  <2>2. job[j].status \notin {"NONE", "QUEUED", "DISPATCHING", "BLOCKED"}
    BY DEF Accepted
  <2>3. job[j].status \notin RetriableFailures /\ job[j].status \notin Terminal
    BY DEF Accepted, RetriableFailures, Terminal
  <2>4. ~ Unchecked(Top(t)) /\ Top(t).op \notin {"promote", "promotenext"}
    BY DEF Drives
  <2>5. QED  BY <1>1, <1>2, <2>1, <2>2, <2>3, <2>4 DEF CallOK, StatusFits, UpdateFits, Unchecked, CalmOps
<1>4. answer[t].n # 0
  BY <1>2, <1>3 DEF AnswerOK, NoAnswer, WorkerStatuses
<1>5. answer[t].n \in Mints
  BY <1>4 DEF Inv, Stores
<1>6. Early(t) /\ At(t, "write")
  BY <1>1, <1>3 DEF Early, At, Top
<1>7. QED  BY <1>1, <1>2, <1>4, <1>5, <1>6 DEF AnswerOK

LEMMA OthersCall ==
    ASSUME Inv, NEW t \in Threads, NEW j \in Jobs, Local(t, j),
           NEW u \in Threads \ {t}, stack[u] # <<>>
    PROVE  CallOK(u)'
<1> DEFINE x == Top(u)
<1>1. x \in FrameType /\ Top(u)' = x /\ stack'[u] = stack[u] /\ answer'[u] = answer[u]
  BY Shape DEF Inv, Requests, Local, Top
<1>2. CallOK(u) /\ x.j \in Jobs
  BY <1>1 DEF Inv, Requests, FrameType
<1>3. ReleasesToEnd(u)' <=> ReleasesToEnd(u)
  BY <1>1 DEF ReleasesToEnd
<1>4. CASE ~ Drives(u, x.j)
  <2>1. \/ x.op \in {"promote", "promotenext"}
        \/ x.op = "update" /\ x.s \in WorkerStatuses
    BY <1>4 DEF Drives, Unchecked
  <2>2. x.op = "update" => x.s = answer[u].s
    BY <1>2, <2>1 DEF CallOK, UpdateFits, WorkerStatuses
  <2>3. QED  BY <1>1, <2>1, <2>2 DEF CallOK, StatusFits, UpdateFits, Prepared
<1>5. CASE Drives(u, x.j)
  <2>1. x.j # j \/ ~ Drives(t, j)
    BY <1>2, <1>5 DEF Inv, Alone
  <2>2. Same(x.j)
    BY <1>2, <2>1 DEF Local
  <2>3. \A l \in Locks : lk[l].owner = x.j => lk'[l].owner = x.j
    BY <1>2, <2>1 DEF Local
  <2>4. \A id \in queuedIds' : id[1] = x.j => id \in queuedIds
    BY <2>1 DEF Local
  <2>5. job[x.j].dep # NoJob /\ DepStatus(x.j) = "COMPLETED" => DepStatus(x.j)' = "COMPLETED"
    <3>1. job[x.j].dep \in JobOrNone
      BY <1>2 DEF Inv, Stores, JobType
    <3>2. \A i \in Jobs : job[i].status = "COMPLETED" => job'[i].status = "COMPLETED"
      BY DEF Local, Same
    <3>3. QED  BY <1>1, <2>2, <3>1, <3>2 DEF DepStatus, Same, JobOrNone
  <2>6. x.op = "workflow" => run'[x.n].stage = "none"
    <3> SUFFICES ASSUME x.op = "workflow" PROVE run'[x.n].stage = "none"
      OBVIOUS
    <3>1. x.n \in Mints /\ x.n # 0 /\ job[x.j].cb = x.n /\ run[x.n].stage = "none"
      BY <1>2, MintsFacts DEF CallOK, Prepared
    <3>2. x.n # answer[t].n
      BY <3>1 DEF Inv, Requests, AnswerOK
    <3>3. ~ (At(t, "workflow") /\ Top(t).n = x.n)
      <4> SUFFICES ASSUME At(t, "workflow"), Top(t).n = x.n PROVE FALSE
        OBVIOUS
      <4>1. stack[t] # <<>> /\ Top(t).op = "workflow" /\ Top(t).j \in Jobs
        BY Shape DEF At, Top, Inv, Requests, FrameType
      <4>2. job[Top(t).j].cb = x.n
        BY <4>1 DEF Inv, Requests, CallOK, Prepared
      <4>3. Top(t).j = x.j
        BY <1>2, <3>1, <4>1, <4>2 DEF Inv, Project, Tokens
      <4>4. Drives(t, x.j)
        BY <4>1, <4>3 DEF Drives, Unchecked
      <4>5. QED  BY <1>2, <1>5, <4>4 DEF Inv, Alone
    <3>4. QED  BY <3>1, <3>2, <3>3 DEF Local
  <2>7. x.op = "write" /\ x.s \in WorkerStatuses /\ x.s = answer[u].s =>
          run'[answer[u].n] = run[answer[u].n]
    <3> SUFFICES ASSUME x.op = "write", x.s \in WorkerStatuses, x.s = answer[u].s
                 PROVE run'[answer[u].n] = run[answer[u].n]
      OBVIOUS
    <3>1. answer[u].n # 0
      BY DEF Inv, Requests, AnswerOK, NoAnswer, WorkerStatuses
    <3>2. answer[u].n \in Mints /\ answer[u].n # answer[t].n
      BY <3>1 DEF Inv, Stores, Alone
    <3>3. run[answer[u].n].stage # "none"
      BY <3>1 DEF Inv, Requests, AnswerOK
    <3>4. ~ (At(t, "workflow") /\ Top(t).n = answer[u].n)
      BY <3>3 DEF At, Top, Inv, Requests, CallOK, Prepared
    <3>5. QED  BY <3>2, <3>4 DEF Local
  <2>8. job'[x.j].status = job[x.j].status /\ job'[x.j].attempt = job[x.j].attempt
        /\ job'[x.j].dep = job[x.j].dep /\ job'[x.j].cb = job[x.j].cb
    BY <2>2 DEF Same
  <2> HIDE DEF x
  <2>9. QED
    <3>1. \A l \in Locks : lk[l].owner = x.j => lk'[l].owner = x.j
      BY <2>3
    <3>2. "generation" \in Locks /\ "target-path" \in Locks
      BY DEF Locks
    <3>3. /\ stack'[u] = stack[u] /\ answer'[u] = answer[u]
          /\ Top(u) = x /\ Top(u)' = x /\ x' = x
      BY <1>1 DEF x
    <3>4. StatusFits(u)'
      BY <1>2, <1>3, <2>8, <3>3 DEF CallOK, StatusFits
    <3>5. UpdateFits(u)'
      BY <1>2, <2>7, <2>8, <3>3 DEF CallOK, UpdateFits
    <3>6. Prepared(u)'
      BY <1>2, <2>4, <2>5, <2>6, <2>8, <3>1, <3>2, <3>3 DEF CallOK, Prepared
    <3>7. QED  BY <3>4, <3>5, <3>6 DEF CallOK
<1>6. QED  BY <1>4, <1>5

LEMMA EarlyServes ==
    ASSUME Inv, NEW t \in Threads, Early(t)
    PROVE  /\ answer[t].n \in Mints /\ answer[t].n # 0 /\ Top(t).s = answer[t].s
           /\ Top(t).j = run[answer[t].n].job /\ job[Top(t).j].cb = answer[t].n
<1>1. stack[t] # <<>> /\ Top(t).op \in {"update", "write"} /\ Top(t).s \in WorkerStatuses
  BY DEF Early
<1>2. CallOK(t) /\ AnswerOK(t)
  BY <1>1 DEF Inv, Requests
<1>3. Top(t).s = answer[t].s
  BY <1>1, <1>2 DEF CallOK, UpdateFits, WorkerStatuses
<1>4. answer[t].n # 0
  BY <1>1, <1>2, <1>3 DEF AnswerOK, NoAnswer, WorkerStatuses
<1>5. QED  BY <1>2, <1>3, <1>4 DEF AnswerOK, Inv, Stores

LEMMA OthersAnswer ==
    ASSUME Inv, NEW t \in Threads, NEW j \in Jobs, Local(t, j), NEW u \in Threads \ {t}
    PROVE  Form(stack[u])' /\ AnswerOK(u)' /\ ListOK(u)'
<1>1. stack'[u] = stack[u] /\ answer'[u] = answer[u] /\ (Early(u)' <=> Early(u))
  BY DEF Local, Early, Top
<1>2. Form(stack[u])'
  BY <1>1 DEF Inv, Requests, Form
<1>3. AnswerOK(u)'
  <2> DEFINE n == answer[u].n
  <2>1. AnswerOK(u)
    BY DEF Inv, Requests
  <2>2. n = 0 => answer'[u] = NoAnswer
    BY <1>1, <2>1 DEF AnswerOK
  <2>3. CASE n # 0
    <3>1. n \in Mints /\ n # answer[t].n
      BY <2>3 DEF Inv, Stores, Alone
    <3>2. run[n].stage \notin {"none", "gone"} /\ answer[u].s \in Posts(n) /\ WorkerOK(n)
      BY <2>1, <2>3, <3>1 DEF AnswerOK, Inv, Project
    <3>3. ~ (At(t, "workflow") /\ Top(t).n = n)
      BY <3>2 DEF At, Top, Inv, Requests, CallOK, Prepared
    <3>4. run'[n] = run[n]
      BY <3>1, <3>3 DEF Local
    <3>5. answer[u].s \in Posts(n)'
      BY <1>1, <3>2, <3>4 DEF Posts
    <3> DEFINE i == run[n].job
    <3>6. i \in Jobs
      BY <3>2 DEF WorkerOK
    <3>7. i # j \/ ~ Drives(t, j) => Same(i)
      BY <3>6 DEF Local
    <3>8. ASSUME Early(u)
          PROVE  Top(u).j = i /\ job'[i].cb = n
      <4>1. Top(u).j = i /\ job[i].cb = n /\ At(u, Top(u).op) /\ Top(u).op \in {"update", "write"}
        BY <2>1, <2>3, <3>8 DEF AnswerOK, Early, At, Top
      <4>2. CASE Top(u).op = "write"
        <5>1. Drives(u, i)
          BY <3>8, <4>1, <4>2 DEF Drives, Unchecked, Early
        <5>2. QED  BY <3>6, <3>7, <4>1, <5>1 DEF Inv, Alone, Same
      <4>3. CASE Top(u).op = "update"
        <5>1. Serves(u) # 0 /\ At(u, "update") /\ Top(u).j = i
          BY <2>3, <4>1, <4>3 DEF Serves
        <5>2. i = j => job'[j].cb = job[j].cb
          BY <5>1 DEF Local
        <5>3. QED  BY <3>7, <4>1, <5>2 DEF Same
      <4>4. QED  BY <4>1, <4>2, <4>3
    <3>9. ASSUME ~ Early(u), StageAfter(answer[u].s) # "gone"
          PROVE  stack[u] = <<>> /\ job'[i].cb = n /\ job'[i].status = answer[u].s
      <4>1. stack[u] = <<>> /\ job[i].cb = n /\ job[i].status = answer[u].s
        BY <2>1, <2>3, <3>9 DEF AnswerOK
      <4>2. answer[u].s \in Accepted
        BY <3>9 DEF StageAfter, Accepted
      <4>3. i # j \/ ~ Drives(t, j)
        BY <3>1, <4>1, <4>2, WorkingDriver
      <4>4. QED  BY <3>7, <4>1, <4>3 DEF Same
    <3>10. (answer[u].n)' = n /\ (run[answer[u].n].job)' = i /\ Top(u)' = Top(u)
      BY <1>1, <3>4 DEF Top
    <3> HIDE DEF n, i
    <3>11. AnswerOK(u)' <=>
             /\ n # 0 => /\ run'[n].stage \notin {"none", "gone"}
                         /\ (answer[u].s \in Posts(n))'
                         /\ Early(u) => Top(u).j = i /\ job'[i].cb = n
                         /\ ~ Early(u) /\ StageAfter(answer[u].s) # "gone" =>
                              stack[u] = <<>> /\ job'[i].cb = n /\ job'[i].status = answer[u].s
      BY <1>1, <2>3, <3>4, <3>10 DEF AnswerOK, n, i, StageAfter
    <3>12. (answer[u].s \in Posts(n))'
      BY <1>1, <3>5, <3>10 DEF n, Posts
    <3>13. QED  BY <3>2, <3>4, <3>8, <3>9, <3>11, <3>12
  <2>4. QED  BY <2>2, <2>3, <1>1 DEF AnswerOK
<1>4. ListOK(u)'
  <2> SUFFICES ASSUME NEW k \in DOMAIN stack[u], stack[u][k].op = "promotenext",
                      NEW e \in stack[u][k].w
               PROVE  job'[e[1]].status = "BLOCKED"
    BY <1>1 DEF ListOK
  <2>1. job[e[1]].status = "BLOCKED"
    BY DEF Inv, Requests, ListOK
  <2>2. ~ Promoting(t)
    BY DEF Promoting, Inv, Alone
  <2>3. e[1] \in Jobs
    <3>1. stack[u][k] \in FrameType
      BY DEF Inv, Requests, Form
    <3>2. QED  BY <3>1 DEF FrameType
  <2>4. QED  BY <2>1, <2>2, <2>3 DEF Local, Same
<1>5. QED  BY <1>2, <1>3, <1>4

LEMMA DrivesSame ==
    ASSUME NEW t \in Threads, NEW j \in Jobs, Local(t, j), NEW u \in Threads \ {t}
    PROVE  /\ \A i \in Jobs : Drives(u, i)' <=> Drives(u, i)
           /\ Promoting(u)' <=> Promoting(u)
           /\ Early(u)' <=> Early(u)
<1>1. stack'[u] = stack[u]
  BY DEF Local
<1>2. QED  BY <1>1 DEF Drives, Promoting, Early, Unchecked, Top, At

LEMMA AloneKept ==
    ASSUME Inv, NEW t \in Threads, NEW j \in Jobs, Local(t, j)
    PROVE  Alone'
<1>1. ASSUME NEW u \in Threads \ {t}, NEW i \in Jobs, Drives(t, i)', Drives(u, i)'
      PROVE  FALSE
  <2>1. i = j /\ Drives(u, j)
    BY <1>1, DrivesSame DEF Local
  <2>2. Drives(t, j)
    BY <1>1, <2>1 DEF Local
  <2>3. QED  BY <2>1, <2>2 DEF Inv, Alone
<1>2. ASSUME NEW u \in Threads, NEW v \in Threads, NEW i \in Jobs, Drives(u, i)', Drives(v, i)'
      PROVE  u = v
  <2>1. CASE u = t \/ v = t
    BY <1>1, <1>2, <2>1
  <2>2. CASE u # t /\ v # t
    BY <1>2, <2>2, DrivesSame DEF Inv, Alone
  <2>3. QED  BY <2>1, <2>2
<1>3. ASSUME NEW u \in Threads \ {t}, answer'[t].n = answer[u].n, answer[u].n # 0
      PROVE  FALSE
  <2>1. Waiting(answer'[t].n)
    BY <1>3 DEF Waiting, Serves
  <2>2. answer[t].n = answer[u].n
    BY <1>3, <2>1 DEF Local
  <2>3. QED  BY <1>3, <2>2 DEF Inv, Alone
<1>4. ASSUME NEW u \in Threads, NEW v \in Threads, answer'[u].n = answer'[v].n, answer'[u].n # 0
      PROVE  u = v
  <2>1. \A w \in Threads \ {t} : answer'[w] = answer[w]
    BY DEF Local
  <2>2. CASE u = t \/ v = t
    BY <1>3, <1>4, <2>1, <2>2
  <2>3. CASE u # t /\ v # t
    BY <1>4, <2>1, <2>3 DEF Inv, Alone
  <2>4. QED  BY <2>2, <2>3
<1>5. ASSUME NEW u \in Threads, NEW v \in Threads, Promoting(u)', Promoting(v)'
      PROVE  u = v
  <2>1. ASSUME NEW w \in Threads \ {t}, Promoting(t)', Promoting(w)'
        PROVE  FALSE
    BY <2>1, DrivesSame DEF Local, Inv, Alone
  <2>2. CASE u = t \/ v = t
    BY <1>5, <2>1, <2>2
  <2>3. CASE u # t /\ v # t
    BY <1>5, <2>3, DrivesSame DEF Inv, Alone
  <2>4. QED  BY <2>2, <2>3
<1>6. QED  BY <1>2, <1>4, <1>5 DEF Alone

LEMMA DependencyKept ==
    ASSUME Stores, NEW i \in Jobs,
           \A k \in Jobs : job[k].status = "COMPLETED" => job'[k].status = "COMPLETED",
           job'[i].dep = job[i].dep, DepStatus(i) = "COMPLETED"
    PROVE  DepStatus(i)' = "COMPLETED"
<1>1. job[i].dep \in JobOrNone
  BY DEF Stores, JobType
<1>2. QED  BY <1>1 DEF DepStatus, JobOrNone

LEMMA CompletedKept ==
    ASSUME NEW t \in Threads, NEW j \in Jobs, Local(t, j), NEW k \in Jobs,
           job[k].status = "COMPLETED"
    PROVE  job'[k].status = "COMPLETED"
  BY DEF Local, Same

LEMMA JobsKept ==
    ASSUME Inv, Stores', NEW t \in Threads, NEW j \in Jobs, Local(t, j), NEW i \in Jobs \ {j}
    PROVE  JobOK(i)'
<1>1. Same(i) /\ JobOK(i)
  BY DEF Local, Inv, Project
<1>2. \A l \in Locks : lk[l].owner = i => lk'[l].owner = i
  BY DEF Local
<1>3. Needs(i) \subseteq Locks
  BY DEF Needs, Locks
<1>4. DepStatus(i) = "COMPLETED" => DepStatus(i)' = "COMPLETED"
  BY <1>1, CompletedKept, DependencyKept DEF Same, Inv
<1>5. job[i].cb <= mints'
  <2>1. job[i].cb \in Nat /\ mints \in Nat /\ mints' \in {mints, mints + 1}
    BY DEF Inv, Stores, JobType, Local
  <2>2. QED  BY <1>1, <2>1 DEF JobOK
<1>6. /\ \A id \in queuedIds' : id[1] = i => id \in queuedIds
      /\ \A id \in pending' : id[1] = i => id \in pending
      /\ \A id \in pending : id[1] = i => id \in pending'
  BY DEF Local, Inv, Stores
<1>7. \A v \in Threads : Drives(v, i)' <=> Drives(v, i)
  BY DrivesSame DEF Local
<1>8. QED
  <2>1. job'[i].status \in Running => \A l \in Needs(i) : lk'[l].owner = i
    BY <1>1, <1>2, <1>3 DEF Same, JobOK
  <2>2. job'[i].status \in Running /\ job'[i].dep # NoJob => DepStatus(i)' = "COMPLETED"
    BY <1>1, <1>4 DEF Same, JobOK
  <2>3. /\ job'[i].status # "DEP_FAILED" /\ job'[i].cb <= mints'
        /\ job'[i].status = "NONE" => job'[i].cb = 0
    BY <1>1, <1>5 DEF Same, JobOK
  <2>4. \A id \in queuedIds' : id[1] = i =>
          /\ id[2] <= job'[i].attempt /\ job'[i].status # "NONE"
          /\ job'[i].status \in {"QUEUED", "BLOCKED"} => id[2] < job'[i].attempt
    BY <1>1, <1>6 DEF Same, JobOK
  <2>5. \A id \in pending' : id[1] = i =>
          job'[i].status = "DISPATCHING" /\ \A v \in Threads : ~ Drives(v, i)'
    BY <1>1, <1>6, <1>7 DEF Same, JobOK
  <2>6. job'[i].status = "DISPATCHING" =>
          \/ \E v \in Threads : Drives(v, i)'
          \/ \E id \in pending' : id[1] = i
    BY <1>1, <1>6, <1>7 DEF Same, JobOK
  <2>7. QED  BY <2>1, <2>2, <2>3, <2>4, <2>5, <2>6 DEF JobOK, Needs

LEMMA WorkersKept ==
    ASSUME Inv, NEW t \in Threads, NEW j \in Jobs, Local(t, j),
           NEW n \in Mints, n # answer[t].n, n # answer'[t].n,
           ~ (At(t, "workflow") /\ Top(t).n = n)
    PROVE  WorkerOK(n)'
<1>1. run'[n] = run[n] /\ WorkerOK(n)
  BY DEF Local, Inv, Project
<1>2. Answered(n)' <=> Answered(n)
  <2>1. \A u \in Threads \ {t} : answer'[u] = answer[u] /\ (Early(u)' <=> Early(u))
    BY DrivesSame DEF Local
  <2>2. QED  BY <2>1 DEF Answered
<1>3. run[n].stage # "none" => n <= mints'
  BY <1>1, MintsFacts DEF WorkerOK, Inv, Stores, Local
<1> DEFINE i == run[n].job
<1>4. CASE run[n].stage \in {"none", "gone"}
  BY <1>1, <1>3, <1>4 DEF WorkerOK, Working
<1>5. CASE run[n].stage \notin {"none", "gone"} /\ (i # j \/ ~ Drives(t, j))
  <2>1. i \in Jobs
    BY <1>1, <1>5 DEF WorkerOK
  <2>2. Same(i)
    BY <1>5, <2>1 DEF Local
  <2>3. QED  BY <1>1, <1>2, <1>3, <2>1, <2>2 DEF WorkerOK, Same, StatusAt
<1>6. CASE run[n].stage \notin {"none", "gone"} /\ i = j /\ Drives(t, j)
  <2>1. n <= mints /\ n \in Nat /\ mints \in Nat
    BY <1>1, <1>6, MintsFacts DEF WorkerOK, Inv, Stores
  <2>2. ASSUME run[n].stage \in Working, ~ Answered(n)
        PROVE  FALSE
    <3>1. job[j].cb = n /\ job[j].status = StatusAt(run[n].stage)
      BY <1>1, <1>6, <2>2 DEF WorkerOK
    <3>2. job[j].status \in Accepted
      BY <2>2, <3>1 DEF StatusAt, Working, Accepted
    <3>3. QED  BY <1>6, <3>1, <3>2, WorkingDriver
  <2>3. ASSUME run[n].stage = "start", ~ Answered(n), job'[j].cb = n
        PROVE  job'[j].status \in BeforeWork
    <3>1. job[j].cb = n
      BY <2>1, <2>3 DEF Local
    <3>2. job[j].status \in BeforeWork
      BY <1>1, <1>6, <2>3, <3>1 DEF WorkerOK
    <3>3. ~ Early(t)
      <4> SUFFICES ASSUME Early(t) PROVE FALSE
        OBVIOUS
      <4>1. Top(t).j = j
        BY <1>6 DEF Drives
      <4>2. QED  BY <3>1, <4>1, EarlyServes
    <3>4. QED  BY <3>2, <3>3 DEF Local
  <2>4. i \in Jobs
    BY <1>6
  <2>5. QED  BY <1>1, <1>2, <1>3, <1>6, <2>2, <2>3, <2>4 DEF WorkerOK, Working
<1>7. QED  BY <1>4, <1>5, <1>6

LEMMA TokensKept ==
    ASSUME Inv, NEW t \in Threads, NEW j \in Jobs, Local(t, j)
    PROVE  Tokens'
<1>1. \A i \in Jobs : job[i].cb \in Nat /\ job[i].cb <= mints
  BY DEF Inv, Stores, JobType, Project, JobOK
<1>2. mints \in Nat
  BY DEF Inv, Stores
<1>3. \A i \in Jobs \ {j} : job'[i].cb = job[i].cb
  BY DEF Local, Same
<1>4. job'[j].cb \in {job[j].cb, mints + 1}
  BY DEF Local
<1>5. \A i, k \in Jobs : job[i].cb = job[k].cb /\ job[i].cb # 0 => i = k
  BY DEF Inv, Project, Tokens
<1>6. QED  BY <1>1, <1>2, <1>3, <1>4, <1>5 DEF Tokens

(* What is left to show of a step. *)
LEMMA StepKeeps ==
    ASSUME Inv, NEW t \in Threads, NEW j \in Jobs, Local(t, j), Stores',
           Form(stack[t])', (stack[t] # <<>> => CallOK(t))', AnswerOK(t)', ListOK(t)',
           JobOK(j)', OneEntry',
           \A n \in Mints : \/ n = answer[t].n
                            \/ n = answer'[t].n
                            \/ At(t, "workflow") /\ Top(t).n = n
              => WorkerOK(n)'
    PROVE  Inv'
<1>1. Requests'
  <2>1. ASSUME NEW u \in Threads \ {t}
        PROVE  (Form(stack[u]) /\ (stack[u] # <<>> => CallOK(u)) /\ AnswerOK(u) /\ ListOK(u))'
    <3>1. stack'[u] = stack[u]
      BY DEF Local
    <3>2. QED  BY <3>1, OthersAnswer, OthersCall
  <2>2. QED  BY <2>1 DEF Requests
<1>2. Alone'
  BY AloneKept
<1>3. Project'
  <2>1. \A n \in Mints : WorkerOK(n)'
    BY WorkersKept
  <2>2. \A i \in Jobs : JobOK(i)'
    BY JobsKept
  <2>3. QED  BY <2>1, <2>2, TokensKept DEF Project
<1>4. QED  BY <1>1, <1>2, <1>3 DEF Inv

-----------------------------------------------------------------------------
(* Kinds of steps *)

(* A call that is no worker's update, and starts no worker. *)
LEMMA PlainStep ==
    ASSUME Inv, NEW t \in Threads, NEW j \in Jobs, Local(t, j), Stores',
           UNCHANGED <<run, answer, pending>>,
           stack[t] # <<>> \/ answer[t] = NoAnswer, ~ Early(t), ~ Early(t)',
           Form(stack[t])', (stack[t] # <<>> => CallOK(t))', ListOK(t)', JobOK(j)'
    PROVE  Inv'
<1>1. AnswerOK(t)'
  <2>1. AnswerOK(t)
    BY DEF Inv, Requests
  <2>2. answer[t].n # 0 => StageAfter(answer[t].s) = "gone"
    BY <2>1 DEF AnswerOK, NoAnswer
  <2>3. \A n \in Mints : Posts(n)' = Posts(n)
    BY DEF Posts
  <2>4. answer[t].n # 0 => answer[t].n \in Mints
    BY DEF Inv, Stores
  <2>5. CASE answer[t].n = 0
    BY <2>1, <2>5 DEF AnswerOK, NoAnswer
  <2>6. CASE answer[t].n # 0
    <3>1. /\ run'[answer[t].n].stage \notin {"none", "gone"}
          /\ (answer[t].s \in Posts(answer[t].n))'
      BY <2>1, <2>6 DEF AnswerOK, Posts
    <3>2. StageAfter(answer'[t].s) = "gone" /\ answer'[t].n # 0
      BY <2>2, <2>6
    <3>3. QED  BY <3>1, <3>2 DEF AnswerOK, StageAfter
  <2>7. QED  BY <2>5, <2>6
<1>2. OneEntry'
  BY DEF Inv, Project, OneEntry
<1>3. ASSUME NEW n \in Mints, n = answer[t].n
      PROVE  WorkerOK(n)'
  <2>1. Answered(n) /\ Answered(n)'
    BY <1>3 DEF Answered
  <2>2. WorkerOK(n)
    BY DEF Inv, Project
  <2>3. run[n].stage # "none" => n <= mints'
    BY <2>2, MintsFacts DEF WorkerOK, Inv, Stores, Local
  <2>4. QED  BY <2>1, <2>2, <2>3 DEF WorkerOK
<1>4. ASSUME NEW n \in Mints, At(t, "workflow"), Top(t).n = n
      PROVE  WorkerOK(n)'
  <2>1. run[n].stage = "none"
    BY <1>4 DEF At, Top, Inv, Requests, CallOK, Prepared
  <2>2. QED  BY <2>1 DEF WorkerOK, Working
<1>5. \A n \in Mints : \/ n = answer[t].n
                       \/ n = answer'[t].n
                       \/ At(t, "workflow") /\ Top(t).n = n
         => WorkerOK(n)'
  BY <1>3, <1>4
<1>6. QED  BY <1>1, <1>2, <1>5, StepKeeps

(* A call that only calls on. *)
LEMMA GotoStep ==
    ASSUME Inv, NEW t \in Threads, NEW j \in Jobs,
           UNCHANGED <<job, lk, run, answer, mints, pending, queuedIds>>,
           stack' = [u \in Threads |-> stack'[u]],
           \A u \in Threads \ {t} : stack'[u] = stack[u],
           stack[t] # <<>> \/ answer[t] = NoAnswer, ~ Early(t), ~ Early(t)',
           Form(stack[t])', (stack[t] # <<>> => CallOK(t))', ListOK(t)',
           \A i \in Jobs : Drives(t, i) \/ Drives(t, i)' => i = j,
           Drives(t, j)' => \/ Drives(t, j)
                            \/ /\ \A u \in Threads : ~ Drives(u, j)
                               /\ \A id \in pending : id[1] # j,
           Drives(t, j) => Drives(t, j)' \/ job[j].status # "DISPATCHING",
           Promoting(t)' => Promoting(t) \/ \A u \in Threads : ~ Promoting(u)
    PROVE  Inv'
<1>1. Stores'
  BY DEF Inv, Stores
<1>2. Local(t, j)
  BY DEF Local, Same, Inv, Stores
<1>3. JobOK(j)'
  <2>1. JobOK(j)
    BY DEF Inv, Project
  <2>2. \A u \in Threads \ {t} : Drives(u, j)' <=> Drives(u, j)
    BY <1>2, DrivesSame
  <2>3. DepStatus(j)' = DepStatus(j)
    BY DEF DepStatus
  <2>4. (job[j].status = "DISPATCHING" =>
            \/ \E v \in Threads : Drives(v, j)
            \/ \E id \in pending : id[1] = j)'
    BY <2>1, <2>2 DEF JobOK
  <2>5. (\A id \in pending : id[1] = j =>
            job[j].status = "DISPATCHING" /\ \A v \in Threads : ~ Drives(v, j))'
    BY <2>1, <2>2 DEF JobOK
  <2>6. QED  BY <2>1, <2>3, <2>4, <2>5 DEF JobOK
<1>4. QED  BY <1>1, <1>2, <1>3, PlainStep

(* The calls that drive their job and concern no worker's update. *)
Plain ==
    {"slot", "insert", "dispatch", "block", "lock", "locktarget", "provision", "mark", "workflow",
     "enqueue", "fail", "requeue", "bury", "resolve", "unblock"}

LEMMA Called ==
    ASSUME Inv, NEW t \in Threads, stack[t] # <<>>
    PROVE  /\ Top(t) \in FrameType /\ Top(t).j \in Jobs
           /\ CallOK(t) /\ ListOK(t) /\ AnswerOK(t) /\ JobOK(Top(t).j)
           /\ job[Top(t).j] \in JobType
           /\ Top(t).op \notin {"release", "update"} => stack[t] = <<Top(t)>>
           /\ \A i \in Jobs : Drives(t, i) => i = Top(t).j
           /\ Top(t).op \in Plain => Drives(t, Top(t).j) /\ ~ Early(t)
<1>1. Form(stack[t])
  BY DEF Inv, Requests
<1>2. Top(t) \in FrameType /\ Top(t).j \in Jobs
  BY <1>1, Shape DEF FrameType
<1>3. Top(t).op \notin {"release", "update"} => stack[t] = <<Top(t)>>
  BY <1>1, Shape
<1>4. CallOK(t) /\ ListOK(t) /\ AnswerOK(t) /\ JobOK(Top(t).j) /\ job[Top(t).j] \in JobType
  BY <1>2 DEF Inv, Requests, Project, Stores
<1>5. \A i \in Jobs : Drives(t, i) => i = Top(t).j
  BY DEF Drives
<1>6. Top(t).op \in Plain => Drives(t, Top(t).j) /\ ~ Early(t)
  BY DEF Plain, Drives, Unchecked, Early
<1>7. QED  BY <1>2, <1>3, <1>4, <1>5, <1>6

(* A request that has one call, or none, to make next. *)
LEMMA OneCall ==
    ASSUME NEW t \in Threads, NEW y \in FrameType, y.op # "release", stack'[t] = <<y>>
    PROVE  /\ Form(stack[t])' /\ stack'[t] # <<>> /\ Top(t)' = y /\ Tail(stack'[t]) = <<>>
           /\ ReleasesToEnd(t)' <=> y.op = "promote"
           /\ \A i \in Jobs : Drives(t, i)' <=>
                y.j = i /\ y.op \notin {"promote", "promotenext"} /\ ~ Unchecked(y)
           /\ Early(t)' <=> y.op \in {"update", "write"} /\ y.s \in WorkerStatuses
           /\ Promoting(t)' <=> y.op \in {"promotenext", "unblock"}
           /\ y.op # "promotenext" => ListOK(t)'
<1>1. Top(t)' = y /\ stack'[t] # <<>> /\ Tail(stack'[t]) = <<>> /\ Len(stack'[t]) = 1
  BY Tuples DEF Top
<1>2. DOMAIN stack'[t] = {1} /\ stack'[t][1] = y
  OBVIOUS
<1>3. Form(stack[t])'
  BY DEF Form
<1>4. ReleasesToEnd(t)' <=> y.op = "promote"
  BY <1>1, <1>2 DEF ReleasesToEnd
<1>5. \A i \in Jobs : Drives(t, i)' <=>
        y.j = i /\ y.op \notin {"promote", "promotenext"} /\ ~ Unchecked(y)
  BY <1>1 DEF Drives, Unchecked
<1>6. Early(t)' <=> y.op \in {"update", "write"} /\ y.s \in WorkerStatuses
  BY <1>1 DEF Early
<1>7. Promoting(t)' <=> y.op \in {"promotenext", "unblock"}
  BY <1>1, <1>2 DEF Promoting, At, Top
<1>8. y.op # "promotenext" => ListOK(t)'
  BY <1>2 DEF ListOK
<1>9. QED  BY <1>1, <1>3, <1>4, <1>5, <1>6, <1>7, <1>8

LEMMA NoCall ==
    ASSUME NEW t \in Threads, stack'[t] = <<>>
    PROVE  /\ Form(stack[t])' /\ (stack[t] # <<>> => CallOK(t))' /\ ListOK(t)'
           /\ \A i \in Jobs : ~ Drives(t, i)'
           /\ ~ Early(t)' /\ ~ Promoting(t)'
<1>1. DOMAIN stack'[t] = {}
  OBVIOUS
<1>2. QED  BY <1>1 DEF Form, ListOK, Drives, Early, Promoting, At

(* ...or that first releases locks. *)
LEMMA ReleaseCall ==
    ASSUME NEW t \in Threads, NEW x \in FrameType, NEW y \in FrameType, x.op = "release",
           NEW i \in Jobs, x.j = i,
           \/ stack'[t] = <<x, y>> /\ AfterRelease(y, i)
           \/ \E z \in FrameType : /\ stack'[t] = <<x, y, z>> /\ AfterRelease(z, i)
                                   /\ y.op = "release" /\ y.j = i
    PROVE  /\ Form(stack[t])' /\ stack'[t] # <<>> /\ Top(t)' = x /\ ListOK(t)'
           /\ \A k \in Jobs : Drives(t, k)' <=> k = i
           /\ ~ Early(t)' /\ ~ Promoting(t)'
<1>1. stack'[t] # <<>> /\ Top(t)' = x
  BY Tuples DEF Top
<1>2. Form(stack[t])'
  BY DEF Form
<1>3. ~ Promoting(t)'
  <2>1. CASE stack'[t] = <<x, y>> /\ AfterRelease(y, i)
    <3>1. DOMAIN stack'[t] = {1, 2} /\ stack'[t][1] = x /\ stack'[t][2] = y
      BY <2>1
    <3>2. QED  BY <1>1, <2>1, <3>1 DEF Promoting, At, Top, AfterRelease
  <2>2. CASE \E z \in FrameType : /\ stack'[t] = <<x, y, z>> /\ AfterRelease(z, i)
                                  /\ y.op = "release" /\ y.j = i
    <3>1. PICK z \in FrameType : /\ stack'[t] = <<x, y, z>> /\ AfterRelease(z, i)
                                /\ y.op = "release" /\ y.j = i
      BY <2>2
    <3>2. /\ DOMAIN stack'[t] = {1, 2, 3}
          /\ stack'[t][1] = x /\ stack'[t][2] = y /\ stack'[t][3] = z
      BY <3>1
    <3>3. QED  BY <1>1, <3>1, <3>2 DEF Promoting, At, Top, AfterRelease
  <2>3. QED  BY <2>1, <2>2
<1>4. ListOK(t)'
  BY <1>3 DEF Promoting, ListOK
<1>5. QED  BY <1>1, <1>2, <1>3, <1>4 DEF Drives, Early, Unchecked

LEMMA GotoOne ==
    ASSUME Inv, NEW t \in Threads, stack[t] # <<>>, Top(t).op \in Plain,
           NEW y \in FrameType, y.j = Top(t).j, y.op \in (Plain \ {"unblock"}) \cup {"update"},
           y.op = "update" => y.s \notin WorkerStatuses,
           UNCHANGED <<job, lk, run, answer, mints, pending, queuedIds>>,
           Continue(t, <<y>>), CallOK(t)'
    PROVE  Inv'
<1>1. /\ stack' = [u \in Threads |-> stack'[u]] /\ stack'[t] = <<y>>
      /\ \A u \in Threads \ {t} : stack'[u] = stack[u]
  BY Goes, Joins, Called DEF Inv, Requests, Plain
<1>2. y.op # "release" /\ y.op \notin {"promote", "promotenext", "unblock", "write"}
  BY DEF Plain
<1>3. PICK j \in Jobs : j = Top(t).j
  BY Called
<1>4. Drives(t, j) /\ ~ Early(t) /\ \A i \in Jobs : Drives(t, i) => i = j
  BY <1>3, Called
<1>5. /\ Drives(t, j)' /\ ~ Early(t)' /\ ~ Promoting(t)' /\ ListOK(t)' /\ Form(stack[t])'
      /\ \A i \in Jobs : Drives(t, i)' => i = j
  BY <1>1, <1>2, <1>3, OneCall DEF Unchecked
<1>6. QED  BY <1>1, <1>4, <1>5, GotoStep

-----------------------------------------------------------------------------
(* Steps that only call on *)

LEMMA DispatchReadKeeps ==
    ASSUME Inv, NEW t \in Threads, DispatchRead(t)
    PROVE  Inv'
<1>1. stack[t] # <<>> /\ Top(t).op = "dispatch"
  BY DEF DispatchRead, At, Top
<1>2. PICK j \in Jobs : j = Top(t).j
  BY <1>1, Called
<1>3. /\ job[j].status = "QUEUED" /\ job[j].attempt \in Nat /\ job[j].dep \in JobOrNone
      /\ DepStatus(j) = DepStatus(j)'
      /\ UNCHANGED <<job, lk, run, answer, mints, pending, queuedIds>>
  BY <1>1, <1>2, Called DEF CallOK, StatusFits, JobType, DispatchRead, workers, queueVars, DepStatus
<1>4. Top(t).op \in Plain
  BY <1>1 DEF Plain
<1>5. ASSUME NEW y \in FrameType, Continue(t, <<y>>), y.j = j, y.op \in {"update", "block", "lock"},
             y.op = "update" => y.s = "DEP_FAILED",
             y.op = "lock" => /\ y.a = job[j].attempt
                              /\ job[j].dep # NoJob => DepStatus(j) = "COMPLETED"
      PROVE  Inv'
  <2>1. stack'[t] = <<y>>
    BY <1>1, <1>4, <1>5, Goes, Joins, Called DEF Inv, Requests, Plain
  <2>2. Top(t)' = y /\ Tail(stack'[t]) = <<>>
    BY <2>1, <1>5, OneCall
  <2>3. StatusFits(t)'
    BY <1>3, <1>5, <2>2 DEF StatusFits
  <2>4. UpdateFits(t)'
    BY <1>3, <1>5, <2>2 DEF UpdateFits
  <2>5. Prepared(t)'
    BY <1>3, <1>5, <2>2 DEF Prepared, DepStatus
  <2>6. QED
    BY <1>1, <1>2, <1>3, <1>4, <1>5, <2>3, <2>4, <2>5, GotoOne DEF CallOK, Plain, WorkerStatuses
<1> DEFINE gate == IF job[j].dep = NoJob THEN "allow" ELSE DependencyGate(DepStatus(j))
<1>6. CASE gate = "dep_failed"
  <2>1. Continue(t, <<Update(j, "DEP_FAILED")>>)
    BY <1>2, <1>3, <1>6 DEF DispatchRead, Dispatchable
  <2>2. "DEP_FAILED" \in Statuses
    BY DEF Statuses, JobStatuses
  <2>3. QED  BY <1>5, <2>1, <2>2, Frames
<1>7. CASE gate = "block_dependency"
  <2>1. Continue(t, <<Call("block", j)>>)
    BY <1>2, <1>3, <1>7 DEF DispatchRead, Dispatchable
  <2>2. "block" \in CalmOps
    BY DEF CalmOps
  <2>3. QED  BY <1>5, <2>1, <2>2, Frames
<1>8. CASE gate \notin {"dep_failed", "block_dependency"}
  <2> DEFINE y == [Call("lock", j) EXCEPT !.a = job[j].attempt]
  <2>1. Continue(t, <<y>>)
    BY <1>2, <1>3, <1>8 DEF DispatchRead, Dispatchable
  <2>2. y \in FrameType /\ y.j = j /\ y.op = "lock" /\ y.a = job[j].attempt
    BY <1>3, Frames, WithAttempt DEF CalmOps
  <2>3. job[j].dep # NoJob => DepStatus(j) = "COMPLETED"
    BY <1>8 DEF DependencyGate
  <2> HIDE DEF y
  <2>4. QED  BY <1>5, <2>1, <2>2, <2>3
<1>9. QED  BY <1>6, <1>7, <1>8

LEMMA ProvisionKeeps ==
    ASSUME Inv, NEW t \in Threads, Provision(t)
    PROVE  Inv'
<1>1. stack[t] # <<>> /\ Top(t).op = "provision"
  BY DEF Provision, At, Top
<1>2. PICK j \in Jobs : j = Top(t).j
  BY <1>1, Called
<1>3. /\ job[j].status = "QUEUED" /\ Top(t) \in FrameType /\ Prepared(t)
      /\ DepStatus(j) = DepStatus(j)'
      /\ UNCHANGED <<job, lk, run, answer, mints, pending, queuedIds>>
  BY <1>1, <1>2, Called DEF CallOK, StatusFits, Provision, workers, queueVars, DepStatus
<1>4. Top(t).op \in Plain
  BY <1>1 DEF Plain
<1>5. CASE Continue(t, <<[Top(t) EXCEPT !.op = "mark"]>>)
  <2> DEFINE y == [Top(t) EXCEPT !.op = "mark"]
  <2>1. y \in FrameType /\ y.j = j /\ y.op = "mark" /\ y.a = Top(t).a
    BY <1>2, <1>3 DEF FrameType, CalmOps
  <2>2. PICK z \in FrameType : z = y
    BY <2>1
  <2> HIDE DEF y
  <2>3. Continue(t, <<z>>)
    BY <1>5, <2>2 DEF y
  <2>4. stack'[t] = <<z>>
    BY <1>1, <1>4, <2>3, Goes, Joins, Called DEF Inv, Requests, Plain
  <2>5. Top(t)' = z /\ Tail(stack'[t]) = <<>>
    BY <2>1, <2>2, <2>4, OneCall
  <2>6. StatusFits(t)' /\ UpdateFits(t)'
    BY <1>3, <2>1, <2>2, <2>5 DEF StatusFits, UpdateFits
  <2>7. Prepared(t)'
    BY <1>1, <1>2, <1>3, <2>1, <2>2, <2>5 DEF Prepared, DepStatus
  <2>8. QED
    BY <1>1, <1>2, <1>3, <1>4, <2>1, <2>2, <2>3, <2>6, <2>7, GotoOne DEF CallOK, Plain
<1>6. CASE Continue(t, <<Release("generation", j), Release("target-path", j),
                         Update(j, "DISPATCH_FAILED")>>)
  <2> DEFINE x == Release("generation", j)
             y == Release("target-path", j)
             z == Update(j, "DISPATCH_FAILED")
  <2>1. /\ x \in FrameType /\ x.op = "release" /\ x.j = j
        /\ y \in FrameType /\ y.op = "release" /\ y.j = j
    BY Frames DEF Locks
  <2>2. z \in FrameType /\ AfterRelease(z, j) /\ z.op = "update"
    BY Frames DEF Statuses, JobStatuses, AfterRelease
  <2> HIDE DEF x, y, z
  <2>3. Continue(t, <<x, y, z>>)
    BY <1>6 DEF x, y, z
  <2>4. /\ stack' = [u \in Threads |-> stack'[u]] /\ stack'[t] = <<x, y, z>>
        /\ \A u \in Threads \ {t} : stack'[u] = stack[u]
    BY <1>1, <2>3, Goes, Joins, Called DEF Inv, Requests
  <2>5. /\ Form(stack[t])' /\ stack'[t] # <<>> /\ Top(t)' = x /\ ListOK(t)'
        /\ \A k \in Jobs : Drives(t, k)' <=> k = j
        /\ ~ Early(t)' /\ ~ Promoting(t)'
    BY <2>1, <2>2, <2>4, ReleaseCall
  <2>6. ~ ReleasesToEnd(t)'
    BY <2>2, <2>4, Tuples DEF ReleasesToEnd
  <2>7. CallOK(t)'
    BY <1>3, <2>1, <2>5, <2>6 DEF CallOK, StatusFits, UpdateFits, Prepared
  <2>8. Drives(t, j) /\ ~ Early(t) /\ \A i \in Jobs : Drives(t, i) => i = j
    BY <1>1, <1>2, <1>4, Called
  <2>9. QED  BY <1>1, <1>3, <2>4, <2>5, <2>7, <2>8, GotoStep
<1>7. QED  BY <1>2, <1>5, <1>6 DEF Provision

LEMMA FailReadKeeps ==
    ASSUME Inv, NEW t \in Threads, FailRead(t)
    PROVE  Inv'
<1>1. stack[t] # <<>> /\ Top(t).op = "fail"
  BY DEF FailRead, At, Top
<1>2. PICK j \in Jobs : j = Top(t).j
  BY <1>1, Called
<1>3. /\ job[j].status \in RetriableFailures /\ job[j].attempt \in Nat
      /\ job[j].lockKey \in BOOLEAN
      /\ UNCHANGED <<job, lk, run, answer, mints, pending, queuedIds>>
  BY <1>1, <1>2, Called DEF CallOK, StatusFits, JobType, FailRead, workers, queueVars
<1>4. Top(t).op \in Plain
  BY <1>1 DEF Plain
<1>5. ASSUME NEW y \in FrameType, Continue(t, <<y>>), y.j = j, y.op \in {"requeue", "bury"},
             y.op = "requeue" => y.a = job[j].attempt + 1
      PROVE  Inv'
  <2>1. stack'[t] = <<y>>
    BY <1>1, <1>4, <1>5, Goes, Joins, Called DEF Inv, Requests, Plain
  <2>2. Top(t)' = y
    BY <2>1, <1>5, OneCall
  <2>3. CallOK(t)'
    BY <1>3, <1>5, <2>2 DEF CallOK, StatusFits, UpdateFits, Prepared
  <2>4. QED  BY <1>1, <1>2, <1>3, <1>4, <1>5, <2>3, GotoOne DEF Plain
<1>6. CASE AttemptsLeft(job[j].attempt)
  <2> DEFINE y == [Call("requeue", j) EXCEPT !.a = job[j].attempt + 1]
  <2>1. Continue(t, <<y>>)
    BY <1>2, <1>6 DEF FailRead
  <2>2. y \in FrameType /\ y.j = j /\ y.op = "requeue" /\ y.a = job[j].attempt + 1
    <3>1. "requeue" \in CalmOps /\ job[j].attempt + 1 \in Nat
      BY <1>3 DEF CalmOps
    <3>2. Call("requeue", j) \in FrameType /\ Call("requeue", j).op = "requeue" /\ Call("requeue", j).j = j
      BY <3>1, Frames
    <3> HIDE DEF CalmOps
    <3>3. QED  BY <3>1, <3>2, WithAttempt
  <2> HIDE DEF y
  <2>3. QED  BY <1>5, <2>1, <2>2
<1>7. CASE ~ AttemptsLeft(job[j].attempt)
  <2> DEFINE y == [Call("bury", j) EXCEPT !.f = job[j].lockKey]
  <2>1. Continue(t, <<y>>)
    BY <1>2, <1>7 DEF FailRead
  <2>2. y \in FrameType /\ y.j = j /\ y.op = "bury"
    BY <1>3 DEF Call, NoFrame, FrameType, CalmOps, Statuses, JobOrNone, Locks
  <2> HIDE DEF y
  <2>3. QED  BY <1>5, <2>1, <2>2
<1>8. QED  BY <1>6, <1>7

(* To an update that the request, not a worker, makes of a DISPATCHING job. *)
LEMMA GotoUpdate ==
    ASSUME Inv, NEW t \in Threads, stack[t] # <<>>, Top(t).op \in {"resolve", "workflow"},
           NEW j \in Jobs, j = Top(t).j,
           NEW s \in {"STAGING", "DISPATCH_TIMEOUT", "DISPATCH_FAILED"},
           UNCHANGED <<job, lk, run, answer, mints, pending, queuedIds>>,
           Continue(t, <<Update(j, s)>>)
    PROVE  Inv'
<1>1. PICK y \in FrameType : /\ y = Update(j, s) /\ y.op = "update" /\ y.j = j /\ y.s = s
                             /\ y.k = 0
  BY Frames DEF Statuses, JobStatuses
<1>2. Continue(t, <<y>>)
  BY <1>1
<1>3. stack'[t] = <<y>>
  BY <1>2, Goes, Joins, Called DEF Inv, Requests
<1>4. Top(t)' = y
  BY <1>1, <1>3, OneCall
<1>5. job[j].status = "DISPATCHING"
  BY Called DEF CallOK, StatusFits
<1>6. CallOK(t)'
  BY <1>1, <1>4, <1>5 DEF CallOK, StatusFits, UpdateFits, Prepared
<1>7. QED  BY <1>1, <1>2, <1>6, GotoOne DEF Plain, WorkerStatuses

LEMMA ResolveDoneKeeps ==
    ASSUME Inv, NEW t \in Threads, ResolveDone(t)
    PROVE  Inv'
<1>1. stack[t] # <<>> /\ Top(t).op = "resolve"
  BY DEF ResolveDone, At, Top
<1>2. PICK j \in Jobs : j = Top(t).j
  BY <1>1, Called
<1>3. PICK s \in ResolveRunId(j) : Continue(t, <<Update(j, s)>>)
  BY <1>2 DEF ResolveDone
<1>4. s \in {"STAGING", "DISPATCH_TIMEOUT", "DISPATCH_FAILED"}
  BY DEF ResolveRunId
<1>5. UNCHANGED <<job, lk, run, answer, mints, pending, queuedIds>>
  BY DEF ResolveDone, workers, queueVars
<1>6. QED  BY <1>1, <1>2, <1>3, <1>4, <1>5, GotoUpdate

LEMMA WorkflowFailsKeeps ==
    ASSUME Inv, NEW t \in Threads, At(t, "workflow"),
           Continue(t, <<Update(Top(t).j, "DISPATCH_FAILED")>>),
           UNCHANGED <<job, lk, run, answer, mints, pending, queuedIds>>
    PROVE  Inv'
<1>1. stack[t] # <<>> /\ Top(t).op = "workflow"
  BY DEF At, Top
<1>2. PICK j \in Jobs : j = Top(t).j
  BY <1>1, Called
<1>3. Continue(t, <<Update(j, "DISPATCH_FAILED")>>)
  BY <1>2
<1>4. QED  BY <1>1, <1>2, <1>3, GotoUpdate

-----------------------------------------------------------------------------
(* Steps that write a row, but not for a worker *)

LEMMA WriteStep ==
    ASSUME Inv, NEW t \in Threads, NEW j \in Jobs, stack[t] # <<>>, Drives(t, j),
           ~ Early(t), ~ Early(t)', ~ Promoting(t)',
           NEW r \in JobType, job' = [job EXCEPT ![j] = r],
           UNCHANGED <<lk, run, answer, pending, queuedIds>>,
           stack' = [u \in Threads |-> stack'[u]],
           \A u \in Threads \ {t} : stack'[u] = stack[u],
           \/ r.cb = job[j].cb /\ mints' = mints
           \/ /\ r.cb = mints + 1 /\ mints' = mints + 1
              /\ \A u \in Threads : ~ (Serves(u) # 0 /\ At(u, "update") /\ Top(u).j = j),
           r.status \in BeforeWork,
           job[j].status # "COMPLETED", job[j].status = "BLOCKED" => Promoting(t),
           r.status \in Running =>
              /\ \A l \in Needs(j) : lk[l].owner = j
              /\ r.dep # NoJob => r.dep = job[j].dep /\ DepStatus(j) = "COMPLETED",
           \A id \in queuedIds : id[1] = j =>
              /\ id[2] <= r.attempt
              /\ r.status \in {"QUEUED", "BLOCKED"} => id[2] < r.attempt,
           r.status = "DISPATCHING" => Drives(t, j)',
           \A i \in Jobs : Drives(t, i)' => i = j,
           Form(stack[t])', (stack[t] # <<>> => CallOK(t))', ListOK(t)'
    PROVE  Inv'
<1>1. job'[j] = r /\ \A i \in Jobs \ {j} : job'[i] = job[i]
  BY DEF Inv, Stores
<1>2. mints \in Nat /\ mints' \in {mints, mints + 1}
  BY DEF Inv, Stores
<1>3. Stores'
  BY <1>2 DEF Inv, Stores
<1>4. \A i \in Jobs : Drives(t, i) => i = j
  BY DEF Drives
<1>5. Local(t, j)
  BY <1>1, <1>2, <1>4 DEF Local, Same
<1>6. JobOK(j)'
  <2>1. JobOK(j)
    BY DEF Inv, Project
  <2>2. r.cb <= mints' /\ r.status # "DEP_FAILED" /\ r.status # "NONE"
    BY <1>2, <2>1 DEF JobOK, BeforeWork
  <2>3. \A id \in pending : id[1] # j
    BY <2>1 DEF JobOK
  <2>4. r.status \in Running /\ r.dep # NoJob => DepStatus(j)' = "COMPLETED"
    BY <1>1, <1>5, CompletedKept, DependencyKept DEF Inv
  <2>5. QED  BY <1>1, <2>2, <2>3, <2>4 DEF JobOK, Needs
<1>7. QED  BY <1>3, <1>5, <1>6, PlainStep

LEMMA BlockWriteKeeps ==
    ASSUME Inv, NEW t \in Threads, BlockWrite(t)
    PROVE  Inv'
<1>1. stack[t] # <<>> /\ Top(t).op = "block"
  BY DEF BlockWrite, At, Top
<1>2. PICK j \in Jobs : j = Top(t).j
  BY <1>1, Called
<1>3. Drives(t, j) /\ ~ Early(t)
  BY <1>1, <1>2, Called DEF Plain
<1>4. job[j].status = "QUEUED" /\ JobOK(j) /\ job[j] \in JobType
  BY <1>1, <1>2, Called DEF CallOK, StatusFits
<1>5. PICK r \in JobType :
         /\ job' = [job EXCEPT ![j] = r] /\ r.status = "BLOCKED" /\ r.cb = job[j].cb
         /\ r.attempt = job[j].attempt
  <2> DEFINE r == [job[j] EXCEPT !.status = "BLOCKED"]
  <2>1. r \in JobType /\ r.status = "BLOCKED" /\ r.cb = job[j].cb /\ r.attempt = job[j].attempt
    BY <1>4 DEF JobType, Statuses, JobStatuses
  <2>2. job' = [job EXCEPT ![j] = r]
    BY <1>2 DEF BlockWrite
  <2>3. QED  BY <2>1, <2>2
<1>6. /\ stack' = [u \in Threads |-> stack'[u]] /\ stack'[t] = <<>>
      /\ \A u \in Threads \ {t} : stack'[u] = stack[u]
  BY <1>1, Goes, Joins, Called DEF Inv, Requests, BlockWrite
<1>7. UNCHANGED <<lk, run, answer, mints, pending, queuedIds>>
  BY DEF BlockWrite, workers, queueVars
<1>8. \A id \in queuedIds : id[1] = j => id[2] <= r.attempt /\ id[2] < r.attempt
  BY <1>4, <1>5 DEF JobOK
<1>9. QED
  BY <1>1, <1>3, <1>4, <1>5, <1>6, <1>7, <1>8, NoCall, WriteStep DEF BeforeWork, Running

(* To another attempt to dispatch the job. *)
LEMMA ToDispatch ==
    ASSUME Inv, NEW t \in Threads, stack[t] # <<>>, NEW j \in Jobs, j = Top(t).j,
           Top(t).op \in {"insert", "requeue", "unblock"},
           Continue(t, <<Call("dispatch", j)>>), job'[j].status = "QUEUED"
    PROVE  /\ stack' = [u \in Threads |-> stack'[u]]
           /\ \A u \in Threads \ {t} : stack'[u] = stack[u]
           /\ ~ Early(t)' /\ ~ Promoting(t)'
           /\ \A i \in Jobs : Drives(t, i)' => i = j
           /\ Form(stack[t])' /\ CallOK(t)' /\ ListOK(t)'
<1>1. PICK y \in FrameType : y = Call("dispatch", j) /\ y.op = "dispatch" /\ y.j = j
  BY Frames DEF CalmOps
<1>2. Continue(t, <<y>>)
  BY <1>1
<1>3. /\ stack' = [u \in Threads |-> stack'[u]] /\ stack'[t] = <<y>>
      /\ \A u \in Threads \ {t} : stack'[u] = stack[u]
  BY <1>2, Goes, Joins, Called DEF Inv, Requests
<1>4. /\ ~ Early(t)' /\ ~ Promoting(t)' /\ Form(stack[t])' /\ ListOK(t)' /\ Top(t)' = y
      /\ \A i \in Jobs : Drives(t, i)' => i = j
  BY <1>1, <1>3, OneCall
<1>5. CallOK(t)'
  BY <1>1, <1>4 DEF CallOK, StatusFits, UpdateFits, Prepared
<1>6. QED  BY <1>3, <1>4, <1>5

LEMMA RequeueKeeps ==
    ASSUME Inv, NEW t \in Threads, Requeue(t)
    PROVE  Inv'
<1>1. stack[t] # <<>> /\ Top(t).op = "requeue"
  BY DEF Requeue, At, Top
<1>2. PICK j \in Jobs : j = Top(t).j
  BY <1>1, Called
<1>3. Drives(t, j) /\ ~ Early(t)
  BY <1>1, <1>2, Called DEF Plain
<1>4. /\ job[j].status \in RetriableFailures /\ JobOK(j) /\ job[j] \in JobType
      /\ Top(t).a = job[j].attempt + 1
  BY <1>1, <1>2, Called DEF CallOK, StatusFits, Prepared
<1>5. job[j].attempt \in Nat
  BY <1>4 DEF JobType
<1>6. PICK r \in JobType :
         /\ job' = [job EXCEPT ![j] = r] /\ r.status = "QUEUED" /\ r.cb = job[j].cb
         /\ r.attempt = job[j].attempt + 1
  <2>1. PICK a \in Nat : a = job[j].attempt + 1
    BY <1>5
  <2> DEFINE r == [job[j] EXCEPT !.status = "QUEUED", !.attempt = a, !.done = FALSE]
  <2>2. r \in JobType /\ r.status = "QUEUED" /\ r.cb = job[j].cb /\ r.attempt = a
    BY <1>4 DEF JobType, Statuses, JobStatuses
  <2>3. job' = [job EXCEPT ![j] = r]
    BY <1>2, <1>4, <2>1 DEF Requeue
  <2>4. QED  BY <2>1, <2>2, <2>3
<1>7. job'[j].status = "QUEUED"
  BY <1>6 DEF Inv, Stores
<1>8. Continue(t, <<Call("dispatch", j)>>)
  BY <1>2 DEF Requeue
<1>9. UNCHANGED <<lk, run, answer, mints, pending, queuedIds>>
  BY DEF Requeue, workers, queueVars
<1>10. \A id \in queuedIds : id[1] = j => id[2] <= r.attempt /\ id[2] < r.attempt
  <2>1. \A id \in queuedIds : id[2] \in Nat
    BY DEF Inv, Stores
  <2>2. QED  BY <1>4, <1>5, <1>6, <2>1 DEF JobOK
<1>11. job[j].status # "COMPLETED" /\ job[j].status # "BLOCKED"
  BY <1>4 DEF RetriableFailures
<1>12. QED
  BY <1>1, <1>2, <1>3, <1>6, <1>7, <1>8, <1>9, <1>10, <1>11, ToDispatch, WriteStep
     DEF BeforeWork, Running

(* To the end of a job that had its lock. *)
LEMMA EndCall ==
    ASSUME NEW t \in Threads, NEW j \in Jobs, job'[j].status \in Terminal,
           \/ stack'[t] = <<Release("generation", j), Call("promote", j)>>
           \/ stack'[t] = <<Release("generation", j), Release("target-path", j),
                            Call("promote", j)>>
    PROVE  /\ ~ Early(t)' /\ ~ Promoting(t)'
           /\ \A i \in Jobs : Drives(t, i)' => i = j
           /\ Form(stack[t])' /\ CallOK(t)' /\ ListOK(t)' /\ stack'[t] # <<>>
<1>1. PICK x \in FrameType : x = Release("generation", j) /\ x.op = "release" /\ x.j = j
  BY Frames DEF Locks
<1>2. PICK y \in FrameType : y = Release("target-path", j) /\ y.op = "release" /\ y.j = j
  BY Frames DEF Locks
<1>3. PICK z \in FrameType : z = Call("promote", j) /\ z.op = "promote" /\ z.j = j
  BY Frames DEF CalmOps
<1>4. AfterRelease(z, j)
  BY <1>3 DEF AfterRelease
<1>5. stack'[t] = <<x, z>> \/ stack'[t] = <<x, y, z>>
  BY <1>1, <1>2, <1>3
<1>6. /\ Form(stack[t])' /\ stack'[t] # <<>> /\ Top(t)' = x /\ ListOK(t)'
      /\ \A k \in Jobs : Drives(t, k)' <=> k = j
      /\ ~ Early(t)' /\ ~ Promoting(t)'
  <2>1. CASE stack'[t] = <<x, z>>
    BY <1>1, <1>3, <1>4, <2>1, ReleaseCall
  <2>2. CASE stack'[t] = <<x, y, z>>
    BY <1>1, <1>2, <1>4, <2>2, ReleaseCall
  <2>3. QED  BY <1>5, <2>1, <2>2
<1>7. ReleasesToEnd(t)'
  <2>1. ASSUME stack'[t] = <<x, z>>
        PROVE  stack'[t][Len(stack'[t])] = z
    BY <2>1
  <2>2. ASSUME stack'[t] = <<x, y, z>>
        PROVE  stack'[t][Len(stack'[t])] = z
    BY <2>2
  <2>3. stack'[t][Len(stack'[t])] = z
    BY <1>5, <2>1, <2>2
  <2>4. QED  BY <1>3, <2>3 DEF ReleasesToEnd
<1>8. CallOK(t)'
  BY <1>1, <1>6, <1>7 DEF CallOK, StatusFits, UpdateFits, Prepared
<1>9. QED  BY <1>6, <1>8

LEMMA BuryKeeps ==
    ASSUME Inv, NEW t \in Threads, Bury(t)
    PROVE  Inv'
<1>1. stack[t] # <<>> /\ Top(t).op = "bury"
  BY DEF Bury, At, Top
<1>2. PICK j \in Jobs : j = Top(t).j
  BY <1>1, Called
<1>3. Drives(t, j) /\ ~ Early(t)
  BY <1>1, <1>2, Called DEF Plain
<1>4. job[j].status \in RetriableFailures /\ JobOK(j) /\ job[j] \in JobType
  BY <1>1, <1>2, Called DEF CallOK, StatusFits
<1>5. PICK r \in JobType :
         /\ job' = [job EXCEPT ![j] = r] /\ r.status = "DEAD_LETTER" /\ r.cb = job[j].cb
         /\ r.attempt = job[j].attempt
  <2> DEFINE r == [job[j] EXCEPT !.status = "DEAD_LETTER", !.done = TRUE]
  <2>1. r \in JobType /\ r.status = "DEAD_LETTER" /\ r.cb = job[j].cb
        /\ r.attempt = job[j].attempt
    BY <1>4 DEF JobType, Statuses, JobStatuses
  <2>2. job' = [job EXCEPT ![j] = r]
    BY <1>2 DEF Bury
  <2>3. QED  BY <2>1, <2>2
<1>6. job'[j].status \in Terminal
  BY <1>5 DEF Inv, Stores, Terminal
<1>7. UNCHANGED <<lk, run, answer, mints, pending, queuedIds>>
  BY DEF Bury, workers, queueVars
<1>8. /\ stack' = [u \in Threads |-> stack'[u]]
      /\ \A u \in Threads \ {t} : stack'[u] = stack[u]
      /\ ~ Early(t)' /\ ~ Promoting(t)'
      /\ \A i \in Jobs : Drives(t, i)' => i = j
      /\ Form(stack[t])' /\ (stack[t] # <<>> => CallOK(t))' /\ ListOK(t)'
  <2>1. CASE Top(t).f
    <3>1. Continue(t, <<Release("generation", j), Call("promote", j)>>)
      BY <1>2, <2>1 DEF Bury
    <3>2. /\ stack' = [u \in Threads |-> stack'[u]]
          /\ stack'[t] = <<Release("generation", j), Call("promote", j)>>
          /\ \A u \in Threads \ {t} : stack'[u] = stack[u]
      BY <1>1, <3>1, Goes, Joins, Called DEF Inv, Requests
    <3>3. QED  BY <1>6, <3>2, EndCall
  <2>2. CASE ~ Top(t).f
    <3>1. Continue(t, <<>>)
      BY <1>2, <2>2 DEF Bury
    <3>2. /\ stack' = [u \in Threads |-> stack'[u]] /\ stack'[t] = <<>>
          /\ \A u \in Threads \ {t} : stack'[u] = stack[u]
      BY <1>1, <3>1, Goes, Joins, Called DEF Inv, Requests
    <3>3. QED  BY <3>2, NoCall
  <2>3. QED  BY <2>1, <2>2
<1>9. \A id \in queuedIds : id[1] = j => id[2] <= r.attempt
  BY <1>4, <1>5 DEF JobOK
<1>10. job[j].status # "COMPLETED" /\ job[j].status # "BLOCKED"
  BY <1>4 DEF RetriableFailures
<1>11. QED
  BY <1>1, <1>3, <1>5, <1>7, <1>8, <1>9, <1>10, WriteStep DEF BeforeWork, Running

LEMMA PromoteWriteKeeps ==
    ASSUME Inv, NEW t \in Threads, PromoteWrite(t)
    PROVE  Inv'
<1>1. stack[t] # <<>> /\ Top(t).op = "unblock" /\ Promoting(t)
  BY DEF PromoteWrite, At, Top, Promoting
<1>2. PICK j \in Jobs : j = Top(t).j
  BY <1>1, Called
<1>3. Drives(t, j) /\ ~ Early(t)
  BY <1>1, <1>2, Called DEF Plain
<1>4. job[j].status = "BLOCKED" /\ JobOK(j) /\ job[j] \in JobType
  BY <1>1, <1>2, Called DEF CallOK, StatusFits
<1>5. PICK r \in JobType :
         /\ job' = [job EXCEPT ![j] = r] /\ r.status = "QUEUED" /\ r.cb = job[j].cb
         /\ r.attempt = job[j].attempt
  <2> DEFINE r == [job[j] EXCEPT !.status = "QUEUED", !.blockedBy = NoJob]
  <2>1. r \in JobType /\ r.status = "QUEUED" /\ r.cb = job[j].cb
        /\ r.attempt = job[j].attempt
    BY <1>4 DEF JobType, Statuses, JobStatuses, JobOrNone
  <2>2. job' = [job EXCEPT ![j] = r]
    BY <1>2 DEF PromoteWrite
  <2>3. QED  BY <2>1, <2>2
<1>6. job'[j].status = "QUEUED"
  BY <1>5 DEF Inv, Stores
<1>7. Continue(t, <<Call("dispatch", j)>>)
  BY <1>2 DEF PromoteWrite
<1>8. UNCHANGED <<lk, run, answer, mints, pending, queuedIds>>
  BY DEF PromoteWrite, workers, queueVars
<1>9. \A id \in queuedIds : id[1] = j => id[2] <= r.attempt /\ id[2] < r.attempt
  BY <1>4, <1>5 DEF JobOK
<1>10. QED
  BY <1>1, <1>2, <1>3, <1>4, <1>5, <1>6, <1>7, <1>8, <1>9, ToDispatch, WriteStep
     DEF BeforeWork, Running

LEMMA CreateInsertKeeps ==
    ASSUME Inv, NEW t \in Threads, CreateInsert(t)
    PROVE  Inv'
<1>1. stack[t] # <<>> /\ Top(t).op = "insert"
  BY DEF CreateInsert, At, Top
<1>2. PICK j \in Jobs : j = Top(t).j
  BY <1>1, Called
<1>3. Drives(t, j) /\ ~ Early(t)
  BY <1>1, <1>2, Called DEF Plain
<1>4. job[j].status = "NONE" /\ JobOK(j) /\ Top(t) \in FrameType
  BY <1>1, <1>2, Called DEF CallOK, StatusFits
<1>5. PICK r \in JobType :
         /\ job' = [job EXCEPT ![j] = r] /\ r.cb = 0
         /\ r.status = IF Top(t).f THEN "BLOCKED" ELSE "QUEUED"
  <2> DEFINE s == IF Top(t).f THEN "BLOCKED" ELSE "QUEUED"
             r == [NewRow EXCEPT !.status = s, !.dep = Top(t).b, !.blockedBy = Top(t).c]
  <2>1. s \in Statuses /\ Top(t).b \in JobOrNone /\ Top(t).c \in JobOrNone
    BY <1>4 DEF Statuses, JobStatuses, FrameType
  <2>2. job' = [job EXCEPT ![j] = r]
    BY <1>2 DEF CreateInsert
  <2> HIDE DEF s
  <2>3. r \in JobType /\ r.status = s /\ r.cb = 0
    BY <2>1 DEF JobType, NewRow
  <2>4. QED  BY <2>2, <2>3 DEF s
<1>6. job'[j] = r
  BY <1>5 DEF Inv, Stores
<1>7. UNCHANGED <<lk, run, answer, mints, pending, queuedIds>>
  BY DEF CreateInsert, workers, queueVars
<1>8. /\ stack' = [u \in Threads |-> stack'[u]]
      /\ \A u \in Threads \ {t} : stack'[u] = stack[u]
      /\ ~ Early(t)' /\ ~ Promoting(t)'
      /\ \A i \in Jobs : Drives(t, i)' => i = j
      /\ Form(stack[t])' /\ (stack[t] # <<>> => CallOK(t))' /\ ListOK(t)'
  <2>1. CASE ~ Top(t).f
    <3>1. Continue(t, <<Call("dispatch", j)>>)
      BY <1>2, <2>1 DEF CreateInsert
    <3>2. QED  BY <1>1, <1>2, <1>5, <1>6, <2>1, <3>1, ToDispatch
  <2>2. CASE Top(t).f
    <3>1. Continue(t, <<>>)
      BY <1>2, <2>2 DEF CreateInsert
    <3>2. /\ stack' = [u \in Threads |-> stack'[u]] /\ stack'[t] = <<>>
          /\ \A u \in Threads \ {t} : stack'[u] = stack[u]
      BY <1>1, <3>1, Goes, Joins, Called DEF Inv, Requests
    <3>3. QED  BY <3>2, NoCall
  <2>3. QED  BY <2>1, <2>2
<1>9. r.cb = job[j].cb /\ \A id \in queuedIds : id[1] # j
  BY <1>4, <1>5 DEF JobOK
<1>10. r.status \in BeforeWork /\ r.status \notin Running
  BY <1>5 DEF BeforeWork, Running
<1>11. r.status # "DISPATCHING"
  BY <1>5
<1>12. QED
  BY <1>1, <1>3, <1>4, <1>5, <1>7, <1>8, <1>9, <1>10, <1>11, WriteStep

(* The write of a status, and the calls it leads to. *)
LEMMA WriteCalls ==
    ASSUME Inv, NEW t \in Threads, UpdateWrite(t)
    PROVE  /\ stack[t] # <<>> /\ Top(t).op = "write"
           /\ \E j \in Jobs, r \in JobType :
                /\ j = Top(t).j /\ Drives(t, j)
                /\ job' = [job EXCEPT ![j] = r]
                /\ r.status = Top(t).s /\ r.cb = job[j].cb /\ r.attempt = job[j].attempt
                /\ r.dep = job[j].dep
                /\ \A i \in Jobs : Drives(t, i)' => i = j
           /\ stack' = [u \in Threads |-> stack'[u]]
           /\ \A u \in Threads \ {t} : stack'[u] = stack[u]
           /\ ~ Early(t)' /\ ~ Promoting(t)'
           /\ Form(stack[t])' /\ (stack[t] # <<>> => CallOK(t))' /\ ListOK(t)'
           /\ Top(t).s \notin RetriableFailures \cup Terminal => stack'[t] = <<>>
           /\ UNCHANGED <<lk, run, answer, mints, pending, queuedIds>>
<1>1. stack[t] # <<>> /\ Top(t).op = "write"
  BY DEF UpdateWrite, At, Top
<1>2. PICK j \in Jobs : j = Top(t).j
  BY <1>1, Called
<1>3. Drives(t, j) /\ job[j] \in JobType /\ Top(t) \in FrameType
  BY <1>1, <1>2, Called DEF Drives, Unchecked
<1>4. PICK r \in JobType :
         /\ job' = [job EXCEPT ![j] = r]
         /\ r.status = Top(t).s /\ r.cb = job[j].cb /\ r.attempt = job[j].attempt
         /\ r.dep = job[j].dep
  <2> DEFINE d == job[j].done \/ Top(t).s \in Terminal
             b == job[j].beat \/ Top(t).s \in {"STAGING", "VALIDATING", "COMMITTING"}
             r == [job[j] EXCEPT !.status = Top(t).s, !.done = d, !.beat = b]
  <2>1. d \in BOOLEAN /\ b \in BOOLEAN /\ Top(t).s \in Statuses
    BY <1>3 DEF FrameType
  <2>2. job' = [job EXCEPT ![j] = r]
    BY <1>2 DEF UpdateWrite
  <2> HIDE DEF d, b
  <2>3. /\ r \in JobType
        /\ r.status = Top(t).s /\ r.cb = job[j].cb /\ r.attempt = job[j].attempt
        /\ r.dep = job[j].dep
    BY <1>3, <2>1 DEF JobType
  <2>4. QED  BY <2>2, <2>3
<1>5. job'[j].status = Top(t).s
  BY <1>4 DEF Inv, Stores
<1>6. UNCHANGED <<lk, run, answer, mints, pending, queuedIds>>
  BY DEF UpdateWrite, workers, queueVars
<1>7. RetriableFailures \cap Terminal = {}
  BY DEF RetriableFailures, Terminal
<1>8. /\ stack' = [u \in Threads |-> stack'[u]]
      /\ \A u \in Threads \ {t} : stack'[u] = stack[u]
      /\ ~ Early(t)' /\ ~ Promoting(t)'
      /\ \A i \in Jobs : Drives(t, i)' => i = j
      /\ Form(stack[t])' /\ (stack[t] # <<>> => CallOK(t))' /\ ListOK(t)'
      /\ Top(t).s \notin RetriableFailures \cup Terminal => stack'[t] = <<>>
  <2>1. CASE Top(t).s \in RetriableFailures
    <3>1. PICK y \in FrameType : y = Call("fail", j) /\ y.op = "fail" /\ y.j = j
      BY Frames DEF CalmOps
    <3>2. Continue(t, <<y>>)
      BY <1>2, <1>7, <2>1, <3>1 DEF UpdateWrite
    <3>3. /\ stack' = [u \in Threads |-> stack'[u]] /\ stack'[t] = <<y>>
          /\ \A u \in Threads \ {t} : stack'[u] = stack[u]
      BY <1>1, <3>2, Goes, Joins, Called DEF Inv, Requests
    <3>4. /\ ~ Early(t)' /\ ~ Promoting(t)' /\ Form(stack[t])' /\ ListOK(t)' /\ Top(t)' = y
          /\ \A i \in Jobs : Drives(t, i)' => i = j
      BY <3>1, <3>3, OneCall
    <3>5. CallOK(t)'
      BY <1>5, <2>1, <3>1, <3>4 DEF CallOK, StatusFits, UpdateFits, Prepared
    <3>6. QED  BY <2>1, <3>3, <3>4, <3>5
  <2>2. CASE Top(t).s \in Terminal /\ Top(t).f
    <3>1. Continue(t, AfterTerminal(Top(t)))
      BY <1>7, <2>2 DEF UpdateWrite
    <3>2. \/ AfterTerminal(Top(t)) = <<Release("generation", j), Call("promote", j)>>
          \/ AfterTerminal(Top(t)) = <<Release("generation", j), Release("target-path", j),
                                       Call("promote", j)>>
      BY <1>2 DEF AfterTerminal
    <3>3. AfterTerminal(Top(t)) \o <<>> = AfterTerminal(Top(t))
      BY <3>2, Joins
    <3>4. /\ stack' = [u \in Threads |-> stack'[u]] /\ stack'[t] = AfterTerminal(Top(t))
          /\ \A u \in Threads \ {t} : stack'[u] = stack[u]
      BY <1>1, <3>1, <3>3, Goes, Called DEF Inv, Requests
    <3>5. QED  BY <1>5, <2>2, <3>2, <3>4, EndCall
  <2>3. CASE /\ Top(t).s \notin RetriableFailures
             /\ ~ (Top(t).s \in Terminal /\ Top(t).f)
    <3>1. Continue(t, <<>>)
      BY <2>3 DEF UpdateWrite
    <3>2. /\ stack' = [u \in Threads |-> stack'[u]] /\ stack'[t] = <<>>
          /\ \A u \in Threads \ {t} : stack'[u] = stack[u]
      BY <1>1, <3>1, Goes, Joins, Called DEF Inv, Requests
    <3>3. QED  BY <3>2, NoCall
  <2>4. QED  BY <2>1, <2>2, <2>3
<1>9. QED  BY <1>1, <1>2, <1>3, <1>4, <1>6, <1>8

(* A status that the request itself gives a DISPATCHING or QUEUED job. *)
LEMMA OwnWriteKeeps ==
    ASSUME Inv, NEW t \in Threads, UpdateWrite(t), ~ Early(t)
    PROVE  Inv'
<1>1. stack[t] # <<>> /\ Top(t).op = "write"
  BY WriteCalls
<1>2. PICK j \in Jobs, r \in JobType :
         /\ j = Top(t).j /\ Drives(t, j)
         /\ job' = [job EXCEPT ![j] = r]
         /\ r.status = Top(t).s /\ r.cb = job[j].cb /\ r.attempt = job[j].attempt
         /\ r.dep = job[j].dep
         /\ \A i \in Jobs : Drives(t, i)' => i = j
  BY WriteCalls
<1>3. CallOK(t) /\ JobOK(j)
  BY <1>1, <1>2, Called
<1>4. \/ Top(t).s = "DISPATCH_FAILED" /\ job[j].status \in {"QUEUED", "DISPATCHING"}
      \/ Top(t).s \in {"STAGING", "DISPATCH_TIMEOUT"} /\ job[j].status = "DISPATCHING"
  BY <1>1, <1>2, <1>3 DEF CallOK, UpdateFits, Early
<1>5. r.status \in Running => /\ \A l \in Needs(j) : lk[l].owner = j
                              /\ r.dep # NoJob => r.dep = job[j].dep /\ DepStatus(j) = "COMPLETED"
  BY <1>2, <1>3, <1>4 DEF JobOK, Running
<1>6. \A id \in queuedIds : id[1] = j => id[2] <= r.attempt
  BY <1>2, <1>3 DEF JobOK
<1>7. r.status \in BeforeWork /\ r.status \notin {"QUEUED", "BLOCKED", "DISPATCHING"}
  BY <1>2, <1>4 DEF BeforeWork
<1>8. job[j].status # "COMPLETED" /\ job[j].status # "BLOCKED"
  BY <1>4
<1>9. /\ stack' = [u \in Threads |-> stack'[u]]
      /\ \A u \in Threads \ {t} : stack'[u] = stack[u]
      /\ ~ Early(t)' /\ ~ Promoting(t)'
      /\ Form(stack[t])' /\ (stack[t] # <<>> => CallOK(t))' /\ ListOK(t)'
      /\ UNCHANGED <<lk, run, answer, mints, pending, queuedIds>>
  BY WriteCalls
<1>10. QED  BY <1>1, <1>2, <1>5, <1>6, <1>7, <1>8, <1>9, WriteStep

(* A status that a worker posted: the answer is on its way. *)
LEMMA WorkerWriteKeeps ==
    ASSUME Inv, NEW t \in Threads, UpdateWrite(t), Early(t)
    PROVE  Inv'
<1>1. stack[t] # <<>> /\ Top(t).op = "write" /\ Top(t).s \in WorkerStatuses
  BY WriteCalls DEF Early
<1>2. PICK j \in Jobs, r \in JobType :
         /\ j = Top(t).j /\ Drives(t, j)
         /\ job' = [job EXCEPT ![j] = r]
         /\ r.status = Top(t).s /\ r.cb = job[j].cb /\ r.attempt = job[j].attempt
         /\ r.dep = job[j].dep
         /\ \A i \in Jobs : Drives(t, i)' => i = j
  BY WriteCalls
<1>3. PICK n \in Mints : n = answer[t].n
  BY EarlyServes
<1>4. n # 0 /\ Top(t).s = answer[t].s /\ run[n].job = j /\ job[j].cb = n
  BY <1>2, <1>3, EarlyServes
<1>5. CallOK(t) /\ JobOK(j) /\ AnswerOK(t)
  BY <1>1, <1>2, Called
<1>6. /\ run[n].stage \notin {"none", "gone"} /\ answer[t].s \in Posts(n)
      /\ job[j].status = StatusAt(run[n].stage)
  BY <1>1, <1>2, <1>3, <1>4, <1>5 DEF CallOK, UpdateFits, AnswerOK, WorkerStatuses
<1>7. job[j].status \in {"STAGING"} \cup Accepted
  BY <1>6 DEF StatusAt, Accepted, Posts
<1>8. /\ stack' = [u \in Threads |-> stack'[u]]
      /\ \A u \in Threads \ {t} : stack'[u] = stack[u]
      /\ ~ Early(t)' /\ ~ Promoting(t)'
      /\ Form(stack[t])' /\ (stack[t] # <<>> => CallOK(t))' /\ ListOK(t)'
      /\ Top(t).s \notin RetriableFailures \cup Terminal => stack'[t] = <<>>
      /\ UNCHANGED <<lk, run, answer, mints, pending, queuedIds>>
  BY WriteCalls
<1>9. job'[j] = r /\ \A i \in Jobs \ {j} : job'[i] = job[i]
  BY <1>2 DEF Inv, Stores
<1>10. Stores'
  BY <1>2, <1>8 DEF Inv, Stores
<1>11. Local(t, j)
  <2>1. \A i \in Jobs : Drives(t, i) => i = j
    BY <1>2 DEF Drives
  <2>2. job[j].status # "COMPLETED" /\ job[j].status # "BLOCKED"
    BY <1>7 DEF Accepted
  <2>3. \A i \in Jobs \ {j} : Same(i)
    BY <1>9 DEF Same
  <2>4. job'[j].cb = job[j].cb
    BY <1>2, <1>9
  <2>5. /\ UNCHANGED <<lk, run, answer, mints, pending, queuedIds>> /\ ~ Promoting(t)'
        /\ Drives(t, j) /\ Early(t) /\ \A i \in Jobs : Drives(t, i)' => i = j
        /\ \A u \in Threads \ {t} : stack'[u] = stack[u]
    BY <1>2, <1>8
  <2>6. QED  BY <2>1, <2>2, <2>3, <2>4, <2>5 DEF Local
<1>12. AnswerOK(t)'
  <2>1. run'[n].stage \notin {"none", "gone"} /\ (answer[t].s \in Posts(n))'
    BY <1>6, <1>8 DEF Posts
  <2>2. StageAfter(answer[t].s) # "gone" => stack'[t] = <<>>
    BY <1>4, <1>8 DEF StageAfter, RetriableFailures, Terminal
  <2>3. job'[j].cb = n /\ job'[j].status = answer[t].s /\ run'[n].job = j
    BY <1>2, <1>4, <1>8, <1>9
  <2>4. answer'[t] = answer[t] /\ answer'[t].n = n /\ n # 0
    BY <1>3, <1>4, <1>8
  <2>5. /\ n # 0
        /\ run'[n].stage \notin {"none", "gone"} /\ (answer[t].s \in Posts(n))'
        /\ StageAfter(answer'[t].s) # "gone" =>
             stack'[t] = <<>> /\ job'[run'[n].job].cb = n
             /\ job'[run'[n].job].status = answer'[t].s
    BY <2>1, <2>2, <2>3, <2>4
  <2>6. (answer[t].n = n)'
    BY <2>4
  <2>7. QED  BY <1>8, <2>5, <2>6 DEF AnswerOK, StageAfter
<1>13. JobOK(j)'
  <2>1. r.status \notin {"DEP_FAILED", "NONE", "QUEUED", "BLOCKED", "DISPATCHING"}
    BY <1>1, <1>2 DEF WorkerStatuses
  <2>2. job[j].status \in Running
    BY <1>7 DEF Running, Accepted
  <2>3. r.dep # NoJob => DepStatus(j)' = "COMPLETED"
    <3>1. job'[j].dep = job[j].dep
      BY <1>2, <1>9
    <3>2. QED  BY <1>2, <1>5, <1>11, <2>2, <3>1, CompletedKept, DependencyKept DEF JobOK, Inv
  <2>4. \A id \in pending : id[1] # j
    BY <1>2, <1>5 DEF JobOK
  <2>5. QED  BY <1>2, <1>5, <1>8, <1>9, <2>1, <2>2, <2>3, <2>4 DEF JobOK, Needs
<1>14. OneEntry'
  BY <1>8 DEF Inv, Project, OneEntry
<1>15. WorkerOK(n)'
  <2>1. Answered(n)'
    BY <1>3, <1>8 DEF Answered
  <2>2. WorkerOK(n)
    BY DEF Inv, Project
  <2>3. QED  BY <1>8, <2>1, <2>2 DEF WorkerOK
<1>16. \A m \in Mints : \/ m = answer[t].n
                        \/ m = answer'[t].n
                        \/ At(t, "workflow") /\ Top(t).n = m
         => WorkerOK(m)'
  BY <1>1, <1>3, <1>8, <1>15 DEF At, Top
<1>17. QED  BY <1>8, <1>10, <1>11, <1>12, <1>13, <1>14, <1>16, StepKeeps

LEMMA MarkDispatchingKeeps ==
    ASSUME Inv, crossed' = {}, NEW t \in Threads, MarkDispatching(t)
    PROVE  Inv'
<1>1. stack[t] # <<>> /\ Top(t).op = "mark" /\ mints < MaxMints /\ mints \in Nat
  BY DEF MarkDispatching, At, Top, Inv, Stores
<1>2. PICK j \in Jobs : j = Top(t).j
  BY <1>1, Called
<1>3. Drives(t, j) /\ ~ Early(t)
  BY <1>1, <1>2, Called DEF Plain
<1>4. /\ job[j].status = "QUEUED" /\ JobOK(j) /\ job[j] \in JobType /\ Prepared(t)
      /\ Top(t) \in FrameType
  BY <1>1, <1>2, Called DEF CallOK, StatusFits
<1>5. \A u \in Threads : ~ (Serves(u) # 0 /\ At(u, "update") /\ Top(u).j = j)
  BY <1>2, Zenon DEF MarkDispatching, Unread
<1>6. PICK m \in Mints : m = mints + 1 /\ m \in Nat
  BY <1>1, LimitsAssumption DEF Mints
<1>7. PICK r \in JobType :
         /\ job' = [job EXCEPT ![j] = r] /\ r.status = "DISPATCHING" /\ r.cb = m
         /\ r.attempt = job[j].attempt /\ r.dep = job[j].dep
  <2> DEFINE g == job[j].target \/ j \in CrossJobs
             r == [job[j] EXCEPT !.status = "DISPATCHING", !.lockKey = TRUE, !.cb = m,
                                 !.target = g]
  <2>1. g \in BOOLEAN
    OBVIOUS
  <2>2. job' = [job EXCEPT ![j] = r]
    BY <1>2, <1>6 DEF MarkDispatching
  <2> HIDE DEF g
  <2>3. /\ r \in JobType /\ r.status = "DISPATCHING" /\ r.cb = m
        /\ r.attempt = job[j].attempt /\ r.dep = job[j].dep
    BY <1>4, <1>6, <2>1 DEF JobType, Statuses, JobStatuses
  <2>4. QED  BY <2>2, <2>3
<1>8. job'[j] = r
  BY <1>7 DEF Inv, Stores
<1>9. PICK y \in FrameType :
         /\ Continue(t, <<y>>) /\ y.op = "workflow" /\ y.j = j /\ y.n = m /\ y.a = Top(t).a
  <2> DEFINE y == [Top(t) EXCEPT !.op = "workflow", !.n = m]
  <2>1. y \in FrameType /\ y.op = "workflow" /\ y.j = j /\ y.n = m /\ y.a = Top(t).a
    BY <1>2, <1>4, <1>6 DEF FrameType, CalmOps
  <2>2. Continue(t, <<y>>)
    BY <1>6 DEF MarkDispatching
  <2>3. QED  BY <2>1, <2>2
<1>10. /\ stack' = [u \in Threads |-> stack'[u]] /\ stack'[t] = <<y>>
       /\ \A u \in Threads \ {t} : stack'[u] = stack[u]
  BY <1>1, <1>9, Goes, Joins, Called DEF Inv, Requests
<1>11. /\ ~ Early(t)' /\ ~ Promoting(t)' /\ Form(stack[t])' /\ ListOK(t)' /\ Top(t)' = y
       /\ Drives(t, j)' /\ \A i \in Jobs : Drives(t, i)' => i = j
  BY <1>9, <1>10, OneCall DEF Unchecked
<1>12. UNCHANGED <<lk, run, answer, pending, queuedIds>> /\ mints' = mints + 1
  BY DEF MarkDispatching, workers, queueVars
<1>13. \A id \in queuedIds : id[1] = j => id[2] <= r.attempt /\ id[2] < r.attempt
  BY <1>4, <1>7 DEF JobOK
<1>14. run[m].stage = "none"
  BY <1>1, <1>6 DEF Inv, Project, WorkerOK
<1>15. CallOK(t)'
  <2>1. StatusFits(t)' /\ UpdateFits(t)'
    BY <1>7, <1>8, <1>9, <1>11 DEF StatusFits, UpdateFits
  <2>2. y.a = r.attempt
    BY <1>1, <1>2, <1>4, <1>7, <1>9 DEF Prepared
  <2>3. Prepared(t)'
    BY <1>7, <1>8, <1>9, <1>11, <1>12, <1>13, <1>14, <2>2 DEF Prepared
  <2>4. QED  BY <2>1, <2>3 DEF CallOK
<1>16. /\ \A l \in Needs(j) : lk[l].owner = j
       /\ r.dep # NoJob => r.dep = job[j].dep /\ DepStatus(j) = "COMPLETED"
  BY <1>1, <1>2, <1>4, <1>7 DEF Prepared, Needs, Locks
<1>17. QED
  BY <1>1, <1>3, <1>4, <1>5, <1>6, <1>7, <1>10, <1>11, <1>12, <1>13, <1>15, <1>16, WriteStep
     DEF BeforeWork

-----------------------------------------------------------------------------
(* Steps that take or give back a lock *)

LEMMA LockStep ==
    ASSUME Inv, NEW t \in Threads, NEW j \in Jobs, stack[t] # <<>>, Drives(t, j),
           job[j].status \notin Running,
           UNCHANGED <<job, run, answer, mints, pending, queuedIds>>,
           NEW l \in Locks, NEW v \in LockType, lk' = [lk EXCEPT ![l] = v],
           \A i \in Jobs \ {j} : lk[l].owner = i => v.owner = i,
           stack' = [u \in Threads |-> stack'[u]],
           \A u \in Threads \ {t} : stack'[u] = stack[u],
           ~ Early(t), ~ Early(t)', ~ Promoting(t)',
           Form(stack[t])', (stack[t] # <<>> => CallOK(t))', ListOK(t)',
           \A i \in Jobs : Drives(t, i)' => i = j
    PROVE  Inv'
<1>1. lk'[l] = v /\ \A k \in Locks \ {l} : lk'[k] = lk[k]
  BY DEF Inv, Stores
<1>2. Stores'
  BY DEF Inv, Stores
<1>3. \A i \in Jobs : Drives(t, i) => i = j
  BY DEF Drives
<1>4. Local(t, j)
  BY <1>1, <1>3 DEF Local, Same, Inv, Stores
<1>5. JobOK(j)'
  <2>1. JobOK(j)
    BY DEF Inv, Project
  <2>2. \A id \in pending : id[1] # j
    BY <2>1 DEF JobOK
  <2>3. job[j].status # "DISPATCHING"
    BY DEF Running
  <2>4. QED  BY <2>1, <2>2, <2>3 DEF JobOK
<1>6. QED  BY <1>2, <1>4, <1>5, PlainStep

LEMMA LockFacts ==
    ASSUME Stores, NEW l \in Locks, NEW j \in Jobs
    PROVE  /\ Released(l, j) \in LockType
           /\ \A i \in Jobs \ {j} : lk[l].owner = i => Released(l, j).owner = i
           /\ Acquired(l, j) \in LockType /\ Acquired(l, j).owner = j
           /\ CanAcquire(l, j) => \A i \in Jobs \ {j} : lk[l].owner # i
<1>1. lk[l] \in LockType /\ NoJob \in JobOrNone /\ j \in JobOrNone /\ NoJob \notin Jobs
  BY JobsAssumption DEF Stores, JobOrNone
<1>2. Released(l, j) \in LockType
  BY <1>1 DEF Released, LockType
<1>3. \A i \in Jobs \ {j} : lk[l].owner = i => Released(l, j).owner = i
  BY DEF Released
<1>4. IssuedToken(l, j) \in Nat
  BY <1>1 DEF IssuedToken, LockType
<1>5. Acquired(l, j) \in LockType /\ Acquired(l, j).owner = j
  <2>1. PICK k \in Nat : k = IssuedToken(l, j)
    BY <1>4
  <2>2. lk[l].ctr \in Nat
    BY <1>1 DEF LockType
  <2>3. PICK c \in Nat : c = IF k > lk[l].ctr THEN k ELSE lk[l].ctr
    BY <2>2
  <2>4. Acquired(l, j) = [owner |-> j, tok |-> k, ctr |-> c, lastOwner |-> j, lastTok |-> k,
                          row |-> j]
    BY <2>1, <2>3 DEF Acquired
  <2>5. QED  BY <1>1, <2>4 DEF LockType
<1>6. CanAcquire(l, j) => \A i \in Jobs \ {j} : lk[l].owner # i
  BY <1>1 DEF CanAcquire
<1>7. QED  BY <1>2, <1>3, <1>5, <1>6

LEMMA LockGenerationKeeps ==
    ASSUME Inv, NEW t \in Threads, LockGeneration(t)
    PROVE  Inv'
<1>1. stack[t] # <<>> /\ Top(t).op = "lock"
  BY DEF LockGeneration, At, Top
<1>2. PICK j \in Jobs : j = Top(t).j
  BY <1>1, Called
<1>3. Drives(t, j) /\ ~ Early(t)
  BY <1>1, <1>2, Called DEF Plain
<1>4. job[j].status = "QUEUED" /\ Prepared(t) /\ Top(t) \in FrameType
  BY <1>1, <1>2, Called DEF CallOK, StatusFits
<1>5. UNCHANGED <<job, run, answer, mints, pending, queuedIds>>
  BY DEF LockGeneration, workers, queueVars
<1>6. "generation" \in Locks
  BY DEF Locks
<1>7. CASE ~ CanAcquire("generation", j)
  <2>1. UNCHANGED lk /\ Continue(t, <<Call("block", j)>>)
    BY <1>2, <1>7 DEF LockGeneration
  <2>2. PICK y \in FrameType : y = Call("block", j) /\ y.op = "block" /\ y.j = j
    BY Frames DEF CalmOps
  <2>3. Continue(t, <<y>>)
    BY <2>1, <2>2
  <2>4. stack'[t] = <<y>>
    BY <1>1, <2>3, Goes, Joins, Called DEF Inv, Requests
  <2>5. Top(t)' = y
    BY <2>2, <2>4, OneCall
  <2>6. CallOK(t)'
    BY <1>4, <1>5, <2>2, <2>5 DEF CallOK, StatusFits, UpdateFits, Prepared
  <2>7. QED  BY <1>1, <1>2, <1>5, <2>1, <2>2, <2>3, <2>6, GotoOne DEF Plain
<1>8. CASE CanAcquire("generation", j)
  <2> DEFINE op == IF j \in CrossJobs THEN "locktarget" ELSE "mark"
             k == IssuedToken("generation", j)
             v == Acquired("generation", j)
  <2>1. k \in Nat
    <3>1. lk["generation"] \in LockType
      BY <1>6 DEF Inv, Stores
    <3>2. QED  BY <3>1 DEF IssuedToken, LockType
  <2>2. lk' = [lk EXCEPT !["generation"] = v] /\ Continue(t, <<[Top(t) EXCEPT !.op = op, !.k = k]>>)
    BY <1>2, <1>8 DEF LockGeneration
  <2>3. v \in LockType /\ v.owner = j /\ \A i \in Jobs \ {j} : lk["generation"].owner # i
    BY <1>6, <1>8, LockFacts DEF Inv
  <2>4. op \in CalmOps /\ op \in {"locktarget", "mark"} /\ (op = "mark" => j \notin CrossJobs)
    BY DEF CalmOps
  <2> HIDE DEF op, k, v
  <2>5. PICK y \in FrameType :
           Continue(t, <<y>>) /\ y.op = op /\ y.j = j /\ y.a = Top(t).a
    <3> DEFINE y == [Top(t) EXCEPT !.op = op, !.k = k]
    <3>1. y \in FrameType /\ y.op = op /\ y.j = j /\ y.a = Top(t).a
      BY <1>2, <1>4, <2>1, <2>4 DEF FrameType
    <3>2. QED  BY <2>2, <3>1
  <2>6. /\ stack' = [u \in Threads |-> stack'[u]] /\ stack'[t] = <<y>>
        /\ \A u \in Threads \ {t} : stack'[u] = stack[u]
    BY <1>1, <2>5, Goes, Joins, Called DEF Inv, Requests
  <2>7. /\ ~ Early(t)' /\ ~ Promoting(t)' /\ Form(stack[t])' /\ ListOK(t)' /\ Top(t)' = y
        /\ \A i \in Jobs : Drives(t, i)' => i = j
    BY <2>4, <2>5, <2>6, OneCall
  <2>8. lk'["generation"].owner = j
    BY <1>6, <2>2, <2>3 DEF Inv, Stores
  <2>9. StatusFits(t)' /\ UpdateFits(t)'
    BY <1>4, <1>5, <2>4, <2>5, <2>7 DEF StatusFits, UpdateFits
  <2>10. job[j].dep # NoJob => DepStatus(j)' = "COMPLETED"
    BY <1>1, <1>2, <1>4, <1>5 DEF Prepared, DepStatus
  <2>11. Prepared(t)'
    BY <1>1, <1>2, <1>4, <1>5, <2>4, <2>5, <2>7, <2>8, <2>10 DEF Prepared
  <2>12. QED
    BY <1>1, <1>3, <1>4, <1>5, <1>6, <2>2, <2>3, <2>6, <2>7, <2>9, <2>11, LockStep
       DEF CallOK, Running
<1>9. QED  BY <1>7, <1>8

LEMMA LockTargetKeeps ==
    ASSUME Inv, NEW t \in Threads, LockTarget(t)
    PROVE  Inv'
<1>1. stack[t] # <<>> /\ Top(t).op = "locktarget"
  BY DEF LockTarget, At, Top
<1>2. PICK j \in Jobs : j = Top(t).j
  BY <1>1, Called
<1>3. Drives(t, j) /\ ~ Early(t)
  BY <1>1, <1>2, Called DEF Plain
<1>4. job[j].status = "QUEUED" /\ Prepared(t) /\ Top(t) \in FrameType
  BY <1>1, <1>2, Called DEF CallOK, StatusFits
<1>5. UNCHANGED <<job, run, answer, mints, pending, queuedIds>>
  BY DEF LockTarget, workers, queueVars
<1>6. "generation" \in Locks /\ "target-path" \in Locks
  BY DEF Locks
<1>7. CASE ~ CanAcquire("target-path", j)
  <2>1. UNCHANGED lk /\ Continue(t, <<Release("generation", j), Call("block", j)>>)
    BY <1>2, <1>7 DEF LockTarget
  <2>2. PICK x \in FrameType : x = Release("generation", j) /\ x.op = "release" /\ x.j = j
    BY <1>6, Frames
  <2>3. PICK y \in FrameType : y = Call("block", j) /\ y.op = "block" /\ y.j = j
    BY Frames DEF CalmOps
  <2>4. /\ stack' = [u \in Threads |-> stack'[u]] /\ stack'[t] = <<x, y>>
        /\ \A u \in Threads \ {t} : stack'[u] = stack[u]
    BY <1>1, <2>1, <2>2, <2>3, Goes, Joins, Called DEF Inv, Requests
  <2>5. /\ Form(stack[t])' /\ stack'[t] # <<>> /\ Top(t)' = x /\ ListOK(t)'
        /\ \A k \in Jobs : Drives(t, k)' <=> k = j
        /\ ~ Early(t)' /\ ~ Promoting(t)'
    BY <2>2, <2>3, <2>4, ReleaseCall DEF AfterRelease
  <2>6. ~ ReleasesToEnd(t)'
    BY <2>3, <2>4, Tuples DEF ReleasesToEnd
  <2>7. CallOK(t)'
    BY <1>4, <1>5, <2>2, <2>5, <2>6 DEF CallOK, StatusFits, UpdateFits, Prepared
  <2>8. \A i \in Jobs : Drives(t, i) => i = j
    BY <1>2 DEF Drives
  <2>9. QED  BY <1>1, <1>3, <1>5, <2>1, <2>4, <2>5, <2>7, <2>8, GotoStep
<1>8. CASE CanAcquire("target-path", j)
  <2> DEFINE v == Acquired("target-path", j)
  <2>1. lk' = [lk EXCEPT !["target-path"] = v] /\ Continue(t, <<[Top(t) EXCEPT !.op = "provision"]>>)
    BY <1>2, <1>8 DEF LockTarget
  <2>2. v \in LockType /\ v.owner = j /\ \A i \in Jobs \ {j} : lk["target-path"].owner # i
    BY <1>6, <1>8, LockFacts DEF Inv
  <2> HIDE DEF v
  <2>3. PICK y \in FrameType :
           Continue(t, <<y>>) /\ y.op = "provision" /\ y.j = j /\ y.a = Top(t).a
    <3> DEFINE y == [Top(t) EXCEPT !.op = "provision"]
    <3>1. y \in FrameType /\ y.op = "provision" /\ y.j = j /\ y.a = Top(t).a
      BY <1>2, <1>4 DEF FrameType, CalmOps
    <3>2. QED  BY <2>1, <3>1
  <2>4. /\ stack' = [u \in Threads |-> stack'[u]] /\ stack'[t] = <<y>>
        /\ \A u \in Threads \ {t} : stack'[u] = stack[u]
    BY <1>1, <2>3, Goes, Joins, Called DEF Inv, Requests
  <2>5. /\ ~ Early(t)' /\ ~ Promoting(t)' /\ Form(stack[t])' /\ ListOK(t)' /\ Top(t)' = y
        /\ \A i \in Jobs : Drives(t, i)' => i = j
    BY <2>3, <2>4, OneCall
  <2>6. lk'["target-path"].owner = j /\ lk'["generation"].owner = j
    BY <1>1, <1>2, <1>4, <1>6, <2>1, <2>2 DEF Inv, Stores, Prepared
  <2>7. StatusFits(t)' /\ UpdateFits(t)'
    BY <1>4, <1>5, <2>3, <2>5 DEF StatusFits, UpdateFits
  <2>8. job[j].dep # NoJob => DepStatus(j)' = "COMPLETED"
    BY <1>1, <1>2, <1>4, <1>5 DEF Prepared, DepStatus
  <2>9. Prepared(t)'
    BY <1>1, <1>2, <1>4, <1>5, <2>3, <2>5, <2>6, <2>8 DEF Prepared
  <2>10. QED
    BY <1>1, <1>3, <1>4, <1>5, <1>6, <2>1, <2>2, <2>4, <2>5, <2>7, <2>9, LockStep
       DEF CallOK, Running
<1>9. QED  BY <1>7, <1>8

LEMMA ReleaseLockKeeps ==
    ASSUME Inv, NEW t \in Threads, ReleaseLock(t)
    PROVE  Inv'
<1>1. stack[t] # <<>> /\ Top(t).op = "release"
  BY DEF ReleaseLock, At, Top
<1>2. PICK j \in Jobs : j = Top(t).j
  BY <1>1, Called
<1>3. Drives(t, j) /\ ~ Early(t)
  BY <1>1, <1>2 DEF Drives, Unchecked, Early
<1>4. Top(t) \in FrameType /\ StatusFits(t) /\ JobOK(j)
  BY <1>1, <1>2, Called DEF CallOK
<1>5. /\ job[j].status \in IF ReleasesToEnd(t) THEN Terminal ELSE {"QUEUED"}
      /\ job[j].status \notin Running
  BY <1>1, <1>2, <1>4 DEF StatusFits, Running, Terminal
<1>6. UNCHANGED <<job, run, answer, mints, pending, queuedIds>>
  BY DEF ReleaseLock, workers, queueVars
<1>7. PICK l \in Locks, v \in LockType :
         /\ lk' = [lk EXCEPT ![l] = v]
         /\ \A i \in Jobs \ {j} : lk[l].owner = i => v.owner = i
  <2>1. Top(t).l \in Locks
    BY <1>4 DEF FrameType
  <2>2. lk' = [lk EXCEPT ![Top(t).l] = Released(Top(t).l, j)]
    BY <1>2 DEF ReleaseLock
  <2>3. QED  BY <2>1, <2>2, LockFacts DEF Inv
<1>8. CASE \E y \in FrameType : stack[t] = <<Top(t), y>> /\ AfterRelease(y, j)
  <2>1. PICK y \in FrameType : stack[t] = <<Top(t), y>> /\ AfterRelease(y, j)
    BY <1>8
  <2>2. /\ stack' = [u \in Threads |-> stack'[u]] /\ stack'[t] = <<y>>
        /\ \A u \in Threads \ {t} : stack'[u] = stack[u]
    <3>1. Tail(stack[t]) = <<y>>
      BY <2>1, Tuples
    <3>2. QED  BY <3>1, Joins DEF ReleaseLock, Continue, Inv, Stores
  <2>3. ReleasesToEnd(t) <=> y.op = "promote"
    BY <2>1, Tuples DEF ReleasesToEnd
  <2>4. y.j = j /\ \/ y.op \in {"block", "promote"}
                   \/ y.op = "update" /\ y.s = "DISPATCH_FAILED" /\ y.k = 0
    BY <2>1 DEF AfterRelease
  <2>5. /\ Form(stack[t])' /\ stack'[t] # <<>> /\ Top(t)' = y /\ ListOK(t)'
        /\ ~ Early(t)' /\ ~ Promoting(t)' /\ \A i \in Jobs : Drives(t, i)' => i = j
    BY <2>2, <2>4, OneCall DEF WorkerStatuses
  <2>6. y.op # "promote" => job[j].status = "QUEUED"
    BY <1>5, <2>3
  <2>7. CallOK(t)'
    BY <1>6, <2>4, <2>5, <2>6 DEF CallOK, StatusFits, UpdateFits, Prepared
  <2>8. QED
    BY <1>1, <1>3, <1>5, <1>6, <1>7, <2>2, <2>5, <2>7, LockStep
<1>9. CASE \E y, z \in FrameType :
              /\ stack[t] = <<Top(t), y, z>> /\ y.op = "release" /\ y.j = j
              /\ AfterRelease(z, j)
  <2>1. PICK y \in FrameType, z \in FrameType :
              /\ stack[t] = <<Top(t), y, z>> /\ y.op = "release" /\ y.j = j
              /\ AfterRelease(z, j)
    BY <1>9
  <2>2. /\ stack' = [u \in Threads |-> stack'[u]] /\ stack'[t] = <<y, z>>
        /\ \A u \in Threads \ {t} : stack'[u] = stack[u]
    <3>1. Tail(stack[t]) = <<y, z>>
      BY <2>1, Tuples
    <3>2. QED  BY <3>1, Joins DEF ReleaseLock, Continue, Inv, Stores
  <2>3. ReleasesToEnd(t)' <=> ReleasesToEnd(t)
    <3>1. ReleasesToEnd(t) <=> z.op = "promote"
      BY <2>1, Tuples DEF ReleasesToEnd
    <3>2. ReleasesToEnd(t)' <=> z.op = "promote"
      BY <2>2, Tuples DEF ReleasesToEnd
    <3>3. QED  BY <3>1, <3>2
  <2>4. /\ Form(stack[t])' /\ stack'[t] # <<>> /\ Top(t)' = y /\ ListOK(t)'
        /\ ~ Early(t)' /\ ~ Promoting(t)' /\ \A i \in Jobs : Drives(t, i)' => i = j
    BY <2>1, <2>2, ReleaseCall
  <2>5. CallOK(t)'
    BY <1>5, <1>6, <2>1, <2>3, <2>4 DEF CallOK, StatusFits, UpdateFits, Prepared
  <2>6. QED
    BY <1>1, <1>3, <1>5, <1>6, <1>7, <2>2, <2>4, <2>5, LockStep
<1>10. QED
  <2>1. Form(stack[t])
    BY DEF Inv, Requests
  <2>2. QED  BY <1>1, <1>2, <1>8, <1>9, <2>1, Shape

-----------------------------------------------------------------------------
(* Steps after which a request drives another job *)

(* A worker's write is never of a job that does not exist or is blocked. *)
LEMMA WriterStatus ==
    ASSUME Inv, NEW t \in Threads, stack[t] # <<>>, Top(t).op = "write"
    PROVE  job[Top(t).j].status \notin {"NONE", "BLOCKED"}
<1>1. CallOK(t)
  BY Called
<1>2. CASE Top(t).s \in WorkerStatuses
  <2>1. Early(t)
    BY <1>2 DEF Early
  <2>2. answer[t].n # 0 /\ AnswerOK(t) /\ answer[t].n \in Mints
    BY <2>1, EarlyServes DEF Inv, Requests
  <2>3. run[answer[t].n].stage \in Stages \ {"none", "gone"}
    BY <2>2 DEF AnswerOK, Inv, Stores
  <2>4. job[Top(t).j].status = StatusAt(run[answer[t].n].stage)
    BY <1>1, <1>2 DEF CallOK, UpdateFits, WorkerStatuses
  <2>5. QED  BY <2>3, <2>4 DEF StatusAt, Stages
<1>3. CASE Top(t).s \notin WorkerStatuses
  BY <1>1, <1>3 DEF CallOK, UpdateFits
<1>4. QED  BY <1>2, <1>3

LEMMA NewDriver ==
    ASSUME Inv, NEW t \in Threads, NEW j \in Jobs, Drives(t, j)
    PROVE  /\ job[j].status = "NONE" => At(t, "slot") \/ At(t, "insert")
           /\ job[j].status = "BLOCKED" => Promoting(t)
<1>1. stack[t] # <<>> /\ Top(t).j = j /\ ~ Unchecked(Top(t))
      /\ Top(t).op \notin {"promote", "promotenext"}
  BY DEF Drives
<1>2. Top(t).op \in CalmOps /\ CallOK(t)
  BY <1>1, Called DEF FrameType
<1>3. Top(t).op = "write" => job[j].status \notin {"NONE", "BLOCKED"}
  BY <1>1, WriterStatus
<1>4. ASSUME job[j].status = "NONE" PROVE At(t, "slot") \/ At(t, "insert")
  <2>1. Top(t).op \in {"slot", "insert"}
    BY <1>1, <1>2, <1>3, <1>4
       DEF CallOK, StatusFits, UpdateFits, Unchecked, CalmOps, RetriableFailures, Terminal
  <2>2. QED  BY <1>1, <2>1 DEF At, Top
<1>5. ASSUME job[j].status = "BLOCKED" PROVE Promoting(t)
  <2>1. Top(t).op = "unblock" \/ (Top(t).op = "update" /\ Tail(stack[t]) # <<>>)
    BY <1>1, <1>2, <1>3, <1>5
       DEF CallOK, StatusFits, UpdateFits, Unchecked, CalmOps, RetriableFailures, Terminal
  <2>2. Form(stack[t])
    BY DEF Inv, Requests
  <2>3. Top(t).op = "update" /\ Tail(stack[t]) # <<>> => stack[t] # <<Top(t)>>
    BY Tuples
  <2>4. QED  BY <1>1, <2>1, <2>2, <2>3, Promotes
<1>6. QED  BY <1>4, <1>5

LEMMA NoPending ==
    ASSUME Inv, NEW j \in Jobs, job[j].status # "DISPATCHING"
    PROVE  \A id \in pending : id[1] # j
  BY DEF Inv, Project, JobOK

LEMMA CreateReadKeeps ==
    ASSUME Inv, NEW t \in Threads, NEW j \in Jobs, NEW d \in JobOrNone, CreateRead(t, j, d)
    PROVE  Inv'
<1>1. /\ job[j].status = "NONE" /\ stack[t] = <<>> /\ answer[t] = NoAnswer
      /\ \A u \in Threads : ~ ((At(u, "slot") \/ At(u, "insert")) /\ Top(u).j = j)
      /\ UNCHANGED <<job, lk, run, answer, mints, pending, queuedIds>>
  BY DEF CreateRead, Exists, Start, Idle, workers, queueVars
<1>2. PICK y \in FrameType : /\ stack' = [stack EXCEPT ![t] = <<y>>]
                             /\ y.op = "slot" /\ y.j = j
  <2> DEFINE f == d # NoJob /\ DependencyGate(job[d].status) = "block_dependency"
             y == [Call("slot", j) EXCEPT !.b = d, !.f = f]
  <2>1. f \in BOOLEAN
    OBVIOUS
  <2>2. stack' = [stack EXCEPT ![t] = <<y>>]
    BY DEF CreateRead, Start
  <2> HIDE DEF f
  <2>3. y \in FrameType /\ y.op = "slot" /\ y.j = j
    BY <2>1 DEF Call, NoFrame, FrameType, CalmOps, Statuses, Locks, JobOrNone
  <2>4. QED  BY <2>2, <2>3
<1>3. /\ stack' = [u \in Threads |-> stack'[u]] /\ stack'[t] = <<y>>
      /\ \A u \in Threads \ {t} : stack'[u] = stack[u]
  BY <1>2 DEF Inv, Stores
<1>4. /\ ~ Early(t)' /\ ~ Promoting(t)' /\ Form(stack[t])' /\ ListOK(t)' /\ Top(t)' = y
      /\ \A i \in Jobs : Drives(t, i)' <=> i = j
  BY <1>2, <1>3, OneCall DEF Unchecked
<1>5. CallOK(t)'
  BY <1>1, <1>2, <1>4 DEF CallOK, StatusFits, UpdateFits, Prepared
<1>6. /\ \A u \in Threads : ~ Drives(u, j)
      /\ \A id \in pending : id[1] # j
  <2>1. ASSUME NEW u \in Threads, Drives(u, j)
        PROVE  FALSE
    <3>1. Top(u).j = j
      BY <2>1 DEF Drives
    <3>2. QED  BY <1>1, <2>1, <3>1, NewDriver
  <2>2. QED  BY <1>1, <2>1, NoPending
<1>7. ~ Early(t) /\ \A i \in Jobs : ~ Drives(t, i)
  BY <1>1 DEF Early, Drives
<1>8. QED  BY <1>1, <1>3, <1>4, <1>5, <1>6, <1>7, GotoStep

LEMMA SlotReadKeeps ==
    ASSUME Inv, NEW t \in Threads, SlotRead(t)
    PROVE  Inv'
<1>1. stack[t] # <<>> /\ Top(t).op = "slot"
      /\ UNCHANGED <<job, lk, run, answer, mints, pending, queuedIds>>
  BY DEF SlotRead, At, Top, workers, queueVars
<1>2. Top(t) \in FrameType /\ job[Top(t).j].status = "NONE"
  BY <1>1, Called DEF CallOK, StatusFits
<1>3. PICK y \in FrameType : Continue(t, <<y>>) /\ y.op = "insert" /\ y.j = Top(t).j
  <2>1. PICK i \in First(Active) :
           Continue(t, <<[Top(t) EXCEPT !.op = "insert", !.c = i, !.f = @ \/ i # NoJob]>>)
    BY DEF SlotRead
  <2> DEFINE f == Top(t).f \/ i # NoJob
             y == [Top(t) EXCEPT !.op = "insert", !.c = i, !.f = f]
  <2>2. i \in JobOrNone
    BY DEF First, Active, JobOrNone
  <2>3. f \in BOOLEAN
    OBVIOUS
  <2>4. Continue(t, <<y>>)
    BY <2>1
  <2> HIDE DEF f
  <2>5. y \in FrameType /\ y.op = "insert" /\ y.j = Top(t).j
    BY <1>2, <2>2, <2>3 DEF FrameType, CalmOps
  <2>6. QED  BY <2>4, <2>5
<1>4. Top(t)' = y
  <2>1. stack'[t] = <<y>>
    BY <1>1, <1>3, Goes, Joins, Called DEF Inv, Requests
  <2>2. QED  BY <1>3, <2>1, OneCall
<1>5. CallOK(t)'
  BY <1>1, <1>2, <1>3, <1>4 DEF CallOK, StatusFits, UpdateFits, Prepared
<1>6. QED  BY <1>1, <1>3, <1>5, GotoOne DEF Plain

LEMMA PromoteReadKeeps ==
    ASSUME Inv, crossed' = {}, NEW t \in Threads, PromoteRead(t)
    PROVE  Inv'
<1>1. stack[t] # <<>> /\ Top(t).op = "promote"
  BY DEF PromoteRead, At, Top
<1>2. PICK j \in Jobs : j = Top(t).j
  BY <1>1, Called
<1>3. UNCHANGED <<job, lk, run, answer, mints, pending, queuedIds>>
  BY DEF PromoteRead, workers, queueVars
<1>4. PICK y \in FrameType :
         /\ Continue(t, <<y>>) /\ y.op = "promotenext"
         /\ \A e \in y.w : job[e[1]].status = "BLOCKED"
  <2> DEFINE w == {<<i, job[i].blockedBy>> : i \in {k \in Jobs : job[k].status = "BLOCKED"}}
             y == [Top(t) EXCEPT !.op = "promotenext", !.w = w]
  <2>1. \A i \in Jobs : job[i].blockedBy \in JobOrNone
    BY DEF Inv, Stores, JobType
  <2>2. w \subseteq Jobs \X JobOrNone /\ \A e \in w : job[e[1]].status = "BLOCKED"
    BY <2>1
  <2>3. Continue(t, <<y>>)
    BY DEF PromoteRead
  <2> HIDE DEF w
  <2>4. Top(t) \in FrameType
    BY <1>1, Called
  <2>5. y \in FrameType /\ y.op = "promotenext" /\ y.w = w
    BY <2>2, <2>4 DEF FrameType, CalmOps
  <2>6. QED  BY <2>2, <2>3, <2>5
<1>5. /\ stack' = [u \in Threads |-> stack'[u]] /\ stack'[t] = <<y>>
      /\ \A u \in Threads \ {t} : stack'[u] = stack[u]
  BY <1>1, <1>4, Goes, Joins, Called DEF Inv, Requests
<1>6. /\ ~ Early(t)' /\ Form(stack[t])' /\ Top(t)' = y
      /\ \A i \in Jobs : ~ Drives(t, i)'
  BY <1>4, <1>5, OneCall
<1>7. CallOK(t)'
  BY <1>4, <1>6 DEF CallOK, StatusFits, UpdateFits, Prepared
<1>8. ListOK(t)'
  BY <1>3, <1>4, <1>5 DEF ListOK
<1>9. ~ Early(t) /\ \A i \in Jobs : ~ Drives(t, i)
  BY <1>1 DEF Early, Drives
<1>10. \A u \in Threads : ~ Promoting(u)
  BY DEF PromoteRead
<1>11. QED  BY <1>1, <1>3, <1>5, <1>6, <1>7, <1>8, <1>9, <1>10, GotoStep

LEMMA PromoteNextKeeps ==
    ASSUME Inv, NEW t \in Threads, PromoteNext(t)
    PROVE  Inv'
<1>1. stack[t] # <<>> /\ Top(t).op = "promotenext" /\ Promoting(t)
  BY DEF PromoteNext, At, Top, Promoting
<1>2. UNCHANGED <<job, lk, run, answer, mints, pending, queuedIds>>
  BY DEF PromoteNext, workers, queueVars
<1>3. Top(t) \in FrameType /\ Top(t).j \in Jobs /\ stack[t] = <<Top(t)>> /\ ListOK(t)
  BY <1>1, Called
<1>4. ~ Early(t) /\ \A i \in Jobs : ~ Drives(t, i)
  BY <1>1 DEF Early, Drives
<1>5. \A e \in Top(t).w : e[1] \in Jobs /\ job[e[1]].status = "BLOCKED"
  <2>1. Top(t).w \subseteq Jobs \X JobOrNone
    BY <1>3 DEF FrameType
  <2>2. 1 \in DOMAIN stack[t] /\ stack[t][1] = Top(t)
    BY <1>3
  <2>3. QED  BY <1>1, <2>1, <2>2, <1>3 DEF ListOK
<1>6. ASSUME NEW frames, frames \o <<>> = frames, Continue(t, frames)
      PROVE  /\ stack' = [u \in Threads |-> stack'[u]] /\ stack'[t] = frames
             /\ \A u \in Threads \ {t} : stack'[u] = stack[u]
  BY <1>1, <1>6, Goes DEF Inv, Requests
<1>7. ASSUME NEW e \in Top(t).w
      PROVE  \E y \in FrameType : /\ y = [Top(t) EXCEPT !.w = Top(t).w \ {e}]
                                  /\ y.op = "promotenext" /\ y.w \subseteq Top(t).w
  <2> DEFINE w == Top(t).w \ {e}
             r == [Top(t) EXCEPT !.w = w]
  <2>1. w \in SUBSET Top(t).w
    OBVIOUS
  <2> HIDE DEF w
  <2>2. r \in FrameType /\ r.op = Top(t).op /\ r.w = w
    BY <1>3, <2>1, WithList
  <2>3. QED  BY <1>1, <2>1, <2>2 DEF w
<1>8. CASE Continue(t, <<>>)
  <2>1. /\ stack' = [u \in Threads |-> stack'[u]] /\ stack'[t] = <<>>
        /\ \A u \in Threads \ {t} : stack'[u] = stack[u]
    BY <1>6, <1>8, Joins
  <2>2. PICK j \in Jobs : j = Top(t).j
    BY <1>3
  <2>3. QED  BY <1>1, <1>2, <1>4, <2>1, NoCall, GotoStep
<1>9. ASSUME NEW e \in Top(t).w, Continue(t, <<[Top(t) EXCEPT !.w = Top(t).w \ {e}]>>)
      PROVE  Inv'
  <2>1. PICK y \in FrameType : /\ y = [Top(t) EXCEPT !.w = Top(t).w \ {e}]
                               /\ y.op = "promotenext" /\ y.w \subseteq Top(t).w
    BY <1>7
  <2>2. Continue(t, <<y>>)
    BY <1>9, <2>1
  <2>3. /\ stack' = [u \in Threads |-> stack'[u]] /\ stack'[t] = <<y>>
        /\ \A u \in Threads \ {t} : stack'[u] = stack[u]
    BY <1>6, <2>2, Joins
  <2>4. /\ ~ Early(t)' /\ Form(stack[t])' /\ Top(t)' = y
        /\ \A i \in Jobs : ~ Drives(t, i)'
    BY <2>1, <2>3, OneCall
  <2>5. CallOK(t)'
    BY <2>1, <2>4 DEF CallOK, StatusFits, UpdateFits, Prepared
  <2>6. ListOK(t)'
    <3>1. DOMAIN stack'[t] = {1} /\ stack'[t][1] = y
      BY <2>3
    <3>2. QED  BY <1>2, <1>5, <2>1, <3>1 DEF ListOK
  <2>7. PICK j \in Jobs : j = Top(t).j
    BY <1>3
  <2>8. QED  BY <1>1, <1>2, <1>4, <2>3, <2>4, <2>5, <2>6, GotoStep
<1>10. ASSUME NEW i \in Jobs, job[i].status = "BLOCKED"
      PROVE  /\ \A u \in Threads : ~ Drives(u, i)
             /\ \A id \in pending : id[1] # i
  <2>1. ASSUME NEW u \in Threads, Drives(u, i)
        PROVE  FALSE
    <3>1. Promoting(u)
      BY <1>10, <2>1, NewDriver
    <3>2. u = t
      BY <1>1, <3>1 DEF Inv, Alone
    <3>3. QED  BY <1>4, <2>1, <3>2
  <2>2. QED  BY <1>10, <2>1, NoPending
<1>11. ASSUME NEW e \in Top(t).w,
              Continue(t, <<Update(e[1], "DEP_FAILED"), [Top(t) EXCEPT !.w = Top(t).w \ {e}]>>)
       PROVE  Inv'
  <2>1. PICK y \in FrameType : /\ y = [Top(t) EXCEPT !.w = Top(t).w \ {e}]
                               /\ y.op = "promotenext" /\ y.w \subseteq Top(t).w
    BY <1>7
  <2>2. PICK i \in Jobs : i = e[1] /\ job[i].status = "BLOCKED"
    BY <1>5
  <2>3. PICK x \in FrameType : /\ x = Update(i, "DEP_FAILED") /\ x.op = "update" /\ x.j = i
                               /\ x.s = "DEP_FAILED"
    BY Frames DEF Statuses, JobStatuses
  <2>4. Continue(t, <<x, y>>)
    BY <1>11, <2>1, <2>2, <2>3
  <2>5. /\ stack' = [u \in Threads |-> stack'[u]] /\ stack'[t] = <<x, y>>
        /\ \A u \in Threads \ {t} : stack'[u] = stack[u]
    BY <1>6, <2>4, Joins
  <2>6. Top(t)' = x /\ Tail(stack'[t]) # <<>> /\ stack'[t] # <<>>
    BY <2>5, Tuples DEF Top
  <2>7. Form(stack[t])'
    BY <2>1, <2>3, <2>5 DEF Form
  <2>8. ~ Early(t)' /\ \A k \in Jobs : Drives(t, k)' => k = i
    BY <2>3, <2>6 DEF Early, Drives, WorkerStatuses
  <2>9. CallOK(t)'
    BY <1>2, <2>2, <2>3, <2>6 DEF CallOK, StatusFits, UpdateFits, Prepared
  <2>10. ListOK(t)'
    <3>1. DOMAIN stack'[t] = {1, 2} /\ stack'[t][1] = x /\ stack'[t][2] = y
      BY <2>5
    <3>2. QED  BY <1>2, <1>5, <2>1, <2>3, <3>1 DEF ListOK
  <2>11. QED
    BY <1>1, <1>2, <1>4, <1>10, <2>2, <2>5, <2>7, <2>8, <2>9, <2>10, GotoStep
<1>12. ASSUME NEW e \in Top(t).w, Continue(t, <<Call("unblock", e[1])>>)
       PROVE  Inv'
  <2>1. PICK i \in Jobs : i = e[1] /\ job[i].status = "BLOCKED"
    BY <1>5
  <2>2. PICK y \in FrameType : y = Call("unblock", i) /\ y.op = "unblock" /\ y.j = i
    BY Frames DEF CalmOps
  <2>3. Continue(t, <<y>>)
    BY <1>12, <2>1, <2>2
  <2>4. /\ stack' = [u \in Threads |-> stack'[u]] /\ stack'[t] = <<y>>
        /\ \A u \in Threads \ {t} : stack'[u] = stack[u]
    BY <1>6, <2>3, Joins
  <2>5. /\ ~ Early(t)' /\ Form(stack[t])' /\ Top(t)' = y /\ ListOK(t)'
        /\ \A k \in Jobs : Drives(t, k)' => k = i
    BY <2>2, <2>4, OneCall
  <2>6. CallOK(t)'
    BY <1>2, <2>1, <2>2, <2>5 DEF CallOK, StatusFits, UpdateFits, Prepared
  <2>7. QED
    BY <1>1, <1>2, <1>4, <1>10, <2>1, <2>4, <2>5, <2>6, GotoStep
<1>13. QED
  <2>1. \/ Continue(t, <<>>)
        \/ \E e \in Top(t).w :
              \/ Continue(t, <<Update(e[1], "DEP_FAILED"),
                               [Top(t) EXCEPT !.w = Top(t).w \ {e}]>>)
              \/ Continue(t, <<[Top(t) EXCEPT !.w = Top(t).w \ {e}]>>)
              \/ Continue(t, <<Call("unblock", e[1])>>)
    BY DEF PromoteNext
  <2>2. QED  BY <1>8, <1>9, <1>11, <1>12, <2>1

(* The write that follows a permitted update. *)
Written(t) == [Top(t) EXCEPT !.op = "write", !.f = job[Top(t).j].lockKey,
                             !.g = job[Top(t).j].target]

(* An update that the row permits is written next. *)
LEMMA PermittedCalls ==
    ASSUME Inv, NEW t \in Threads, At(t, "update"), UpdatePermitted(Top(t)), NEW j \in Jobs,
           j = Top(t).j,
           Continue(t, <<Written(t)>>)
    PROVE  /\ \E y \in FrameType :
                 /\ y.op = "write" /\ y.j = j /\ y.s = Top(t).s /\ Top(t)' = y
                 /\ y.f = job[j].lockKey
           /\ Top(t).s # "DEP_FAILED"
           /\ stack' = [u \in Threads |-> stack'[u]]
           /\ \A u \in Threads \ {t} : stack'[u] = stack[u]
           /\ Form(stack[t])' /\ ListOK(t)' /\ ~ Promoting(t)'
           /\ \A i \in Jobs : Drives(t, i)' <=> i = j
           /\ Early(t)' <=> Top(t).s \in WorkerStatuses
<1>1. stack[t] # <<>> /\ Top(t).op = "update"
  BY DEF At, Top
<1>2. Top(t) \in FrameType /\ CallOK(t) /\ job[j] \in JobType
  BY <1>1, Called
<1>3. Top(t).s # "DEP_FAILED"
  <2> SUFFICES ASSUME Top(t).s = "DEP_FAILED" PROVE FALSE
    OBVIOUS
  <2>1. job[j].status \in {"QUEUED", "BLOCKED"}
    BY <1>1, <1>2 DEF CallOK, UpdateFits, WorkerStatuses
  <2>2. CanTransition(job[j].status, "DEP_FAILED")
    BY DEF UpdatePermitted
  <2>3. QED  BY <2>1, <2>2 DEF CanTransition, AllowedFrom
<1>4. PICK y \in FrameType :
         /\ Continue(t, <<y>>) /\ y.op = "write" /\ y.j = j /\ y.s = Top(t).s
         /\ y.f = job[j].lockKey
  <2> DEFINE f == job[j].lockKey
             g == job[j].target
             y == [Top(t) EXCEPT !.op = "write", !.f = f, !.g = g]
  <2>1. f \in BOOLEAN /\ g \in BOOLEAN
    BY <1>2 DEF JobType
  <2>2. Continue(t, <<y>>)
    BY Zenon DEF Written
  <2> HIDE DEF f, g
  <2>3. y \in FrameType /\ y.op = "write" /\ y.j = j /\ y.s = Top(t).s /\ y.f = f
    BY <1>2, <2>1 DEF FrameType, CalmOps
  <2>4. QED  BY <2>2, <2>3 DEF f
<1>5. stack[t] = <<Top(t)>>
  BY <1>1, <1>3, Shape DEF Inv, Requests
<1>6. /\ stack' = [u \in Threads |-> stack'[u]] /\ stack'[t] = <<y>>
      /\ \A u \in Threads \ {t} : stack'[u] = stack[u]
  <2>1. Tail(stack[t]) = <<>>
    BY <1>5, Tuples
  <2>2. QED  BY <1>4, <2>1, Joins DEF Continue, Inv, Stores
<1>7. /\ Form(stack[t])' /\ ListOK(t)' /\ ~ Promoting(t)' /\ Top(t)' = y
      /\ \A i \in Jobs : Drives(t, i)' <=> i = j
      /\ Early(t)' <=> Top(t).s \in WorkerStatuses
  BY <1>4, <1>6, OneCall DEF Unchecked
<1>8. QED  BY <1>3, <1>4, <1>6, <1>7

LEMMA OwnUpdateKeeps ==
    ASSUME Inv, NEW t \in Threads, At(t, "update"), UpdatePermitted(Top(t)),
           Top(t).s \notin WorkerStatuses,
           Continue(t, <<Written(t)>>),
           UNCHANGED <<job, lk, run, answer, mints, pending, queuedIds>>
    PROVE  Inv'
<1>1. stack[t] # <<>> /\ Top(t).op = "update"
  BY DEF At, Top
<1>2. PICK j \in Jobs : j = Top(t).j
  BY <1>1, Called
<1>3. /\ stack' = [u \in Threads |-> stack'[u]]
      /\ \A u \in Threads \ {t} : stack'[u] = stack[u]
      /\ Form(stack[t])' /\ ListOK(t)' /\ ~ Promoting(t)' /\ ~ Early(t)'
      /\ \A i \in Jobs : Drives(t, i)' <=> i = j
      /\ Top(t).s # "DEP_FAILED"
  BY <1>2, PermittedCalls
<1>4. PICK y \in FrameType : y.op = "write" /\ y.j = j /\ y.s = Top(t).s /\ Top(t)' = y
  BY <1>2, PermittedCalls
<1>5. CallOK(t)
  BY <1>1, Called
<1>6. CallOK(t)'
  BY <1>1, <1>2, <1>3, <1>4, <1>5 DEF CallOK, StatusFits, UpdateFits, Prepared
<1>7. Drives(t, j) /\ ~ Early(t) /\ \A i \in Jobs : Drives(t, i) => i = j
  BY <1>1, <1>2 DEF Drives, Unchecked, Early
<1>8. QED  BY <1>1, <1>3, <1>6, <1>7, GotoStep

(* The row a worker's update is checked against has the status of its stage. *)
LEMMA PostFits ==
    ASSUME Inv, NEW t \in Threads, At(t, "update"), UpdatePermitted(Top(t)), Early(t),
           NEW n \in Mints, n = answer[t].n
    PROVE  /\ job[Top(t).j].status = StatusAt(run[n].stage)
           /\ job[Top(t).j].status \in {"STAGING"} \cup Accepted
<1>1. /\ n # 0 /\ Top(t).s = answer[t].s
      /\ Top(t).j = run[n].job /\ job[Top(t).j].cb = n
  BY EarlyServes
<1>2. AnswerOK(t) /\ WorkerOK(n)
  BY DEF Inv, Requests, Project
<1>3. run[n].stage \notin {"none", "gone"} /\ answer[t].s \in Posts(n)
  BY <1>1, <1>2 DEF AnswerOK
<1>4. ~ Answered(n)
  BY <1>1 DEF Answered, Inv, Alone
<1>5. CASE run[n].stage \in Working
  BY <1>1, <1>2, <1>4, <1>5 DEF WorkerOK, StatusAt, Working, Accepted
<1>6. CASE run[n].stage = "start"
  <2>1. job[Top(t).j].status \in BeforeWork
    BY <1>1, <1>2, <1>4, <1>6 DEF WorkerOK
  <2>2. Top(t).s \in {"VALIDATING", "REIMPORT_FAILED"}
    BY <1>1, <1>3, <1>6 DEF Posts
  <2>3. CanTransition(job[Top(t).j].status, Top(t).s)
    BY DEF UpdatePermitted
  <2>4. job[Top(t).j].status = "STAGING"
    BY <2>1, <2>2, <2>3 DEF BeforeWork, CanTransition, AllowedFrom
  <2>5. QED  BY <1>6, <2>4 DEF StatusAt
<1>7. run[n].stage \in Stages
  BY DEF Inv, Stores
<1>8. QED  BY <1>3, <1>5, <1>6, <1>7 DEF Stages, Working


LEMMA WorkerUpdateKeeps ==
    ASSUME Inv, NEW t \in Threads, At(t, "update"), UpdatePermitted(Top(t)), Early(t),
           Continue(t, <<Written(t)>>),
           UNCHANGED <<job, lk, run, answer, mints, pending, queuedIds>>
    PROVE  Inv'
<1>1. stack[t] # <<>> /\ Top(t).op = "update" /\ Top(t).s \in WorkerStatuses
  BY DEF At, Top, Early
<1>2. PICK j \in Jobs : j = Top(t).j
  BY <1>1, Called
<1>3. PICK n \in Mints : n = answer[t].n
  BY EarlyServes
<1>4. n # 0 /\ Top(t).s = answer[t].s /\ run[n].job = j /\ job[j].cb = n
  BY <1>2, <1>3, EarlyServes
<1>5. /\ stack' = [u \in Threads |-> stack'[u]]
      /\ \A u \in Threads \ {t} : stack'[u] = stack[u]
      /\ Form(stack[t])' /\ ListOK(t)' /\ ~ Promoting(t)' /\ Early(t)'
      /\ \A i \in Jobs : Drives(t, i)' <=> i = j
  BY <1>1, <1>2, PermittedCalls
<1>6. PICK y \in FrameType : y.op = "write" /\ y.j = j /\ y.s = Top(t).s /\ Top(t)' = y
  BY <1>2, PermittedCalls
<1>7. AnswerOK(t) /\ JobOK(j) /\ WorkerOK(n)
  BY DEF Inv, Requests, Project
<1>8. job[j].status = StatusAt(run[n].stage) /\ job[j].status \in {"STAGING"} \cup Accepted
  BY <1>2, <1>3, PostFits
<1>9. CallOK(t)'
  BY <1>1, <1>2, <1>3, <1>4, <1>6, <1>8 DEF CallOK, StatusFits, UpdateFits, Prepared
<1>10. AnswerOK(t)'
  <2>1. run[n].stage \notin {"none", "gone"} /\ answer[t].s \in Posts(n)
    BY <1>3, <1>4, <1>7 DEF AnswerOK
  <2>2. (answer[t].s \in Posts(n))'
    BY <2>1 DEF Posts
  <2>3. (answer[t].n = n)' /\ n # 0 /\ run'[n].stage \notin {"none", "gone"}
        /\ Top(t)'.j = run'[n].job /\ job'[run'[n].job].cb = n
    BY <1>3, <1>4, <1>6, <2>1
  <2>4. QED  BY <1>5, <2>2, <2>3 DEF AnswerOK
<1>11. \A u \in Threads : ~ Drives(u, j)
  <2>1. ~ Drives(t, j)
    BY <1>1 DEF Drives, Unchecked
  <2>2. ASSUME NEW u \in Threads, Drives(u, j)
        PROVE  FALSE
    <3>1. answer[u].n = n
      BY <1>4, <1>8, <2>2, WorkingDriver
    <3>2. u = t
      BY <1>3, <1>4, <3>1 DEF Inv, Alone
    <3>3. QED  BY <2>1, <2>2, <3>2
  <2>3. QED  BY <2>2
<1>12. \A id \in pending : id[1] # j
  BY <1>8, NoPending DEF Accepted
<1>13. Stores'
  BY <1>5 DEF Inv, Stores
<1>14. Local(t, j)
  <2>1. \A i \in Jobs : ~ Drives(t, i)
    BY <1>1 DEF Drives, Unchecked
  <2>2. \A i \in Jobs : Same(i)
    BY DEF Same
  <2>3. mints' = mints /\ run' = run /\ answer' = answer
    OBVIOUS
  <2>4. QED  BY <1>5, <1>11, <2>1, <2>2, <2>3 DEF Local
<1>15. JobOK(j)'
  <2>1. DepStatus(j)' = DepStatus(j)
    BY DEF DepStatus
  <2>2. job'[j].status # "DISPATCHING"
    BY <1>8 DEF Accepted
  <2>3. QED  BY <1>7, <1>12, <2>1, <2>2 DEF JobOK
<1>16. OneEntry'
  BY DEF Inv, Project, OneEntry
<1>17. WorkerOK(n)'
  <2>1. ~ Answered(n)
    BY <1>3, <1>4 DEF Answered, Inv, Alone
  <2>2. QED  BY <1>7, <2>1 DEF WorkerOK
<1>18. \A m \in Mints : \/ m = answer[t].n
                        \/ m = answer'[t].n
                        \/ At(t, "workflow") /\ Top(t).n = m
         => WorkerOK(m)'
  BY <1>1, <1>3, <1>17 DEF At, Top
<1>19. QED  BY <1>5, <1>9, <1>10, <1>13, <1>14, <1>15, <1>16, <1>18, StepKeeps

(* A refused update throws: the request ends, and so does a worker that waits. *)
LEMMA UpdateThrowKeeps ==
    ASSUME Inv, NEW t \in Threads, At(t, "update"), ~ UpdatePermitted(Top(t)), Throw(t),
           UNCHANGED <<job, lk, mints, pending, queuedIds>>
    PROVE  Inv'
<1>1. stack[t] # <<>> /\ Top(t).op = "update"
  BY DEF At, Top
<1>2. PICK j \in Jobs : j = Top(t).j
  BY <1>1, Called
<1>3. PICK n \in {0} \cup Mints : n = answer[t].n
  BY DEF Inv, Stores
<1>4. /\ stack' = [u \in Threads |-> stack'[u]] /\ stack'[t] = <<>> /\ answer'[t] = NoAnswer
      /\ \A u \in Threads \ {t} : stack'[u] = stack[u] /\ answer'[u] = answer[u]
  BY DEF Throw, Inv, Stores
<1>5. /\ Form(stack[t])' /\ (stack[t] # <<>> => CallOK(t))' /\ ListOK(t)'
      /\ \A i \in Jobs : ~ Drives(t, i)'
      /\ ~ Early(t)' /\ ~ Promoting(t)'
  BY <1>4, NoCall
<1>6. /\ n = 0 => run' = run
      /\ n # 0 => run' = [run EXCEPT ![n].stage = "gone"]
  BY <1>3 DEF Throw, Serves
<1>7. \A m \in Mints \ {n} : run'[m] = run[m]
  BY <1>6 DEF Inv, Stores
<1>8. Stores'
  <2>1. run' \in [Mints -> [job : JobOrNone, tok : Nat, stage : Stages]]
    BY <1>6 DEF Inv, Stores, Stages
  <2>2. answer' = [answer EXCEPT ![t] = NoAnswer] /\ NoAnswer \in [n : {0} \cup Mints, s : Statuses]
    BY DEF Throw, NoAnswer, Statuses
  <2>3. answer' \in [Threads -> [n : {0} \cup Mints, s : Statuses]]
    BY <2>2 DEF Inv, Stores
  <2>4. QED  BY <1>4, <2>1, <2>3 DEF Inv, Stores
<1>9. Local(t, j)
  <2>1. \A i \in Jobs : Same(i)
    BY DEF Same
  <2>2. \A i \in Jobs : Drives(t, i) => i = j
    BY <1>2 DEF Drives
  <2>3. answer'[t].n = 0
    BY <1>4 DEF NoAnswer
  <2>4. \A m \in Mints : run'[m] = run[m] \/ m = answer[t].n
    BY <1>3, <1>7
  <2>5. QED  BY <1>4, <1>5, <2>1, <2>2, <2>3, <2>4 DEF Local
<1>10. Drives(t, j) => job[j].status # "DISPATCHING"
  <2> SUFFICES ASSUME Drives(t, j), job[j].status = "DISPATCHING" PROVE FALSE
    OBVIOUS
  <2>1. ~ Unchecked(Top(t)) /\ CallOK(t)
    BY <1>1, Called DEF Drives
  <2>2. Top(t).k = 0 /\ Top(t).s \in {"DISPATCH_FAILED", "STAGING", "DISPATCH_TIMEOUT"}
    BY <1>1, <1>2, <2>1 DEF CallOK, UpdateFits, Unchecked
  <2>3. QED  BY <1>2, <2>2 DEF UpdatePermitted, CanTransition, AllowedFrom
<1>11. JobOK(j)'
  <2>1. JobOK(j)
    BY DEF Inv, Project
  <2>2. DepStatus(j)' = DepStatus(j)
    BY DEF DepStatus
  <2>3. \A u \in Threads \ {t} : Drives(u, j)' <=> Drives(u, j)
    BY <1>9, DrivesSame
  <2>4. (job[j].status = "DISPATCHING" =>
            \/ \E v \in Threads : Drives(v, j)
            \/ \E id \in pending : id[1] = j)'
    BY <1>10, <2>1, <2>3 DEF JobOK
  <2>5. (\A id \in pending : id[1] = j =>
            job[j].status = "DISPATCHING" /\ \A v \in Threads : ~ Drives(v, j))'
    BY <1>5, <2>1, <2>3 DEF JobOK
  <2>6. QED  BY <2>1, <2>2, <2>4, <2>5 DEF JobOK
<1>12. OneEntry'
  BY DEF Inv, Project, OneEntry
<1>13. AnswerOK(t)'
  BY <1>4 DEF AnswerOK, NoAnswer
<1>14. ASSUME NEW m \in Mints, m = n
       PROVE  WorkerOK(m)'
  <2>1. WorkerOK(m) /\ AnswerOK(t)
    BY DEF Inv, Project, Requests
  <2>2. m # 0
    BY MintsFacts
  <2>3. run[m].stage # "none"
    BY <1>3, <1>14, <2>1, <2>2 DEF AnswerOK
  <2>4. run[m].job \in Jobs /\ m <= mints
    BY <2>1, <2>3 DEF WorkerOK
  <2>5. run'[m].stage = "gone" /\ run'[m].job = run[m].job
    BY <1>6, <1>14, <2>2 DEF Inv, Stores
  <2>6. QED  BY <2>4, <2>5 DEF WorkerOK, Working
<1>15. \A m \in Mints : \/ m = answer[t].n
                        \/ m = answer'[t].n
                        \/ At(t, "workflow") /\ Top(t).n = m
         => WorkerOK(m)'
  <2>1. answer'[t].n = 0 /\ 0 \notin Mints
    BY <1>4, MintsFacts DEF NoAnswer
  <2>2. ~ At(t, "workflow")
    BY <1>1 DEF At, Top
  <2>3. QED  BY <1>3, <1>14, <2>1, <2>2
<1>16. QED  BY <1>5, <1>8, <1>9, <1>11, <1>12, <1>13, <1>15, StepKeeps

LEMMA UpdateReadKeeps ==
    ASSUME Inv, NEW t \in Threads, UpdateRead(t)
    PROVE  Inv'
<1>1. At(t, "update") /\ stack[t] # <<>> /\ UNCHANGED <<job, lk, mints, pending, queuedIds>>
  BY DEF UpdateRead, At, queueVars
<1>2. CASE UpdatePermitted(Top(t))
  <2>1. Continue(t, <<Written(t)>>) /\ UNCHANGED <<run, answer>>
    BY <1>2, Zenon DEF UpdateRead, Written, workers
  <2>2. CASE Early(t)
    BY <1>1, <1>2, <2>1, <2>2, WorkerUpdateKeeps
  <2>3. CASE ~ Early(t)
    <3>1. Top(t).s \notin WorkerStatuses
      BY <1>1, <2>3 DEF Early, At, Top
    <3>2. QED  BY <1>1, <1>2, <2>1, <3>1, OwnUpdateKeeps
  <2>4. QED  BY <2>2, <2>3
<1>3. CASE ~ UpdatePermitted(Top(t))
  <2>1. Throw(t)
    BY <1>3, Zenon DEF UpdateRead
  <2>2. QED  BY <1>1, <1>3, <2>1, UpdateThrowKeeps
<1>4. QED  BY <1>2, <1>3

-----------------------------------------------------------------------------
(* Steps that start a worker, or that its requests take *)

(* The workflow was dispatched: a worker starts. *)
LEMMA RunStartsKeeps ==
    ASSUME Inv, NEW t \in Threads, At(t, "workflow"), StartRun(Top(t)),
           Continue(t, <<[Top(t) EXCEPT !.op = "enqueue"]>>),
           UNCHANGED <<job, lk, answer, mints, pending, queuedIds>>
    PROVE  Inv'
<1>1. stack[t] # <<>> /\ Top(t).op = "workflow"
  BY DEF At, Top
<1>2. PICK j \in Jobs : j = Top(t).j
  BY <1>1, Called
<1>3. /\ CallOK(t) /\ AnswerOK(t) /\ JobOK(j) /\ job[j] \in JobType /\ Top(t) \in FrameType
      /\ Drives(t, j) /\ ~ Early(t)
  BY <1>1, <1>2, Called DEF Plain
<1>4. job[j].status = "DISPATCHING"
  BY <1>1, <1>2, <1>3 DEF CallOK, StatusFits
<1>5. PICK n \in Mints : n = Top(t).n
  BY <1>1, <1>3 DEF CallOK, Prepared
<1>6. /\ job[j].cb = n /\ run[n].stage = "none" /\ Top(t).a = job[j].attempt
      /\ \A id \in queuedIds : id[1] = j => id[2] < job[j].attempt
  BY <1>1, <1>2, <1>3, <1>5 DEF CallOK, Prepared
<1>7. PICK y \in FrameType : /\ Continue(t, <<y>>) /\ y.op = "enqueue" /\ y.j = j
                             /\ y.a = Top(t).a
  <2> DEFINE y == [Top(t) EXCEPT !.op = "enqueue"]
  <2>1. y \in FrameType /\ y.op = "enqueue" /\ y.j = j /\ y.a = Top(t).a
    BY <1>2, <1>3 DEF FrameType, CalmOps
  <2>2. QED  BY <2>1
<1>8. /\ stack' = [u \in Threads |-> stack'[u]] /\ stack'[t] = <<y>>
      /\ \A u \in Threads \ {t} : stack'[u] = stack[u]
  BY <1>1, <1>7, Goes, Joins, Called DEF Inv, Requests
<1>9. /\ ~ Early(t)' /\ ~ Promoting(t)' /\ Form(stack[t])' /\ ListOK(t)' /\ Top(t)' = y
      /\ \A i \in Jobs : Drives(t, i)' <=> i = j
  BY <1>7, <1>8, OneCall DEF Unchecked
<1>10. CallOK(t)'
  BY <1>4, <1>6, <1>7, <1>9 DEF CallOK, StatusFits, UpdateFits, Prepared
<1>11. /\ run'[n].job = j /\ run'[n].stage = "start"
       /\ \A m \in Mints \ {n} : run'[m] = run[m]
  BY <1>2, <1>5 DEF StartRun, Inv, Stores
<1>12. Stores'
  <2>1. run' \in [Mints -> [job : JobOrNone, tok : Nat, stage : Stages]]
    BY <1>2, <1>3, <1>5 DEF StartRun, Inv, Stores, Stages, JobOrNone, FrameType
  <2>2. QED  BY <1>8, <2>1 DEF Inv, Stores
<1>13. Local(t, j)
  <2>1. \A i \in Jobs : Same(i)
    BY DEF Same
  <2>2. \A i \in Jobs : Drives(t, i) => i = j
    BY <1>2 DEF Drives
  <2>3. \A m \in Mints : run'[m] = run[m] \/ (At(t, "workflow") /\ Top(t).n = m)
    BY <1>5, <1>11
  <2>4. QED  BY <1>3, <1>8, <1>9, <2>1, <2>2, <2>3 DEF Local
<1>14. JobOK(j)'
  <2>1. \A u \in Threads : Drives(u, j)' <=> Drives(u, j)
    BY <1>3, <1>9, <1>13, DrivesSame
  <2>2. DepStatus(j)' = DepStatus(j)
    BY DEF DepStatus
  <2>3. QED  BY <1>3, <2>1, <2>2 DEF JobOK
<1>15. OneEntry'
  BY DEF Inv, Project, OneEntry
<1>16. AnswerOK(t)'
  <2> DEFINE m == answer[t].n
  <2>1. m # 0 => m \in Mints \ {n}
    BY <1>3, <1>6 DEF Inv, Stores, AnswerOK
  <2>2. m # 0 => run'[m] = run[m]
    BY <1>11, <2>1
  <2>3. m # 0 => StageAfter(answer[t].s) = "gone"
    BY <1>1, <1>3 DEF AnswerOK
  <2>4. m # 0 => run'[m].stage \notin {"none", "gone"} /\ (answer[t].s \in Posts(m))'
    BY <1>3, <2>2 DEF AnswerOK, Posts
  <2>5. answer' = answer
    OBVIOUS
  <2>6. m = 0 => answer'[t] = NoAnswer
    BY <1>3, <2>5 DEF AnswerOK
  <2>7. (answer[t].n = m)' /\ (StageAfter(answer[t].s) = StageAfter(answer'[t].s))
    BY <2>5 DEF StageAfter
  <2>8. QED  BY <1>9, <2>3, <2>4, <2>6, <2>7 DEF AnswerOK, NoAnswer, StageAfter
<1>17. WorkerOK(n)'
  <2>1. n <= mints'
    BY <1>3, <1>6 DEF JobOK
  <2>2. job'[j].status \in BeforeWork
    BY <1>4 DEF BeforeWork
  <2>3. QED  BY <1>11, <2>1, <2>2 DEF WorkerOK, Working
<1>18. \A m \in Mints : m = answer[t].n \/ m = answer'[t].n => WorkerOK(m)'
  <2> SUFFICES ASSUME NEW m \in Mints, m = answer[t].n PROVE WorkerOK(m)'
    OBVIOUS
  <2>1. m # 0
    BY MintsFacts
  <2>2. run[m].stage # "none" /\ WorkerOK(m)
    BY <1>3, <2>1 DEF AnswerOK, Inv, Project
  <2>3. run'[m] = run[m]
    BY <1>6, <1>11, <2>2
  <2>4. Answered(m)'
    BY <1>9 DEF Answered
  <2>5. QED  BY <2>2, <2>3, <2>4 DEF WorkerOK
<1>19. \A m \in Mints : \/ m = answer[t].n
                        \/ m = answer'[t].n
                        \/ At(t, "workflow") /\ Top(t).n = m
         => WorkerOK(m)'
  BY <1>5, <1>17, <1>18
<1>20. QED  BY <1>9, <1>10, <1>12, <1>13, <1>14, <1>15, <1>16, <1>19, StepKeeps

LEMMA DispatchWorkflowKeeps ==
    ASSUME Inv, NEW t \in Threads, DispatchWorkflow(t)
    PROVE  Inv'
<1>1. At(t, "workflow") /\ UNCHANGED <<job, lk, answer, mints, pending, queuedIds>>
  BY DEF DispatchWorkflow, queueVars
<1>2. CASE StartRun(Top(t)) /\ Continue(t, <<[Top(t) EXCEPT !.op = "enqueue"]>>)
  BY <1>1, <1>2, RunStartsKeeps
<1>3. CASE Continue(t, <<Update(Top(t).j, "DISPATCH_FAILED")>>) /\ UNCHANGED run
  BY <1>1, <1>3, WorkflowFailsKeeps
<1>4. QED  BY <1>2, <1>3 DEF DispatchWorkflow

(* The entry that will resolve the run is queued. *)
LEMMA EnqueueKeeps ==
    ASSUME Inv, NEW t \in Threads, Enqueue(t)
    PROVE  Inv'
<1>1. stack[t] # <<>> /\ Top(t).op = "enqueue" /\ Continue(t, <<>>)
      /\ UNCHANGED <<job, lk, run, answer, mints>>
  BY DEF Enqueue, At, Top, workers
<1>2. PICK j \in Jobs : j = Top(t).j
  BY <1>1, Called
<1>3. /\ CallOK(t) /\ AnswerOK(t) /\ JobOK(j) /\ job[j] \in JobType
      /\ Drives(t, j) /\ ~ Early(t)
  BY <1>1, <1>2, Called DEF Plain
<1>4. job[j].status = "DISPATCHING"
  BY <1>1, <1>2, <1>3 DEF CallOK, StatusFits
<1>5. /\ Top(t).a = job[j].attempt
      /\ \A id \in queuedIds : id[1] = j => id[2] < job[j].attempt
  BY <1>1, <1>2, <1>3 DEF CallOK, Prepared
<1>6. job[j].attempt \in Nat
  BY <1>3 DEF JobType
<1>7. PICK id \in Jobs \X Nat : id = <<j, job[j].attempt>>
  BY <1>6
<1>8. id = ResolveId(Top(t)) /\ id[1] = j /\ id[2] = job[j].attempt
  BY <1>2, <1>5, <1>7 DEF ResolveId
<1>9. id \notin queuedIds
  BY <1>5, <1>6, <1>8
<1>10. pending' = pending \cup {id} /\ queuedIds' = queuedIds \cup {id}
  BY <1>8, <1>9 DEF Enqueue
<1>11. /\ stack' = [u \in Threads |-> stack'[u]] /\ stack'[t] = <<>>
       /\ \A u \in Threads \ {t} : stack'[u] = stack[u]
  BY <1>1, Goes, Joins, Called DEF Inv, Requests
<1>12. /\ Form(stack[t])' /\ (stack[t] # <<>> => CallOK(t))' /\ ListOK(t)'
       /\ \A i \in Jobs : ~ Drives(t, i)'
       /\ ~ Early(t)' /\ ~ Promoting(t)'
  BY <1>11, NoCall
<1>13. Stores'
  BY <1>1, <1>10, <1>11 DEF Inv, Stores
<1>14. Local(t, j)
  <2>1. \A i \in Jobs : Same(i)
    BY <1>1 DEF Same
  <2>2. \A i \in Jobs : Drives(t, i) => i = j
    BY <1>2 DEF Drives
  <2>3. \A e \in queuedIds \cup queuedIds' : e[1] # j =>
          /\ e \in queuedIds <=> e \in queuedIds'
          /\ e \in pending <=> e \in pending'
    BY <1>8, <1>10
  <2>4. QED  BY <1>1, <1>3, <1>11, <1>12, <2>1, <2>2, <2>3 DEF Local
<1>15. \A u \in Threads : ~ Drives(u, j)'
  <2>1. \A u \in Threads \ {t} : Drives(u, j)' <=> Drives(u, j)
    BY <1>14, DrivesSame
  <2>2. QED  BY <1>3, <1>12, <2>1 DEF Inv, Alone
<1>16. \A e \in pending : e[1] # j
  BY <1>3 DEF JobOK
<1>17. JobOK(j)'
  <2>1. job' = job /\ mints' = mints /\ lk' = lk
    BY <1>1
  <2>2. DepStatus(j)' = DepStatus(j)
    BY <1>1 DEF DepStatus
  <2>3. \A e \in queuedIds' : e[1] = j => e[2] <= job[j].attempt
    BY <1>3, <1>6, <1>8, <1>10 DEF JobOK
  <2>4. \E e \in pending' : e[1] = j
    BY <1>8, <1>10
  <2>5. QED  BY <1>3, <1>4, <1>15, <2>1, <2>2, <2>3, <2>4 DEF JobOK
<1>18. OneEntry'
  BY <1>8, <1>10, <1>16 DEF Inv, Project, OneEntry
<1>19. AnswerOK(t)'
  <2>1. answer[t].n # 0 => StageAfter(answer[t].s) = "gone"
    BY <1>1, <1>3 DEF AnswerOK
  <2>2. \A n \in Mints : Posts(n)' = Posts(n)
    BY <1>1 DEF Posts
  <2>3. answer[t].n # 0 => answer[t].n \in Mints
    BY DEF Inv, Stores
  <2>4. CASE answer[t].n = 0
    BY <1>1, <1>3, <2>4 DEF AnswerOK, NoAnswer
  <2>5. CASE answer[t].n # 0
    <3>1. /\ run'[answer[t].n].stage \notin {"none", "gone"}
          /\ (answer[t].s \in Posts(answer[t].n))'
      BY <1>1, <1>3, <2>2, <2>3, <2>5 DEF AnswerOK
    <3>2. StageAfter(answer'[t].s) = "gone" /\ answer'[t].n # 0
      BY <1>1, <2>1, <2>5
    <3>3. answer' = answer
      BY <1>1
    <3>4. QED  BY <1>12, <3>1, <3>2, <3>3 DEF AnswerOK
  <2>6. QED  BY <2>4, <2>5
<1>20. \A n \in Mints : \/ n = answer[t].n
                        \/ n = answer'[t].n
                        \/ At(t, "workflow") /\ Top(t).n = n
         => WorkerOK(n)'
  <2> SUFFICES ASSUME NEW n \in Mints, n = answer[t].n PROVE WorkerOK(n)'
    BY <1>1 DEF At, Top
  <2>1. Answered(n)'
    BY <1>1, <1>12 DEF Answered
  <2>2. WorkerOK(n)
    BY DEF Inv, Project
  <2>3. QED  BY <1>1, <2>1, <2>2, MintsFacts DEF WorkerOK, AnswerOK, Answered
<1>21. QED  BY <1>12, <1>13, <1>14, <1>17, <1>18, <1>19, <1>20, StepKeeps

(* A worker posts: its stage allows it and its callback token is the job's. *)
LEMMA CallbackKeeps ==
    ASSUME Inv, NEW t \in Threads, NEW n \in Mints, NEW s \in Posts(n), Callback(t, n, s)
    PROVE  Inv'
<1>1. /\ stack[t] = <<>> /\ answer[t] = NoAnswer /\ ~ Waiting(n)
      /\ UNCHANGED <<job, lk, run, mints, pending, queuedIds>>
  BY DEF Callback, Start, Idle, queueVars
<1>2. run[n].stage \in Stages \ {"none", "gone"} /\ s \in WorkerStatuses
  BY DEF Posts, WorkerStatuses, Inv, Stores, Stages
<1>3. PICK j \in Jobs : j = run[n].job
  BY <1>2 DEF Inv, Project, WorkerOK
<1>4. job[j].cb = n /\ n # 0
  BY <1>3, MintsFacts DEF Callback, Authentic
<1>5. PICK y \in FrameType : /\ stack' = [stack EXCEPT ![t] = <<y>>]
                             /\ y.op = "update" /\ y.j = j /\ y.s = s
  <2> DEFINE k == IF s = "COMMITTING" THEN run[n].tok ELSE 0
             y == [Update(j, s) EXCEPT !.k = k]
  <2>1. k \in Nat
    BY DEF Inv, Stores
  <2>2. stack' = [stack EXCEPT ![t] = <<y>>]
    BY <1>3 DEF Callback, Start
  <2> HIDE DEF k
  <2>3. s \in Statuses
    BY <1>2 DEF WorkerStatuses, Statuses, JobStatuses
  <2>4. Update(j, s) \in FrameType /\ Update(j, s).op = "update" /\ Update(j, s).j = j
        /\ Update(j, s).s = s
    BY <2>3, Frames
  <2>5. y \in FrameType /\ y.op = "update" /\ y.j = j /\ y.s = s
    BY <2>1, <2>4 DEF FrameType
  <2>6. QED  BY <2>2, <2>5
<1>6. /\ stack' = [u \in Threads |-> stack'[u]] /\ stack'[t] = <<y>>
      /\ \A u \in Threads \ {t} : stack'[u] = stack[u]
  BY <1>5 DEF Inv, Stores
<1>7. /\ answer' = [answer EXCEPT ![t] = [n |-> n, s |-> s]]
      /\ answer'[t].n = n /\ answer'[t].s = s
      /\ \A u \in Threads \ {t} : answer'[u] = answer[u]
  BY DEF Callback, Inv, Stores
<1>8. /\ Early(t)' /\ ~ Promoting(t)' /\ Form(stack[t])' /\ ListOK(t)' /\ Top(t)' = y
      /\ \A i \in Jobs : ~ Drives(t, i)'
  BY <1>2, <1>5, <1>6, OneCall DEF Unchecked
<1>9. CallOK(t)'
  BY <1>2, <1>5, <1>7, <1>8 DEF CallOK, StatusFits, UpdateFits, Prepared
<1>10. AnswerOK(t)'
  <2>1. (s \in Posts(n))'
    BY <1>1 DEF Posts
  <2>2. (answer[t].n = n)' /\ answer'[t].s = s /\ n # 0 /\ run'[n].stage \notin {"none", "gone"}
        /\ Top(t)'.j = run'[n].job /\ job'[run'[n].job].cb = n
    BY <1>1, <1>2, <1>3, <1>4, <1>5, <1>7, <1>8
  <2>3. QED  BY <1>8, <2>1, <2>2 DEF AnswerOK
<1>11. Stores'
  <2>1. [n |-> n, s |-> s] \in [n : {0} \cup Mints, s : Statuses]
    BY <1>2 DEF WorkerStatuses, Statuses, JobStatuses
  <2>2. answer' \in [Threads -> [n : {0} \cup Mints, s : Statuses]]
    BY <1>7, <2>1 DEF Inv, Stores
  <2>3. QED  BY <1>1, <1>6, <2>2 DEF Inv, Stores
<1>12. \A i \in Jobs : ~ Drives(t, i)
  BY <1>1 DEF Drives
<1>13. Local(t, j)
  <2>1. \A i \in Jobs : Same(i)
    BY <1>1 DEF Same
  <2>2. ~ Waiting(answer'[t].n)
    BY <1>1, <1>7
  <2>3. QED  BY <1>1, <1>6, <1>7, <1>8, <1>12, <2>1, <2>2 DEF Local
<1>14. JobOK(j)'
  <2>1. JobOK(j)
    BY DEF Inv, Project
  <2>2. DepStatus(j)' = DepStatus(j)
    BY <1>1 DEF DepStatus
  <2>3. \A u \in Threads \ {t} : Drives(u, j)' <=> Drives(u, j)
    BY <1>13, DrivesSame
  <2>4. (job[j].status = "DISPATCHING" =>
            \/ \E v \in Threads : Drives(v, j)
            \/ \E id \in pending : id[1] = j)'
    BY <1>1, <1>12, <2>1, <2>3 DEF JobOK
  <2>5. (\A id \in pending : id[1] = j =>
            job[j].status = "DISPATCHING" /\ \A v \in Threads : ~ Drives(v, j))'
    BY <1>1, <1>8, <2>1, <2>3 DEF JobOK
  <2>6. QED  BY <1>1, <2>1, <2>2, <2>4, <2>5 DEF JobOK
<1>15. OneEntry'
  BY <1>1 DEF Inv, Project, OneEntry
<1>16. \A m \in Mints : \/ m = answer[t].n
                        \/ m = answer'[t].n
                        \/ At(t, "workflow") /\ Top(t).n = m
         => WorkerOK(m)'
  <2>1. answer[t].n = 0 /\ answer'[t].n = n /\ 0 \notin Mints /\ ~ At(t, "workflow")
    BY <1>1, <1>7, MintsFacts DEF NoAnswer, At
  <2>2. WorkerOK(n) /\ ~ Answered(n)
    BY <1>1 DEF Inv, Project, Waiting, Answered, Serves
  <2>3. WorkerOK(n)'
    BY <1>1, <2>2 DEF WorkerOK
  <2>4. QED  BY <2>1, <2>3
<1>17. QED  BY <1>8, <1>9, <1>10, <1>11, <1>13, <1>14, <1>15, <1>16, StepKeeps

(* The answer reaches the worker, which goes on or exits. *)
LEMMA ReplyKeeps ==
    ASSUME Inv, NEW t \in Threads, Reply(t)
    PROVE  Inv'
<1>1. /\ stack[t] = <<>> /\ answer[t].n # 0
      /\ UNCHANGED <<job, lk, stack, mints, pending, queuedIds>>
      /\ answer' = [answer EXCEPT ![t] = NoAnswer]
  BY DEF Reply, Serves, queueVars
<1>2. PICK n \in Mints : n = answer[t].n
  BY <1>1 DEF Inv, Stores
<1>3. AnswerOK(t) /\ WorkerOK(n)
  BY DEF Inv, Requests, Project
<1>4. run[n].stage \notin {"none", "gone"} /\ answer[t].s \in Posts(n)
  BY <1>1, <1>2, <1>3 DEF AnswerOK
<1>5. PICK j \in Jobs : j = run[n].job
  BY <1>3, <1>4 DEF WorkerOK
<1>6. /\ ~ Early(t) /\ ~ Early(t)'
      /\ StageAfter(answer[t].s) # "gone" => job[j].cb = n /\ job[j].status = answer[t].s
  BY <1>1, <1>2, <1>3, <1>5 DEF AnswerOK, Early
<1>7. /\ run'[n].job = j /\ run'[n].stage = StageAfter(answer[t].s)
      /\ \A m \in Mints \ {n} : run'[m] = run[m]
  BY <1>2, <1>5 DEF Reply, Serves, Inv, Stores
<1>8. /\ answer'[t] = NoAnswer /\ answer'[t].n = 0
      /\ \A u \in Threads \ {t} : answer'[u] = answer[u]
  BY <1>1 DEF Inv, Stores, NoAnswer
<1>9. /\ Form(stack[t])' /\ (stack[t] # <<>> => CallOK(t))' /\ ListOK(t)'
      /\ \A i \in Jobs : ~ Drives(t, i)' /\ ~ Drives(t, i)
      /\ ~ Promoting(t)'
  BY <1>1, NoCall DEF Drives
<1>10. Stores'
  <2>1. StageAfter(answer[t].s) \in Stages
    BY DEF StageAfter, Stages
  <2>2. run' \in [Mints -> [job : JobOrNone, tok : Nat, stage : Stages]]
    BY <1>2, <2>1 DEF Reply, Serves, Inv, Stores
  <2>3. answer' \in [Threads -> [n : {0} \cup Mints, s : Statuses]]
    BY <1>1 DEF Inv, Stores, NoAnswer, Statuses
  <2>4. QED  BY <1>1, <2>2, <2>3 DEF Inv, Stores
<1>11. Local(t, j)
  <2>1. \A i \in Jobs : Same(i)
    BY <1>1 DEF Same
  <2>2. \A m \in Mints : run'[m] = run[m] \/ m = answer[t].n
    BY <1>2, <1>7
  <2>3. QED  BY <1>1, <1>8, <1>9, <2>1, <2>2 DEF Local
<1>12. JobOK(j)'
  <2>1. JobOK(j)
    BY DEF Inv, Project
  <2>2. DepStatus(j)' = DepStatus(j)
    BY <1>1 DEF DepStatus
  <2>3. \A u \in Threads : Drives(u, j)' <=> Drives(u, j)
    BY <1>9, <1>11, DrivesSame
  <2>4. QED  BY <1>1, <2>1, <2>2, <2>3 DEF JobOK
<1>13. OneEntry'
  BY <1>1 DEF Inv, Project, OneEntry
<1>14. AnswerOK(t)'
  BY <1>8 DEF AnswerOK, NoAnswer
<1>15. WorkerOK(n)'
  <2>1. n <= mints'
    BY <1>1, <1>3, <1>4 DEF WorkerOK
  <2>2. StageAfter(answer[t].s) # "start"
    BY DEF StageAfter
  <2>3. StageAfter(answer[t].s) \in Working =>
          job[j].cb = n /\ job[j].status = StatusAt(StageAfter(answer[t].s))
    BY <1>6 DEF Working, StageAfter, StatusAt
  <2>4. QED  BY <1>1, <1>7, <2>1, <2>2, <2>3 DEF WorkerOK
<1>16. \A m \in Mints : \/ m = answer[t].n
                        \/ m = answer'[t].n
                        \/ At(t, "workflow") /\ Top(t).n = m
         => WorkerOK(m)'
  <2>1. 0 \notin Mints /\ ~ At(t, "workflow")
    BY <1>1, MintsFacts DEF At
  <2>2. QED  BY <1>2, <1>8, <1>15, <2>1
<1>17. QED  BY <1>9, <1>10, <1>11, <1>12, <1>13, <1>14, <1>16, StepKeeps

(* The dispatch worker takes an entry: its job is DISPATCHING, nobody else
   drives it, and there is no other entry for it. *)
LEMMA ResolveReadKeeps ==
    ASSUME Inv, NEW t \in Threads, NEW id \in pending, ResolveRead(t, id)
    PROVE  Inv'
<1>1. /\ stack[t] = <<>> /\ answer[t] = NoAnswer /\ pending' = pending \ {id}
      /\ UNCHANGED <<job, lk, run, answer, mints, queuedIds>>
  BY DEF ResolveRead, Start, Idle, workers
<1>2. PICK j \in Jobs : j = id[1]
  BY DEF Inv, Stores
<1>3. JobOK(j)
  BY DEF Inv, Project
<1>4. job[j].status = "DISPATCHING" /\ \A u \in Threads : ~ Drives(u, j)
  BY <1>2, <1>3 DEF JobOK
<1>5. \A e \in pending' : e[1] # j
  BY <1>1, <1>2 DEF Inv, Project, OneEntry
<1>6. PICK y \in FrameType : y = Call("resolve", j) /\ y.op = "resolve" /\ y.j = j
  BY Frames DEF CalmOps
<1>7. stack' = [stack EXCEPT ![t] = <<y>>]
  BY <1>2, <1>4, <1>6 DEF ResolveRead, Start
<1>8. /\ stack' = [u \in Threads |-> stack'[u]] /\ stack'[t] = <<y>>
      /\ \A u \in Threads \ {t} : stack'[u] = stack[u]
  BY <1>7 DEF Inv, Stores
<1>9. /\ ~ Early(t)' /\ ~ Promoting(t)' /\ Form(stack[t])' /\ ListOK(t)' /\ Top(t)' = y
      /\ \A i \in Jobs : Drives(t, i)' <=> i = j
  BY <1>6, <1>8, OneCall DEF Unchecked
<1>10. CallOK(t)'
  BY <1>1, <1>4, <1>6, <1>9 DEF CallOK, StatusFits, UpdateFits, Prepared
<1>11. Stores'
  BY <1>1, <1>8 DEF Inv, Stores
<1>12. Local(t, j)
  <2>1. \A i \in Jobs : Same(i)
    BY <1>1 DEF Same
  <2>2. \A i \in Jobs : ~ Drives(t, i)
    BY <1>1 DEF Drives
  <2>3. \A e \in queuedIds : e[1] # j => (e \in pending <=> e \in pending')
    BY <1>1, <1>2
  <2>4. QED  BY <1>1, <1>4, <1>8, <1>9, <2>1, <2>2, <2>3 DEF Local
<1>13. JobOK(j)'
  <2>1. DepStatus(j)' = DepStatus(j)
    BY <1>1 DEF DepStatus
  <2>2. Drives(t, j)'
    BY <1>9
  <2>3. QED  BY <1>1, <1>3, <1>5, <2>1, <2>2 DEF JobOK
<1>14. OneEntry'
  BY <1>1 DEF Inv, Project, OneEntry
<1>15. AnswerOK(t)'
  BY <1>1 DEF AnswerOK, NoAnswer
<1>16. \A m \in Mints : \/ m = answer[t].n
                        \/ m = answer'[t].n
                        \/ At(t, "workflow") /\ Top(t).n = m
         => WorkerOK(m)'
  BY <1>1, MintsFacts DEF NoAnswer, At
<1>17. QED  BY <1>9, <1>10, <1>11, <1>12, <1>13, <1>14, <1>15, <1>16, StepKeeps

-----------------------------------------------------------------------------
(* Steps of no request *)

(* A step of a worker on its own, or none. *)
LEMMA WorkerStep ==
    ASSUME Inv, Stores', UNCHANGED <<lk, stack, answer, mints, pending, queuedIds>>,
           \A i \in Jobs : Same(i),
           \A n \in Mints :
              \/ run'[n] = run[n]
              \/ /\ ~ Waiting(n) /\ run[n].stage # "none"
                 /\ run'[n].stage = "gone" /\ run'[n].job = run[n].job
    PROVE  Inv'
<1>1. \A t \in Threads : answer[t].n # 0 => run'[answer[t].n] = run[answer[t].n]
  BY DEF Waiting, Serves, Inv, Stores
<1>2. \A t \in Threads : Early(t)' <=> Early(t)
  BY DEF Early, Top
<1>3. \A t \in Threads, j \in Jobs : Drives(t, j)' <=> Drives(t, j)
  BY DEF Drives, Unchecked, Top
<1>4. \A i \in Jobs : DepStatus(i)' = DepStatus(i)
  BY DEF DepStatus, Same, Inv, Stores, JobType, JobOrNone
<1>5. ASSUME NEW t \in Threads, stack[t] # <<>>
      PROVE  CallOK(t)'
  <2>1. PICK x \in FrameType : x = Top(t) /\ Top(t)' = x
    BY <1>5, Called DEF Top
  <2>2. CallOK(t) /\ x.j \in Jobs
    BY <1>5, <2>1, Called
  <2>3. /\ job'[x.j].status = job[x.j].status /\ job'[x.j].attempt = job[x.j].attempt
        /\ job'[x.j].dep = job[x.j].dep /\ job'[x.j].cb = job[x.j].cb
        /\ DepStatus(x.j)' = DepStatus(x.j)
    BY <1>4, <2>2 DEF Same
  <2>4. StatusFits(t)'
    BY <2>1, <2>2, <2>3 DEF CallOK, StatusFits, ReleasesToEnd
  <2>5. UpdateFits(t)'
    <3>1. answer[t].n = 0 => answer[t].s = "NONE"
      BY DEF Inv, Requests, AnswerOK, NoAnswer
    <3>2. answer[t].s \in WorkerStatuses => run'[answer[t].n] = run[answer[t].n]
      BY <1>1, <3>1 DEF WorkerStatuses
    <3>3. QED  BY <2>1, <2>2, <2>3, <3>2 DEF CallOK, UpdateFits
  <2>6. Prepared(t)'
    <3>1. x.op = "workflow" => run'[x.n].stage = "none"
      BY <2>1, <2>2 DEF CallOK, Prepared
    <3>2. QED  BY <2>1, <2>2, <2>3, <3>1 DEF CallOK, Prepared
  <2>7. QED  BY <2>4, <2>5, <2>6 DEF CallOK
<1>6. ASSUME NEW t \in Threads
      PROVE  AnswerOK(t)'
  <2>1. AnswerOK(t)
    BY DEF Inv, Requests
  <2>2. CASE answer[t].n = 0
    BY <2>1, <2>2 DEF AnswerOK, NoAnswer
  <2>3. CASE answer[t].n # 0
    <3>1. PICK m \in Mints : m = answer[t].n
      BY <2>3 DEF Inv, Stores
    <3>2. run'[m] = run[m]
      BY <1>1, <2>3, <3>1
    <3>3. run[m].stage # "none" /\ answer[t].s \in Posts(m) /\ WorkerOK(m)
      BY <2>1, <2>3, <3>1 DEF AnswerOK, Inv, Project
    <3>4. (answer[t].s \in Posts(m))'
      BY <3>2, <3>3 DEF Posts
    <3>5. Same(run[m].job)
      BY <3>3 DEF WorkerOK
    <3>6. (answer[t].n = m)' /\ answer[t].n = m
      BY <3>1
    <3>7. QED  BY <1>2, <2>1, <2>3, <3>2, <3>4, <3>5, <3>6 DEF AnswerOK, Same, StageAfter, Top
  <2>4. QED  BY <2>2, <2>3
<1>7. ASSUME NEW t \in Threads
      PROVE  Form(stack[t])' /\ ListOK(t)'
  <2>1. Form(stack[t]) /\ ListOK(t)
    BY DEF Inv, Requests
  <2>2. Form(stack[t])'
    BY <2>1 DEF Form
  <2>3. \A k \in DOMAIN stack[t] : stack[t][k] \in FrameType
    BY <2>1 DEF Form
  <2>4. \A k \in DOMAIN stack[t] : \A e \in stack[t][k].w : e[1] \in Jobs
    BY <2>3 DEF FrameType
  <2>5. QED  BY <2>1, <2>2, <2>4 DEF ListOK, Same
<1>8. Requests'
  BY <1>5, <1>6, <1>7 DEF Requests
<1>9. Alone'
  <2>1. \A t \in Threads : Promoting(t)' <=> Promoting(t)
    BY DEF Promoting, At
  <2>2. QED  BY <1>3, <2>1 DEF Inv, Alone
<1>10. ASSUME NEW m \in Mints
       PROVE  WorkerOK(m)'
  <2>1. WorkerOK(m)
    BY DEF Inv, Project
  <2>2. Answered(m)' <=> Answered(m)
    BY <1>2 DEF Answered
  <2>3. CASE run'[m] = run[m]
    BY <2>1, <2>2, <2>3 DEF WorkerOK, Same, Working
  <2>4. CASE run'[m].stage = "gone" /\ run'[m].job = run[m].job /\ run[m].stage # "none"
    BY <2>1, <2>4 DEF WorkerOK, Working
  <2>5. QED  BY <2>3, <2>4
<1>11. ASSUME NEW j \in Jobs
       PROVE  JobOK(j)'
  <2>1. JobOK(j) /\ Same(j)
    BY DEF Inv, Project
  <2>2. QED  BY <1>3, <1>4, <2>1 DEF JobOK, Same
<1>12. Tokens' /\ OneEntry'
  BY DEF Inv, Project, Tokens, OneEntry, Same
<1>13. QED  BY <1>8, <1>9, <1>10, <1>11, <1>12 DEF Inv, Project

LEMMA HeartbeatKeeps ==
    ASSUME Inv, NEW n \in Mints, Heartbeat(n)
    PROVE  Inv'
<1>1. UNCHANGED <<lk, stack, run, answer, mints, pending, queuedIds>>
  BY DEF Heartbeat, workers, queueVars
<1>2. run[n].job \in Jobs
  BY DEF Heartbeat, MayBeat, Alive, Inv, Project, WorkerOK
<1>3. job' \in [Jobs -> JobType] /\ \A i \in Jobs : Same(i)
  <2>1. PICK j \in Jobs : j = run[n].job
    BY <1>2
  <2>2. PICK r \in JobType : job' = [job EXCEPT ![j] = r] /\ r = [job[j] EXCEPT !.beat = TRUE]
    <3> DEFINE r == [job[j] EXCEPT !.beat = TRUE]
    <3>1. r \in JobType
      BY DEF Inv, Stores, JobType
    <3>2. job' = [job EXCEPT ![j] = r]
      BY <2>1 DEF Heartbeat
    <3>3. QED  BY <3>1, <3>2
  <2>3. /\ r.status = job[j].status /\ r.attempt = job[j].attempt
        /\ r.dep = job[j].dep /\ r.cb = job[j].cb
    BY <2>2 DEF Inv, Stores, JobType
  <2>4. job' \in [Jobs -> JobType] /\ job'[j] = r /\ \A i \in Jobs \ {j} : job'[i] = job[i]
    BY <2>2 DEF Inv, Stores
  <2>5. QED  BY <2>3, <2>4 DEF Same
<1>4. Stores'
  BY <1>1, <1>3 DEF Inv, Stores
<1>5. QED  BY <1>1, <1>3, <1>4, WorkerStep

LEMMA WorkerDiesKeeps ==
    ASSUME Inv, NEW n \in Mints, WorkerDies(n)
    PROVE  Inv'
<1>1. /\ run' = [run EXCEPT ![n].stage = "gone"] /\ ~ Waiting(n) /\ run[n].stage # "none"
      /\ UNCHANGED <<job, lk, stack, answer, mints, pending, queuedIds>>
  BY DEF WorkerDies, Alive, queueVars
<1>2. /\ run' \in [Mints -> [job : JobOrNone, tok : Nat, stage : Stages]]
      /\ run'[n].stage = "gone" /\ run'[n].job = run[n].job
      /\ \A m \in Mints \ {n} : run'[m] = run[m]
  BY <1>1 DEF Inv, Stores, Stages
<1>3. Stores'
  BY <1>1, <1>2 DEF Inv, Stores
<1>4. \A i \in Jobs : Same(i)
  BY <1>1 DEF Same
<1>5. QED  BY <1>1, <1>2, <1>3, <1>4, WorkerStep

-----------------------------------------------------------------------------
(* Every step *)

Events == {"scans", "reclaims", "retries", "expiries"}

(* What has crossed stays on record. *)
LEMMA CrossedGrows ==
    ASSUME [Next]_vars
    PROVE  crossed \subseteq crossed' /\ crossed' \subseteq crossed \cup {"callback", "promotion"}
<1>0. history' = history => crossed' = crossed
  BY DEF history
<1>1. CASE UNCHANGED vars
  BY <1>1 DEF vars
<1>2. ASSUME NEW t \in Threads, ThreadStep(t)
      PROVE  crossed \subseteq crossed' /\ crossed' \subseteq crossed \cup {"callback", "promotion"}
  <2>1. ReleaseLock(t) \/ SlotRead(t) \/ CreateInsert(t) \/ DispatchRead(t) \/ BlockWrite(t)
          \/ LockGeneration(t) \/ LockTarget(t) \/ Provision(t)
        => crossed' = crossed
    BY <1>0, Zenon DEF ReleaseLock, SlotRead, CreateInsert, DispatchRead, BlockWrite,
                       LockGeneration, LockTarget, Provision
  <2>2. DispatchWorkflow(t) \/ Enqueue(t) \/ UpdateRead(t) \/ UpdateWrite(t) \/ FailRead(t)
          \/ Requeue(t) \/ Bury(t) \/ PromoteNext(t) \/ PromoteWrite(t)
        => crossed' = crossed
    BY <1>0, Zenon DEF DispatchWorkflow, Enqueue, UpdateRead, UpdateWrite, FailRead, Requeue,
                       Bury, PromoteNext, PromoteWrite
  <2>3. Reply(t) \/ ResolveDone(t) \/ ScanLock(t) \/ ScanJob(t) \/ StaleWrite(t)
          \/ StaleRead(t) \/ StaleRetry(t) \/ AdminJobs(t) \/ AdminNext(t) \/ Revive(t)
        => crossed' = crossed
    BY <1>0, Zenon DEF Reply, ResolveDone, ScanLock, ScanJob, StaleWrite, StaleRead, StaleRetry,
                       AdminJobs, AdminNext, Revive
  <2>4. MarkDispatching(t) =>
          crossed \subseteq crossed' /\ crossed' \subseteq crossed \cup {"callback", "promotion"}
    BY DEF MarkDispatching
  <2>5. PromoteRead(t) =>
          crossed \subseteq crossed' /\ crossed' \subseteq crossed \cup {"callback", "promotion"}
    BY DEF PromoteRead
  <2>6. QED  BY <1>2, <2>1, <2>2, <2>3, <2>4, <2>5 DEF ThreadStep
<1>3. ASSUME NEW t \in Threads, Request(t)
      PROVE  crossed' = crossed
  <2>1. CreateRequest(t) => crossed' = crossed
    BY <1>0, Zenon DEF CreateRequest, CreateRead
  <2>2. (\E n \in Mints : \E s \in Posts(n) : Callback(t, n, s)) => crossed' = crossed
    BY <1>0, Zenon DEF Callback
  <2>3. TakeDispatch(t) => crossed' = crossed
    BY <1>0, Zenon DEF TakeDispatch, ResolveRead
  <2>4. ScanRead(t) \/ (\E l \in Locks : AdminReclaim(t, l))
          \/ (\E j \in Jobs : RetryDeadLetter(t, j))
        => crossed' = crossed
    BY Zenon DEF ScanRead, AdminReclaim, RetryDeadLetter
  <2>5. QED  BY <1>3, <2>1, <2>2, <2>3, <2>4, Zenon DEF Request
<1>4. ASSUME NEW n \in Mints, Heartbeat(n) \/ WorkerDies(n)
      PROVE  crossed' = crossed
  BY <1>0, <1>4, Zenon DEF Heartbeat, WorkerDies
<1>5. ASSUME NEW l \in Locks, LockExpires(l)
      PROVE  crossed' = crossed
  BY <1>5, Zenon DEF LockExpires
<1>6. QED  BY <1>1, <1>2, <1>3, <1>4, <1>5 DEF Next

(* Only scans, reclaims, retries and expiries are counted. *)
LEMMA QuietBudget ==
    ASSUME [Next]_vars,
           \A t \in Threads : ~ ScanRead(t),
           \A t \in Threads, l \in Locks : ~ AdminReclaim(t, l),
           \A t \in Threads, j \in Jobs : ~ RetryDeadLetter(t, j),
           \A l \in Locks : ~ LockExpires(l)
    PROVE  budget' = budget
<1>0. history' = history => budget' = budget
  BY DEF history
<1>1. CASE UNCHANGED vars
  BY <1>1 DEF vars
<1>2. ASSUME NEW t \in Threads, ThreadStep(t)
      PROVE  budget' = budget
  <2>1. ReleaseLock(t) \/ SlotRead(t) \/ CreateInsert(t) \/ DispatchRead(t) \/ BlockWrite(t)
          \/ LockGeneration(t) \/ LockTarget(t) \/ Provision(t) \/ MarkDispatching(t)
        => budget' = budget
    BY <1>0, Zenon DEF ReleaseLock, SlotRead, CreateInsert, DispatchRead, BlockWrite, LockGeneration, LockTarget,
                 Provision, MarkDispatching
  <2>2. DispatchWorkflow(t) \/ Enqueue(t) \/ UpdateRead(t) \/ UpdateWrite(t) \/ FailRead(t)
          \/ Requeue(t) \/ Bury(t) \/ PromoteRead(t) \/ PromoteNext(t) \/ PromoteWrite(t)
        => budget' = budget
    BY <1>0, Zenon DEF DispatchWorkflow, Enqueue, UpdateRead, UpdateWrite, FailRead, Requeue, Bury, PromoteRead,
                 PromoteNext, PromoteWrite
  <2>3. Reply(t) \/ ResolveDone(t) \/ ScanLock(t) \/ ScanJob(t) \/ StaleWrite(t)
          \/ StaleRead(t) \/ StaleRetry(t) \/ AdminJobs(t) \/ AdminNext(t) \/ Revive(t)
        => budget' = budget
    BY <1>0, Zenon DEF Reply, ResolveDone, ScanLock, ScanJob, StaleWrite, StaleRead, StaleRetry,
                 AdminJobs, AdminNext, Revive
  <2>4. QED  BY <1>2, <2>1, <2>2, <2>3 DEF ThreadStep
<1>3. ASSUME NEW t \in Threads, Request(t)
      PROVE  budget' = budget
  <2>1. CreateRequest(t) => budget' = budget
    BY <1>0, Zenon DEF CreateRequest, CreateRead
  <2>2. (\E n \in Mints : \E s \in Posts(n) : Callback(t, n, s)) => budget' = budget
    BY <1>0, Zenon DEF Callback
  <2>3. TakeDispatch(t) => budget' = budget
    BY <1>0, Zenon DEF TakeDispatch, ResolveRead
  <2>4. QED  BY <1>3, <2>1, <2>2, <2>3, Zenon DEF Request
<1>4. ASSUME NEW n \in Mints, Heartbeat(n) \/ WorkerDies(n)
      PROVE  budget' = budget
  BY <1>0, <1>4, Zenon DEF Heartbeat, WorkerDies
<1>5. QED  BY <1>1, <1>2, <1>3, <1>4 DEF Next

LEMMA BudgetStep ==
    ASSUME [Next]_vars
    PROVE  \/ budget' = budget
           \/ \E e \in Events : budget' = [budget EXCEPT ![e] = budget[e] + 1]
<1>1. ASSUME NEW e \in Events, NEW bound, Spend(e, bound)
      PROVE  budget' = [budget EXCEPT ![e] = budget[e] + 1]
  BY <1>1 DEF Spend
<1>2. "scans" \in Events /\ "reclaims" \in Events /\ "retries" \in Events
      /\ "expiries" \in Events
  BY DEF Events
<1>3. \/ \E t \in Threads : ScanRead(t)
      \/ \E t \in Threads, l \in Locks : AdminReclaim(t, l)
      \/ \E t \in Threads, j \in Jobs : RetryDeadLetter(t, j)
      \/ \E l \in Locks : LockExpires(l)
      => \E e \in Events : budget' = [budget EXCEPT ![e] = budget[e] + 1]
  BY <1>1, <1>2, Zenon DEF ScanRead, AdminReclaim, RetryDeadLetter, LockExpires
<1>4. QED  BY <1>3, QuietBudget

(* What is calm after a step was calm before it. *)
LEMMA CalmStep ==
    ASSUME BudgetType, [Next]_vars
    PROVE  BudgetType' /\ (Calm' => Calm /\ budget' = budget)
<1>0. crossed \subseteq crossed'
  BY CrossedGrows
<1>1. CASE budget' = budget
  BY <1>0, <1>1 DEF BudgetType, Calm
<1>2. CASE \E e \in Events : budget' = [budget EXCEPT ![e] = budget[e] + 1]
  <2>1. PICK e \in Events : budget' = [budget EXCEPT ![e] = budget[e] + 1]
    BY <1>2
  <2>2. budget[e] \in Nat
    BY DEF BudgetType, Events
  <2>3. budget'[e] = budget[e] + 1
    BY <2>1 DEF BudgetType, Events
  <2>4. budget'[e] # 0
    BY <2>2, <2>3
  <2>5. ~ Calm'
    BY <2>4 DEF Calm, Events
  <2>6. BudgetType'
    BY <2>1, <2>2 DEF BudgetType, Events
  <2>7. QED  BY <2>5, <2>6
<1>3. QED  BY <1>1, <1>2, BudgetStep

(* While it is calm no request comes from a scan or an administrator. *)
LEMMA CalmCall ==
    ASSUME Inv, NEW t \in Threads
    PROVE  /\ ~ ScanLock(t) /\ ~ ScanJob(t) /\ ~ StaleWrite(t) /\ ~ StaleRead(t)
           /\ ~ StaleRetry(t) /\ ~ AdminJobs(t) /\ ~ AdminNext(t) /\ ~ Revive(t)
<1>1. stack[t] # <<>> =>
        Head(stack[t]).op \notin {"scanlocks", "scanjobs", "stale", "staleread", "staleretry",
                                  "adminjobs", "adminnext", "revive"}
  BY Called DEF Top, FrameType, CalmOps
<1>2. /\ ~ At(t, "scanlocks") /\ ~ At(t, "scanjobs") /\ ~ At(t, "stale") /\ ~ At(t, "staleread")
      /\ ~ At(t, "staleretry") /\ ~ At(t, "adminjobs") /\ ~ At(t, "adminnext")
      /\ ~ At(t, "revive")
  BY <1>1 DEF At
<1>3. QED
  BY <1>2, Zenon
  DEF ScanLock, ScanJob, StaleWrite, StaleRead, StaleRetry, AdminJobs, AdminNext, Revive

LEMMA ThreadStepKeeps ==
    ASSUME Inv, crossed' = {}, NEW t \in Threads, ThreadStep(t)
    PROVE  Inv'
<1>1. CASE ReleaseLock(t)       BY <1>1, ReleaseLockKeeps
<1>2. CASE CreateInsert(t)      BY <1>2, CreateInsertKeeps
<1>3. CASE DispatchRead(t)      BY <1>3, DispatchReadKeeps
<1>4. CASE BlockWrite(t)        BY <1>4, BlockWriteKeeps
<1>5. CASE LockGeneration(t)    BY <1>5, LockGenerationKeeps
<1>6. CASE LockTarget(t)        BY <1>6, LockTargetKeeps
<1>7. CASE Provision(t)         BY <1>7, ProvisionKeeps
<1>8. CASE MarkDispatching(t)   BY <1>8, MarkDispatchingKeeps
<1>9. CASE DispatchWorkflow(t) \/ Enqueue(t) \/ SlotRead(t)
  BY <1>9, DispatchWorkflowKeeps, EnqueueKeeps, SlotReadKeeps
<1>10. CASE UpdateRead(t)       BY <1>10, UpdateReadKeeps
<1>11. CASE UpdateWrite(t)
  <2>1. CASE Early(t)           BY <1>11, <2>1, WorkerWriteKeeps
  <2>2. CASE ~ Early(t)         BY <1>11, <2>2, OwnWriteKeeps
  <2>3. QED                     BY <2>1, <2>2
<1>12. CASE FailRead(t)         BY <1>12, FailReadKeeps
<1>13. CASE Requeue(t)          BY <1>13, RequeueKeeps
<1>14. CASE Bury(t)             BY <1>14, BuryKeeps
<1>15. CASE PromoteRead(t)      BY <1>15, PromoteReadKeeps
<1>16. CASE PromoteNext(t)      BY <1>16, PromoteNextKeeps
<1>17. CASE PromoteWrite(t)     BY <1>17, PromoteWriteKeeps
<1>18. CASE Reply(t)            BY <1>18, ReplyKeeps
<1>19. CASE ResolveDone(t)      BY <1>19, ResolveDoneKeeps
<1>20. /\ ~ ScanLock(t) /\ ~ ScanJob(t) /\ ~ StaleWrite(t) /\ ~ StaleRead(t)
       /\ ~ StaleRetry(t) /\ ~ AdminJobs(t) /\ ~ AdminNext(t) /\ ~ Revive(t)
  BY CalmCall
<1>21. QED
  BY <1>1, <1>2, <1>3, <1>4, <1>5, <1>6, <1>7, <1>8, <1>9, <1>10, <1>11, <1>12, <1>13, <1>14,
     <1>15, <1>16, <1>17, <1>18, <1>19, <1>20 DEF ThreadStep

(* What a request starts that is not counted in the budget. *)
LEMMA RequestKeeps ==
    ASSUME Inv, BudgetType, Calm, Calm', NEW t \in Threads, Request(t)
    PROVE  Inv'
<1>1. /\ ~ ScanRead(t)
      /\ \A l \in Locks : ~ AdminReclaim(t, l)
      /\ \A j \in Jobs : ~ RetryDeadLetter(t, j)
  <2>1. \A e \in Events : budget'[e] = 0 /\ budget[e] = 0
    BY DEF Calm, Events
  <2>2. ASSUME NEW e \in Events, NEW bound, Spend(e, bound)
        PROVE  FALSE
    <3>1. budget' = [budget EXCEPT ![e] = budget[e] + 1]
      BY <2>2 DEF Spend
    <3>2. budget'[e] = budget[e] + 1
      BY <3>1 DEF BudgetType, Events
    <3>3. QED  BY <2>1, <3>2
  <2>3. \A e \in Events : \A b : ~ Spend(e, b)
    BY <2>2
  <2>4. "scans" \in Events /\ "reclaims" \in Events /\ "retries" \in Events
    BY DEF Events
  <2>5. QED  BY <2>3, <2>4, Zenon DEF ScanRead, AdminReclaim, RetryDeadLetter
<1>2. CASE CreateRequest(t)
  <2>1. PICK j \in Jobs, d \in {i \in Jobs : Exists(i)} \cup {NoJob} : CreateRead(t, j, d)
    BY <1>2, Zenon DEF CreateRequest
  <2>2. d \in JobOrNone
    BY DEF JobOrNone
  <2>3. QED  BY <2>1, <2>2, CreateReadKeeps
<1>3. CASE \E n \in Mints : \E s \in Posts(n) : Callback(t, n, s)
  BY <1>3, CallbackKeeps
<1>4. CASE TakeDispatch(t)
  BY <1>4, ResolveReadKeeps DEF TakeDispatch
<1>5. QED  BY <1>1, <1>2, <1>3, <1>4, Zenon DEF Request

LEMMA StutterKeeps ==
    ASSUME Inv, UNCHANGED vars
    PROVE  Inv'
<1>1. UNCHANGED <<job, lk, stack, run, answer, mints, pending, queuedIds>>
  BY DEF vars
<1>2. \A i \in Jobs : Same(i)
  BY <1>1 DEF Same
<1>3. Stores'
  BY <1>1 DEF Inv, Stores
<1>4. QED  BY <1>1, <1>2, <1>3, WorkerStep


-----------------------------------------------------------------------------
(* The invariant *)

LEMMA InvInit ==
    ASSUME Init
    PROVE  BudgetType /\ Inv
<1>1. BudgetType
  BY DEF Init, BudgetType
<1>2. \A j \in Jobs : /\ job[j].status = "NONE" /\ job[j].cb = 0
                      /\ job[j] \in JobType
  BY DEF Init, NewRow, JobType, Statuses, JobOrNone
<1>3. \A t \in Threads : stack[t] = <<>> /\ answer[t] = NoAnswer /\ answer[t].n = 0
  BY DEF Init, NoAnswer
<1>4. \A n \in Mints : run[n].stage = "none"
  BY DEF Init
<1>5. Stores
  <2>1. job \in [Jobs -> JobType]
    BY <1>2 DEF Init
  <2>2. lk \in [Locks -> LockType]
    BY DEF Init, FreeLock, LockType, JobOrNone
  <2>3. run \in [Mints -> [job : JobOrNone, tok : Nat, stage : Stages]]
    BY DEF Init, JobOrNone, Stages
  <2>4. answer \in [Threads -> [n : {0} \cup Mints, s : Statuses]]
    BY DEF Init, NoAnswer, Statuses
  <2>5. /\ stack = [t \in Threads |-> stack[t]] /\ mints \in Nat
        /\ pending \subseteq queuedIds /\ queuedIds \subseteq Jobs \X Nat
    BY DEF Init
  <2>6. QED  BY <2>1, <2>2, <2>3, <2>4, <2>5 DEF Stores
<1>6. \A t \in Threads : /\ Form(stack[t]) /\ ListOK(t) /\ AnswerOK(t)
                         /\ ~ Early(t) /\ ~ Promoting(t)
                         /\ \A j \in Jobs : ~ Drives(t, j)
  <2> SUFFICES ASSUME NEW t \in Threads
               PROVE  /\ Form(stack[t]) /\ ListOK(t) /\ AnswerOK(t)
                      /\ ~ Early(t) /\ ~ Promoting(t)
                      /\ \A j \in Jobs : ~ Drives(t, j)
    OBVIOUS
  <2>1. DOMAIN stack[t] = {}
    BY <1>3
  <2>2. QED  BY <1>3, <2>1 DEF Form, ListOK, AnswerOK, Early, Promoting, At, Drives, NoAnswer
<1>7. Requests /\ Alone
  BY <1>3, <1>6 DEF Requests, Alone
<1>8. Project
  <2>1. \A n \in Mints : WorkerOK(n)
    BY <1>4 DEF WorkerOK, Working
  <2>2. \A j \in Jobs : JobOK(j)
    BY <1>2 DEF JobOK, Init, Running
  <2>3. Tokens /\ OneEntry
    BY <1>2 DEF Tokens, OneEntry, Init
  <2>4. QED  BY <2>1, <2>2, <2>3 DEF Project
<1>9. QED  BY <1>1, <1>5, <1>7, <1>8 DEF Inv

LEMMA NextKeeps ==
    ASSUME IInv, [Next]_vars
    PROVE  IInv'
<1>1. BudgetType' /\ (Calm' => Calm)
  BY CalmStep DEF IInv
<1>2. SUFFICES ASSUME Calm', Calm, Inv, BudgetType PROVE Inv'
  BY <1>1 DEF IInv
<1>3. CASE UNCHANGED vars
  BY <1>2, <1>3, StutterKeeps
<1>4. ASSUME NEW t \in Threads, ThreadStep(t)
      PROVE  Inv'
  BY <1>2, <1>4, ThreadStepKeeps DEF Calm
<1>5. ASSUME NEW t \in Threads, Request(t)
      PROVE  Inv'
  BY <1>2, <1>5, RequestKeeps
<1>6. ASSUME NEW n \in Mints, Heartbeat(n) \/ WorkerDies(n)
      PROVE  Inv'
  BY <1>2, <1>6, HeartbeatKeeps, WorkerDiesKeeps
<1>7. \A l \in Locks : ~ LockExpires(l)
  <2> SUFFICES ASSUME NEW l \in Locks, LockExpires(l) PROVE FALSE
    OBVIOUS
  <2>1. budget' = [budget EXCEPT !["expiries"] = budget["expiries"] + 1]
    BY DEF LockExpires, Spend
  <2>2. budget["expiries"] = 0 /\ budget'["expiries"] = 0
    BY <1>2 DEF Calm
  <2>3. QED  BY <1>2, <2>1, <2>2 DEF BudgetType
<1>8. QED  BY <1>3, <1>4, <1>5, <1>6, <1>7 DEF Next

(* IInv is invariant. *)
LEMMA Invariant == Spec => []IInv
<1>1. Init => IInv
  BY InvInit DEF IInv
<1>2. IInv /\ [Next]_vars => IInv'
  BY NextKeeps
<1>3. QED  BY <1>1, <1>2, PTL DEF Spec

-----------------------------------------------------------------------------
(* Theorems *)

(* While it is calm a job owns its locks from DISPATCHING to its final status:
   dispatchJob acquires them before it marks the row, retries keep them, and
   what another request does to the row never lets them go. *)
THEOREM RunningHoldsLocksThm == Spec => [](Calm => RunningHoldsLocks)
<1>1. IInv => (Calm => RunningHoldsLocks)
  BY DEF IInv, Inv, Project, JobOK, RunningHoldsLocks
<1>2. QED  BY <1>1, Invariant, PTL

(* While it is calm never two workers write the project: a worker that writes
   has its job's callback token and its job, COMMITTING or in
   POST_COMMIT_VERIFY, owns the lock. *)
THEOREM SingleWriterThm == Spec => [](Calm => SingleWriter)
<1>1. ASSUME Inv, NEW n \in Mints, Writing(n)
      PROVE  /\ run[n].job \in Jobs /\ job[run[n].job].cb = n
             /\ lk["generation"].owner = run[n].job
  <2>1. run[n].stage \in {"committing", "verifying"} /\ ~ Answered(n) /\ WorkerOK(n)
    BY <1>1 DEF Writing, Waiting, Serves, Answered, Inv, Project
  <2>2. run[n].job \in Jobs /\ job[run[n].job].cb = n
        /\ job[run[n].job].status \in {"COMMITTING", "POST_COMMIT_VERIFY"}
    BY <2>1 DEF WorkerOK, Working, StatusAt
  <2>3. \A l \in Needs(run[n].job) : lk[l].owner = run[n].job
    BY <1>1, <2>2 DEF Inv, Project, JobOK, Running
  <2>4. "generation" \in Needs(run[n].job)
    BY DEF Needs, Locks
  <2>5. QED  BY <2>2, <2>3, <2>4
<1>2. ASSUME Inv, NEW m \in Mints, NEW n \in Mints, Writing(m), Writing(n)
      PROVE  m = n
  BY <1>1, <1>2
<1>3. IInv => (Calm => SingleWriter)
  BY <1>2 DEF IInv, SingleWriter
<1>4. QED  BY <1>3, Invariant, PTL

(* While it is calm a DISPATCHING job that no request drives has its entry in
   the dispatch queue: the attempt in the entry's id is new whenever a job is
   dispatched, so the queue never takes it for one it has seen. *)
THEOREM DispatchResolvableThm == Spec => [](Calm => DispatchResolvable)
<1>1. ASSUME Inv, Quiet, NEW j \in Jobs, job[j].status = "DISPATCHING"
      PROVE  \E id \in pending : id[1] = j
  <2>1. \A t \in Threads : ~ Drives(t, j)
    BY <1>1 DEF Quiet, Idle, Drives
  <2>2. QED  BY <1>1, <2>1 DEF Inv, Project, JobOK
<1>2. IInv => (Calm => DispatchResolvable)
  BY <1>1 DEF IInv, DispatchResolvable
<1>3. QED  BY <1>2, Invariant, PTL

(* While it is calm a job runs only after the job it depends on COMPLETED:
   the gate is read before the locks are taken and a COMPLETED job stays so. *)
THEOREM DependencyRespectedThm == Spec => [](Calm => DependencyRespected)
<1>1. IInv => (Calm => DependencyRespected)
  BY DEF IInv, Inv, Project, JobOK, DependencyRespected
<1>2. QED  BY <1>1, Invariant, PTL

-----------------------------------------------------------------------------
(* The status machine *)

Follows(i) == CanTransition(job[i].status, job'[i].status)

LEMMA FollowsOne ==
    ASSUME Inv, NEW j \in Jobs, NEW r, job' = [job EXCEPT ![j] = r],
           CanTransition(job[j].status, r.status)
    PROVE  \A i \in Jobs : Follows(i)
<1>1. job'[j] = r /\ \A i \in Jobs \ {j} : job'[i] = job[i]
  BY DEF Inv, Stores
<1>2. QED  BY <1>1 DEF Follows, CanTransition

LEMMA FollowsNone ==
    ASSUME job' = job
    PROVE  \A i \in Jobs : Follows(i)
  BY DEF Follows, CanTransition

(* A row is written from the status that the call was made for. *)
LEMMA RowWritesFollow ==
    ASSUME Inv, NEW t \in Threads,
           BlockWrite(t) \/ MarkDispatching(t) \/ Requeue(t) \/ Bury(t) \/ PromoteWrite(t)
    PROVE  \A i \in Jobs : Follows(i)
<1>1. stack[t] # <<>>
  BY DEF BlockWrite, MarkDispatching, Requeue, Bury, PromoteWrite, At
<1>2. PICK j \in Jobs : j = Top(t).j
  BY <1>1, Called
<1>3. StatusFits(t) /\ job[j] \in JobType
  BY <1>1, <1>2, Called DEF CallOK
<1>4. CASE BlockWrite(t)
  <2> DEFINE r == [job[j] EXCEPT !.status = "BLOCKED"]
  <2>1. Top(t).op = "block" /\ job' = [job EXCEPT ![j] = r]
    BY <1>2, <1>4 DEF BlockWrite, At, Top
  <2>2. job[j].status = "QUEUED" /\ r.status = "BLOCKED"
    BY <1>2, <1>3, <2>1 DEF StatusFits, JobType
  <2>3. CanTransition(job[j].status, r.status)
    BY <2>2 DEF CanTransition, AllowedFrom
  <2>4. QED  BY <2>1, <2>3, FollowsOne
<1>5. CASE MarkDispatching(t)
  <2> DEFINE g == job[j].target \/ j \in CrossJobs
             r == [job[j] EXCEPT !.status = "DISPATCHING", !.lockKey = TRUE, !.cb = mints + 1,
                                 !.target = g]
  <2>1. Top(t).op = "mark" /\ job' = [job EXCEPT ![j] = r]
    BY <1>2, <1>5 DEF MarkDispatching, At, Top
  <2> HIDE DEF g
  <2>2. job[j].status = "QUEUED" /\ r.status = "DISPATCHING"
    BY <1>2, <1>3, <2>1 DEF StatusFits, JobType
  <2>3. CanTransition(job[j].status, r.status)
    BY <2>2 DEF CanTransition, AllowedFrom
  <2>4. QED  BY <2>1, <2>3, FollowsOne
<1>6. CASE Requeue(t)
  <2> DEFINE a == Top(t).a
             r == [job[j] EXCEPT !.status = "QUEUED", !.attempt = a, !.done = FALSE]
  <2>1. Top(t).op = "requeue" /\ job' = [job EXCEPT ![j] = r]
    BY <1>2, <1>6 DEF Requeue, At, Top
  <2> HIDE DEF a
  <2>2. job[j].status \in RetriableFailures /\ r.status = "QUEUED"
    BY <1>2, <1>3, <2>1 DEF StatusFits, JobType
  <2>3. CanTransition(job[j].status, r.status)
    BY <2>2 DEF CanTransition, AllowedFrom, RetriableFailures
  <2>4. QED  BY <2>1, <2>3, FollowsOne
<1>7. CASE Bury(t)
  <2> DEFINE r == [job[j] EXCEPT !.status = "DEAD_LETTER", !.done = TRUE]
  <2>1. Top(t).op = "bury" /\ job' = [job EXCEPT ![j] = r]
    BY <1>2, <1>7 DEF Bury, At, Top
  <2>2. job[j].status \in RetriableFailures /\ r.status = "DEAD_LETTER"
    BY <1>2, <1>3, <2>1 DEF StatusFits, JobType
  <2>3. CanTransition(job[j].status, r.status)
    BY <2>2 DEF CanTransition, AllowedFrom, RetriableFailures
  <2>4. QED  BY <2>1, <2>3, FollowsOne
<1>8. CASE PromoteWrite(t)
  <2> DEFINE r == [job[j] EXCEPT !.status = "QUEUED", !.blockedBy = NoJob]
  <2>1. Top(t).op = "unblock" /\ job' = [job EXCEPT ![j] = r]
    BY <1>2, <1>8 DEF PromoteWrite, At, Top
  <2>2. job[j].status = "BLOCKED" /\ r.status = "QUEUED"
    BY <1>2, <1>3, <2>1 DEF StatusFits, JobType
  <2>3. CanTransition(job[j].status, r.status)
    BY <2>2 DEF CanTransition, AllowedFrom
  <2>4. QED  BY <2>1, <2>3, FollowsOne
<1>9. QED  BY <1>4, <1>5, <1>6, <1>7, <1>8

(* updateStatus: what the check permitted is still permitted at the write. *)
LEMMA UpdateFollows ==
    ASSUME Inv, NEW t \in Threads, UpdateWrite(t)
    PROVE  \A i \in Jobs : Follows(i)
<1>1. stack[t] # <<>> /\ Top(t).op = "write"
  BY WriteCalls
<1>2. PICK j \in Jobs, r \in JobType :
         j = Top(t).j /\ job' = [job EXCEPT ![j] = r] /\ r.status = Top(t).s
  BY WriteCalls
<1>3. UpdateFits(t)
  BY <1>1, Called DEF CallOK
<1>4. CASE Early(t)
  <2>1. PICK n \in Mints : n = answer[t].n
    BY <1>4, EarlyServes
  <2>2. n # 0 /\ Top(t).s = answer[t].s /\ AnswerOK(t)
    BY <1>4, <2>1, EarlyServes DEF Inv, Requests
  <2>3. run[n].stage \in Stages /\ answer[t].s \in Posts(n)
    BY <2>1, <2>2 DEF AnswerOK, Inv, Stores
  <2>4. job[j].status = StatusAt(run[n].stage)
    BY <1>1, <1>2, <1>3, <1>4, <2>1 DEF UpdateFits, Early, WorkerStatuses
  <2>5. CanTransition(job[j].status, r.status)
    BY <1>2, <2>2, <2>3, <2>4 DEF CanTransition, AllowedFrom, StatusAt, Posts, Stages
  <2>6. QED  BY <1>2, <2>5, FollowsOne
<1>5. CASE ~ Early(t)
  <2>1. \/ r.status = "DISPATCH_FAILED" /\ job[j].status \in {"QUEUED", "DISPATCHING"}
        \/ r.status \in {"STAGING", "DISPATCH_TIMEOUT"} /\ job[j].status = "DISPATCHING"
    BY <1>1, <1>2, <1>3, <1>5 DEF UpdateFits, Early
  <2>2. CanTransition(job[j].status, r.status)
    BY <2>1 DEF CanTransition, AllowedFrom
  <2>3. QED  BY <1>2, <2>2, FollowsOne
<1>6. QED  BY <1>4, <1>5

LEMMA InsertFollows ==
    ASSUME Inv, NEW t \in Threads, CreateInsert(t), NEW i \in Jobs, Exists(i)
    PROVE  Follows(i)
<1>1. stack[t] # <<>> /\ Top(t).op = "insert"
  BY DEF CreateInsert, At, Top
<1>2. PICK j \in Jobs : j = Top(t).j
  BY <1>1, Called
<1>3. job[j].status = "NONE"
  BY <1>1, <1>2, Called DEF CallOK, StatusFits
<1>4. PICK r : job' = [job EXCEPT ![j] = r]
  BY <1>2, Zenon DEF CreateInsert
<1>5. job'[i] = job[i]
  BY <1>3, <1>4 DEF Exists, Inv, Stores
<1>6. QED  BY <1>5 DEF Follows, CanTransition

LEMMA ThreadFollows ==
    ASSUME Inv, NEW t \in Threads, ThreadStep(t), NEW i \in Jobs, Exists(i)
    PROVE  Follows(i)
<1>1. CASE CreateInsert(t)
  BY <1>1, InsertFollows
<1>2. CASE BlockWrite(t) \/ MarkDispatching(t) \/ Requeue(t) \/ Bury(t) \/ PromoteWrite(t)
  BY <1>2, RowWritesFollow
<1>3. CASE UpdateWrite(t)
  BY <1>3, UpdateFollows
<1>4. /\ ~ ScanLock(t) /\ ~ ScanJob(t) /\ ~ StaleWrite(t) /\ ~ StaleRead(t)
      /\ ~ StaleRetry(t) /\ ~ AdminJobs(t) /\ ~ AdminNext(t) /\ ~ Revive(t)
  BY CalmCall
<1>5. ReleaseLock(t) \/ DispatchRead(t) \/ LockGeneration(t) \/ LockTarget(t) \/ Provision(t)
        \/ DispatchWorkflow(t) \/ Enqueue(t) \/ SlotRead(t) \/ UpdateRead(t)
      => job' = job
  BY Zenon DEF ReleaseLock, DispatchRead, LockGeneration, LockTarget, Provision,
               DispatchWorkflow, Enqueue, SlotRead, UpdateRead
<1>6. FailRead(t) \/ PromoteRead(t) \/ PromoteNext(t) \/ Reply(t) \/ ResolveDone(t)
      => job' = job
  BY Zenon DEF FailRead, PromoteRead, PromoteNext, Reply, ResolveDone
<1>7. QED
  BY <1>1, <1>2, <1>3, <1>4, <1>5, <1>6, FollowsNone, Zenon DEF ThreadStep

LEMMA StepFollows ==
    ASSUME Inv, [Next]_vars, NEW i \in Jobs, Exists(i)
    PROVE  Follows(i)
<1>1. CASE UNCHANGED vars
  BY <1>1, FollowsNone DEF vars
<1>2. ASSUME NEW t \in Threads, ThreadStep(t)
      PROVE  Follows(i)
  BY <1>2, ThreadFollows
<1>3. ASSUME NEW t \in Threads, Request(t)
      PROVE  Follows(i)
  <2>1. job' = job
    BY <1>3, Zenon DEF Request, CreateRequest, CreateRead, Callback, TakeDispatch, ResolveRead,
                       ScanRead, AdminReclaim, RetryDeadLetter
  <2>2. QED  BY <2>1, FollowsNone
<1>4. ASSUME NEW n \in Mints, Heartbeat(n) \/ WorkerDies(n)
      PROVE  Follows(i)
  <2>1. CASE WorkerDies(n)
    BY <2>1, FollowsNone DEF WorkerDies
  <2>2. CASE Heartbeat(n)
    <3>1. PICK j \in Jobs : j = run[n].job
      BY <2>2 DEF Heartbeat, MayBeat, Alive, Inv, Project, WorkerOK
    <3> DEFINE r == [job[j] EXCEPT !.beat = TRUE]
    <3>2. job' = [job EXCEPT ![j] = r]
      BY <2>2, <3>1 DEF Heartbeat
    <3>3. r.status = job[j].status
      BY DEF Inv, Stores, JobType
    <3>4. CanTransition(job[j].status, r.status)
      BY <3>3 DEF CanTransition
    <3>5. QED  BY <3>2, <3>4, FollowsOne
  <2>3. QED  BY <1>4, <2>1, <2>2
<1>5. ASSUME NEW l \in Locks, LockExpires(l)
      PROVE  Follows(i)
  BY <1>5, FollowsNone DEF LockExpires
<1>6. QED  BY <1>1, <1>2, <1>3, <1>4, <1>5 DEF Next

(* While it is calm every write of a job's status, the ones that bypass
   updateStatus included, follows JOB_STATUS_TRANSITIONS from the status the
   row has when it is written. *)
THEOREM FsmRespectedThm == Spec => [][Calm => FsmStep]_vars
<1>1. ASSUME IInv, Calm, [Next]_vars
      PROVE  FsmStep
  BY <1>1, StepFollows DEF IInv, Follows, FsmStep
<1>2. IInv /\ [Next]_vars => [Calm => FsmStep]_vars
  BY <1>1
<1>3. QED  BY <1>2, Invariant, PTL DEF Spec

(* While it is calm no step takes a job out of a final status: from one of them
   the status machine has nowhere to go. *)
THEOREM TerminalIsFinalThm ==
    Spec => [][Calm => \A j \in Jobs : job[j].status \in Terminal => Kept(j)]_vars
<1>1. ASSUME FsmStep, NEW j \in Jobs, job[j].status \in Terminal
      PROVE  Kept(j)
  <2>1. Exists(j) /\ AllowedFrom(job[j].status) = {}
    BY <1>1 DEF Exists, Terminal, AllowedFrom
  <2>2. QED  BY <1>1, <2>1 DEF CanTransition, Kept, FsmStep
<1>2. [Calm => FsmStep]_vars =>
        [Calm => \A j \in Jobs : job[j].status \in Terminal => Kept(j)]_vars
  BY <1>1
<1>3. QED  BY <1>2, FsmRespectedThm, PTL

-----------------------------------------------------------------------------
(* The generation lock of a finished job *)

(* A call of request t that concerns job j and no other. *)
Concerns(t, j) ==
    /\ \A u \in Threads \ {t} : stack'[u] = stack[u]
    /\ \A i \in Jobs \ {j} :
          /\ job'[i].lockKey = job[i].lockKey /\ job'[i].status = job[i].status
          /\ lk'["generation"].owner = i => lk["generation"].owner = i

LEMMA WantedKept ==
    ASSUME Inv, Wanted, NEW t \in Threads, NEW j \in Jobs, Concerns(t, j), Drives(t, j),
           lk'["target-path"].owner \in CrossJobs \cup {NoJob}, KnowsLock(t)', LockWanted(j)'
    PROVE  Wanted'
<1>1. ASSUME NEW i \in Jobs \ {j}
      PROVE  LockWanted(i)'
  <2>1. ~ Holding(t, i)
    BY Called DEF Holding, DrivesAt, Drives
  <2>2. \A u \in Threads : Holding(u, i) => Holding(u, i)'
    BY <2>1 DEF Holding, DrivesAt, Concerns, Top
  <2>3. LockWanted(i)
    BY DEF Wanted
  <2>4. /\ job'[i].lockKey = job[i].lockKey /\ job'[i].status = job[i].status
        /\ lk'["generation"].owner = i => lk["generation"].owner = i
    BY DEF Concerns
  <2>5. QED  BY <2>2, <2>3, <2>4 DEF LockWanted
<1>2. ASSUME NEW u \in Threads \ {t}
      PROVE  KnowsLock(u)'
  <2>1. stack'[u] = stack[u] /\ Top(u)' = Top(u) /\ KnowsLock(u)
    BY DEF Concerns, Top, Wanted
  <2>2. CASE stack[u] = <<>> \/ Top(u).op \notin {"write", "bury"}
    BY <2>1, <2>2 DEF KnowsLock
  <2>3. CASE stack[u] # <<>> /\ Top(u).op \in {"write", "bury"}
    <3>1. PICK i \in Jobs : i = Top(u).j
      BY <2>3, Called
    <3>2. Drives(u, i)
      BY <2>3, <3>1 DEF Drives, Unchecked
    <3>3. i # j
      BY <3>2 DEF Inv, Alone
    <3>4. job'[i].lockKey = job[i].lockKey
      BY <3>3 DEF Concerns
    <3>5. QED  BY <2>1, <2>3, <3>1, <3>4 DEF KnowsLock
  <2>4. QED  BY <2>2, <2>3
<1>3. QED  BY <1>1, <1>2 DEF Wanted

(* A call that changes neither rows nor locks. *)
LEMMA WantedSame ==
    ASSUME Inv, Wanted, NEW t \in Threads, UNCHANGED <<job, lk>>,
           \A u \in Threads \ {t} : stack'[u] = stack[u],
           \A j \in Jobs : Holding(t, j) => Holding(t, j)', KnowsLock(t)'
    PROVE  Wanted'
<1>1. ASSUME NEW i \in Jobs
      PROVE  LockWanted(i)'
  <2>1. \A u \in Threads : Holding(u, i) => Holding(u, i)'
    BY DEF Holding, DrivesAt, Top
  <2>2. LockWanted(i)
    BY DEF Wanted
  <2>3. QED  BY <2>1, <2>2 DEF LockWanted
<1>2. ASSUME NEW u \in Threads \ {t}
      PROVE  KnowsLock(u)'
  BY <1>2 DEF Wanted, KnowsLock, Top
<1>3. QED  BY <1>1, <1>2 DEF Wanted

(* A call whose next call needs to know nothing. *)
LEMMA WantedUsual ==
    ASSUME Inv, Wanted, NEW t \in Threads, UNCHANGED <<job, lk>>,
           \A u \in Threads \ {t} : stack'[u] = stack[u],
           stack[t] # <<>> => Top(t).op \notin {"locktarget", "provision", "mark", "release"},
           stack'[t] # <<>> => Top(t)'.op \notin {"locktarget", "provision", "write", "bury"}
    PROVE  Wanted'
<1>1. KnowsLock(t)'
  BY DEF KnowsLock
<1>2. \A j \in Jobs : ~ Holding(t, j)
  BY DEF Holding, DrivesAt
<1>3. QED  BY <1>1, <1>2, WantedSame

(* A call that writes the row of the job it drives. *)
LEMMA WantedWrite ==
    ASSUME Inv, Wanted, NEW t \in Threads, NEW j \in Jobs, Drives(t, j),
           NEW r, job' = [job EXCEPT ![j] = r], lk' = lk,
           \A u \in Threads \ {t} : stack'[u] = stack[u],
           r.status # "NONE", KnowsLock(t)',
           lk["generation"].owner = j /\ (~ r.lockKey \/ r.status \in Terminal) => Holding(t, j)'
    PROVE  Wanted'
<1>1. job'[j] = r /\ \A i \in Jobs \ {j} : job'[i] = job[i]
  BY DEF Inv, Stores
<1>2. Concerns(t, j)
  BY <1>1 DEF Concerns
<1>3. LockWanted(j)'
  BY <1>1 DEF LockWanted
<1>4. lk'["target-path"].owner \in CrossJobs \cup {NoJob}
  BY DEF Wanted
<1>5. QED  BY <1>2, <1>3, <1>4, WantedKept

(* A job that owns the lock has had it, unless that is about to be recorded. *)
LEMMA OwnerKeyed ==
    ASSUME Inv, Wanted, NEW t \in Threads, NEW j \in Jobs, Drives(t, j), ~ Holding(t, j),
           lk["generation"].owner = j
    PROVE  job[j].lockKey
<1> SUFFICES ASSUME ~ job[j].lockKey PROVE FALSE
  OBVIOUS
<1>1. PICK u \in Threads : Holding(u, j)
  BY DEF Wanted, LockWanted
<1>2. Drives(u, j)
  BY <1>1 DEF Holding, DrivesAt, Drives, Unchecked
<1>3. u = t
  BY <1>2 DEF Inv, Alone
<1>4. QED  BY <1>1, <1>3

(* Calls, whomever they are for. *)
LEMMA Calls ==
    /\ \A op, j : Call(op, j).op = op /\ Call(op, j).j = j
    /\ \A j, s : Update(j, s).op = "update" /\ Update(j, s).j = j
    /\ \A l, j : /\ Release(l, j).op = "release" /\ Release(l, j).j = j
                 /\ Release(l, j).l = l
  BY DEF Call, Update, Release, NoFrame

(* The next call of a request whose current one is the only one. *)
LEMMA NextCall ==
    ASSUME Inv, NEW t \in Threads, stack[t] # <<>>, Top(t).op \notin {"release", "update"},
           NEW frames, frames \o <<>> = frames, Continue(t, frames)
    PROVE  /\ stack'[t] = frames /\ Top(t)' = Head(frames)
           /\ \A u \in Threads \ {t} : stack'[u] = stack[u]
<1>1. /\ stack'[t] = frames
      /\ \A u \in Threads \ {t} : stack'[u] = stack[u]
  BY Goes DEF Inv, Requests
<1>2. QED  BY <1>1 DEF Top

Careful == {"locktarget", "provision", "write", "bury"}

LEMMA WantedGoto ==
    ASSUME Inv, Wanted, NEW t \in Threads, UNCHANGED <<job, lk>>, stack[t] # <<>>,
           Top(t).op \notin {"release", "update", "locktarget", "provision", "mark"},
           NEW frames, frames \o <<>> = frames, Continue(t, frames),
           frames # <<>> => Head(frames).op \notin Careful
    PROVE  Wanted'
<1>1. /\ stack'[t] = frames /\ Top(t)' = Head(frames)
      /\ \A u \in Threads \ {t} : stack'[u] = stack[u]
  BY NextCall
<1>2. QED  BY <1>1, WantedUsual DEF Careful

(* A request that starts or is over. *)
LEMMA WantedStart ==
    ASSUME Inv, Wanted, NEW t \in Threads, UNCHANGED <<job, lk>>,
           NEW frames, Start(t, frames), frames # <<>> => Head(frames).op \notin Careful
    PROVE  Wanted'
<1>1. stack[t] = <<>> /\ stack' = [stack EXCEPT ![t] = frames]
  BY DEF Start, Idle
<1>2. /\ stack'[t] = frames /\ \A u \in Threads \ {t} : stack'[u] = stack[u]
  BY <1>1 DEF Inv, Stores
<1>3. QED  BY <1>1, <1>2, WantedUsual DEF Careful, Top

(* Steps that leave calls and locks as they are. *)
LEMMA WantedRows ==
    ASSUME Wanted, UNCHANGED <<stack, lk>>,
           \A j \in Jobs : job'[j].lockKey = job[j].lockKey /\ job'[j].status = job[j].status,
           Inv
    PROVE  Wanted'
<1>1. ASSUME NEW j \in Jobs
      PROVE  LockWanted(j)'
  <2>1. LockWanted(j) /\ \A t \in Threads : Holding(t, j)' <=> Holding(t, j)
    BY DEF Wanted, Holding, DrivesAt, Top
  <2>2. QED  BY <2>1 DEF LockWanted
<1>2. ASSUME NEW t \in Threads
      PROVE  KnowsLock(t)'
  <2>1. KnowsLock(t) /\ Top(t)' = Top(t)
    BY DEF Wanted, Top
  <2>2. stack[t] # <<>> => Top(t).j \in Jobs
    BY Called
  <2>3. QED  BY <2>1, <2>2 DEF KnowsLock
<1>3. QED  BY <1>1, <1>2 DEF Wanted

LEMMA ReadsWanted ==
    ASSUME Inv, Wanted, NEW t \in Threads,
           DispatchRead(t) \/ DispatchWorkflow(t) \/ Enqueue(t) \/ SlotRead(t) \/ ResolveDone(t)
             \/ PromoteRead(t)
    PROVE  Wanted'
<1>1. CASE DispatchRead(t)
  <2>1. stack[t] # <<>> /\ Top(t).op = "dispatch" /\ UNCHANGED <<job, lk>>
    BY <1>1 DEF DispatchRead, At, Top
  <2>2. PICK j \in Jobs : j = Top(t).j
    BY <2>1, Called
  <2> DEFINE y == [Call("lock", j) EXCEPT !.a = job[j].attempt]
  <2>3. y.op = "lock"
    BY DEF Call, NoFrame
  <2>4. \/ Continue(t, <<>>) \/ Continue(t, <<Update(j, "DEP_FAILED")>>)
        \/ Continue(t, <<Call("block", j)>>) \/ Continue(t, <<y>>)
    BY <1>1, <2>2 DEF DispatchRead
  <2> HIDE DEF y
  <2>5. QED  BY <2>1, <2>3, <2>4, WantedGoto, Joins, Tuples, Calls DEF Careful
<1>2. CASE DispatchWorkflow(t)
  <2>1. stack[t] # <<>> /\ Top(t).op = "workflow" /\ UNCHANGED <<job, lk>>
        /\ Top(t) \in FrameType
    BY <1>2, Called DEF DispatchWorkflow, At, Top
  <2> DEFINE y == [Top(t) EXCEPT !.op = "enqueue"]
  <2>2. Continue(t, <<y>>) \/ Continue(t, <<Update(Top(t).j, "DISPATCH_FAILED")>>)
    BY <1>2 DEF DispatchWorkflow
  <2>3. y.op = "enqueue"
    BY <2>1 DEF FrameType
  <2> HIDE DEF y
  <2>4. QED  BY <2>1, <2>2, <2>3, WantedGoto, Joins, Tuples, Calls DEF Careful
<1>3. CASE ResolveDone(t)
  <2>1. stack[t] # <<>> /\ Top(t).op = "resolve" /\ UNCHANGED <<job, lk>>
    BY <1>3 DEF ResolveDone, At, Top
  <2>2. PICK s \in ResolveRunId(Top(t).j) : Continue(t, <<Update(Top(t).j, s)>>)
    BY <1>3 DEF ResolveDone
  <2>3. QED  BY <2>1, <2>2, WantedGoto, Joins, Tuples, Calls DEF Careful
<1>4. CASE PromoteRead(t)
  <2>1. stack[t] # <<>> /\ Top(t).op = "promote" /\ UNCHANGED <<job, lk>> /\ Top(t) \in FrameType
    BY <1>4, Called DEF PromoteRead, At, Top
  <2> DEFINE w == {<<i, job[i].blockedBy>> : i \in {k \in Jobs : job[k].status = "BLOCKED"}}
             y == [Top(t) EXCEPT !.op = "promotenext", !.w = w]
  <2>2. Continue(t, <<y>>)
    BY <1>4 DEF PromoteRead
  <2> HIDE DEF w
  <2>3. y.op = "promotenext"
    BY <2>1 DEF FrameType
  <2> HIDE DEF y
  <2>4. QED  BY <2>1, <2>2, <2>3, WantedGoto, Joins, Tuples DEF Careful
<1>5. CASE Enqueue(t)
  <2>1. stack[t] # <<>> /\ Top(t).op = "enqueue" /\ UNCHANGED <<job, lk>> /\ Continue(t, <<>>)
    BY <1>5 DEF Enqueue, At, Top
  <2>2. QED  BY <2>1, WantedGoto, Joins DEF Careful
<1>6. CASE SlotRead(t)
  <2>1. stack[t] # <<>> /\ Top(t).op = "slot" /\ UNCHANGED <<job, lk>> /\ Top(t) \in FrameType
    BY <1>6, Called DEF SlotRead, At, Top
  <2>2. PICK i : Continue(t, <<[Top(t) EXCEPT !.op = "insert", !.c = i, !.f = @ \/ i # NoJob]>>)
    BY <1>6 DEF SlotRead
  <2> DEFINE f == Top(t).f \/ i # NoJob
             y == [Top(t) EXCEPT !.op = "insert", !.c = i, !.f = f]
  <2>3. Continue(t, <<y>>)
    BY <2>2
  <2> HIDE DEF f
  <2>4. y.op = "insert"
    BY <2>1 DEF FrameType
  <2> HIDE DEF y
  <2>5. QED  BY <2>1, <2>3, <2>4, WantedGoto, Joins, Tuples DEF Careful
<1>7. QED  BY <1>1, <1>2, <1>3, <1>4, <1>5, <1>6

LEMMA PromoteNextWanted ==
    ASSUME Inv, Wanted, NEW t \in Threads, PromoteNext(t)
    PROVE  Wanted'
<1>1. /\ stack[t] # <<>> /\ Top(t).op = "promotenext" /\ UNCHANGED <<job, lk>>
      /\ Top(t) \in FrameType
  BY Called DEF PromoteNext, At, Top
<1>2. CASE Continue(t, <<>>)
  BY <1>1, <1>2, WantedGoto, Joins
<1>3. ASSUME NEW e \in Top(t).w,
             \/ Continue(t, <<[Top(t) EXCEPT !.w = Top(t).w \ {e}]>>)
             \/ Continue(t, <<Update(e[1], "DEP_FAILED"), [Top(t) EXCEPT !.w = Top(t).w \ {e}]>>)
             \/ Continue(t, <<Call("unblock", e[1])>>)
      PROVE  Wanted'
  <2> DEFINE w == Top(t).w \ {e}
             y == [Top(t) EXCEPT !.w = w]
  <2>1. \/ Continue(t, <<y>>) \/ Continue(t, <<Update(e[1], "DEP_FAILED"), y>>)
        \/ Continue(t, <<Call("unblock", e[1])>>)
    BY <1>3
  <2> HIDE DEF w
  <2>2. y.op = "promotenext"
    BY <1>1 DEF FrameType
  <2> HIDE DEF y
  <2>3. QED  BY <1>1, <2>1, <2>2, WantedGoto, Joins, Tuples, Calls DEF Careful
<1>4. \/ Continue(t, <<>>)
      \/ \E e \in Top(t).w :
            \/ Continue(t, <<Update(e[1], "DEP_FAILED"),
                             [Top(t) EXCEPT !.w = Top(t).w \ {e}]>>)
            \/ Continue(t, <<[Top(t) EXCEPT !.w = Top(t).w \ {e}]>>)
            \/ Continue(t, <<Call("unblock", e[1])>>)
  BY DEF PromoteNext
<1>5. QED  BY <1>2, <1>3, <1>4

LEMMA RequestWanted ==
    ASSUME Inv, Wanted, NEW t \in Threads,
           CreateRequest(t) \/ (\E n \in Mints : \E s \in Posts(n) : Callback(t, n, s))
             \/ TakeDispatch(t)
    PROVE  Wanted'
<1>1. CASE CreateRequest(t)
  <2>1. PICK j \in Jobs, d \in {i \in Jobs : Exists(i)} \cup {NoJob} : CreateRead(t, j, d)
    BY <1>1, Zenon DEF CreateRequest
  <2> DEFINE f == d # NoJob /\ DependencyGate(job[d].status) = "block_dependency"
             y == [Call("slot", j) EXCEPT !.b = d, !.f = f]
  <2>3. Start(t, <<y>>) /\ UNCHANGED <<job, lk>>
    BY <2>1 DEF CreateRead
  <2> HIDE DEF f
  <2>4. y.op = "slot"
    BY DEF Call, NoFrame
  <2> HIDE DEF y
  <2>5. QED  BY <2>3, <2>4, WantedStart, Tuples DEF Careful
<1>2. ASSUME NEW n \in Mints, NEW s \in Posts(n), Callback(t, n, s)
      PROVE  Wanted'
  <2> DEFINE k == IF s = "COMMITTING" THEN run[n].tok ELSE 0
             y == [Update(run[n].job, s) EXCEPT !.k = k]
  <2>1. Start(t, <<y>>) /\ UNCHANGED <<job, lk>>
    BY <1>2 DEF Callback
  <2> HIDE DEF k
  <2>2. y.op = "update"
    BY DEF Update, NoFrame
  <2> HIDE DEF y
  <2>3. QED  BY <2>1, <2>2, WantedStart, Tuples DEF Careful
<1>3. CASE TakeDispatch(t)
  <2>1. PICK id \in pending : ResolveRead(t, id)
    BY <1>3 DEF TakeDispatch
  <2>2. /\ Start(t, <<Call("resolve", id[1])>>) \/ Start(t, <<>>)
        /\ UNCHANGED <<job, lk>>
    BY <2>1 DEF ResolveRead
  <2>3. QED  BY <2>2, WantedStart, Tuples, Calls DEF Careful
<1>4. QED  BY <1>1, <1>2, <1>3

(* A refused update, and one that is permitted. *)
LEMMA UpdateReadWanted ==
    ASSUME Inv, Wanted, NEW t \in Threads, UpdateRead(t)
    PROVE  Wanted'
<1>1. stack[t] # <<>> /\ Top(t).op = "update" /\ UNCHANGED <<job, lk>>
  BY DEF UpdateRead, At, Top
<1>2. \A j \in Jobs : ~ Holding(t, j)
  BY <1>1 DEF Holding, DrivesAt
<1>3. CASE Throw(t)
  <2>1. stack' = [stack EXCEPT ![t] = <<>>]
    BY <1>3 DEF Throw
  <2>2. stack'[t] = <<>> /\ \A u \in Threads \ {t} : stack'[u] = stack[u]
    BY <2>1 DEF Inv, Stores
  <2>3. QED  BY <1>1, <2>2, WantedUsual
<1>4. CASE UpdatePermitted(Top(t)) /\ Continue(t, <<Written(t)>>)
  <2>1. PICK j \in Jobs : j = Top(t).j
    BY <1>1, Called
  <2>2. At(t, "update")
    BY DEF UpdateRead
  <2>3. PICK y \in FrameType : y.op = "write" /\ y.j = j /\ Top(t)' = y /\ y.f = job[j].lockKey
    BY <1>4, <2>1, <2>2, PermittedCalls
  <2>4. \A u \in Threads \ {t} : stack'[u] = stack[u]
    BY <1>4, <2>1, <2>2, PermittedCalls
  <2>5. KnowsLock(t)'
    BY <1>1, <2>3 DEF KnowsLock
  <2>6. QED  BY <1>1, <1>2, <2>4, <2>5, WantedSame
<1>5. QED
  BY <1>3, <1>4, Zenon DEF UpdateRead, Written

LEMMA FailReadWanted ==
    ASSUME Inv, Wanted, NEW t \in Threads, FailRead(t)
    PROVE  Wanted'
<1>1. stack[t] # <<>> /\ Top(t).op = "fail" /\ UNCHANGED <<job, lk>>
  BY DEF FailRead, At, Top
<1>2. PICK j \in Jobs : j = Top(t).j
  BY <1>1, Called
<1>3. CASE AttemptsLeft(job[j].attempt)
  <2> DEFINE y == [Call("requeue", j) EXCEPT !.a = job[j].attempt + 1]
  <2>1. Continue(t, <<y>>)
    BY <1>2, <1>3 DEF FailRead
  <2>2. y.op = "requeue"
    BY DEF Call, NoFrame
  <2> HIDE DEF y
  <2>3. QED  BY <1>1, <2>1, <2>2, WantedGoto, Joins, Tuples DEF Careful
<1>4. CASE ~ AttemptsLeft(job[j].attempt)
  <2> DEFINE f == job[j].lockKey
             y == [Call("bury", j) EXCEPT !.f = f]
  <2>1. Continue(t, <<y>>)
    BY <1>2, <1>4 DEF FailRead
  <2> HIDE DEF f
  <2>2. y.op = "bury" /\ y.j = j /\ y.f = f
    BY DEF Call, NoFrame
  <2> HIDE DEF y
  <2>3. Top(t)' = y /\ \A u \in Threads \ {t} : stack'[u] = stack[u]
    BY <1>1, <2>1, NextCall, Joins, Tuples
  <2>4. KnowsLock(t)'
    BY <1>1, <2>2, <2>3 DEF KnowsLock, f
  <2>5. \A i \in Jobs : ~ Holding(t, i)
    BY <1>1 DEF Holding, DrivesAt
  <2>6. QED  BY <1>1, <2>3, <2>4, <2>5, WantedSame
<1>5. QED  BY <1>3, <1>4

LEMMA ProvisionWanted ==
    ASSUME Inv, Wanted, NEW t \in Threads, Provision(t)
    PROVE  Wanted'
<1>1. /\ stack[t] # <<>> /\ Top(t).op = "provision" /\ UNCHANGED <<job, lk>>
      /\ Top(t) \in FrameType
  BY Called DEF Provision, At, Top
<1>2. PICK j \in Jobs : j = Top(t).j
  BY <1>1, Called
<1>3. ASSUME NEW frames, frames \o <<>> = frames, Continue(t, frames), NEW y, y = Head(frames),
             y.j = j, y.op = "mark" \/ (y.op = "release" /\ y.l = "generation"), frames # <<>>
      PROVE  Wanted'
  <2>1. /\ Top(t)' = y /\ stack'[t] # <<>>
        /\ \A u \in Threads \ {t} : stack'[u] = stack[u]
    BY <1>1, <1>3, NextCall
  <2>2. KnowsLock(t)'
    BY <1>3, <2>1 DEF KnowsLock
  <2>3. \A i \in Jobs : Holding(t, i) => Holding(t, i)'
    BY <1>2, <1>3, <2>1 DEF Holding, DrivesAt
  <2>4. QED  BY <1>1, <2>1, <2>2, <2>3, WantedSame
<1>4. CASE Continue(t, <<[Top(t) EXCEPT !.op = "mark"]>>)
  <2> DEFINE y == [Top(t) EXCEPT !.op = "mark"]
  <2>1. y.op = "mark" /\ y.j = j
    BY <1>1, <1>2 DEF FrameType
  <2>2. Continue(t, <<y>>)
    BY <1>4
  <2> HIDE DEF y
  <2>3. QED  BY <1>3, <2>1, <2>2, Joins, Tuples
<1>5. CASE Continue(t, <<Release("generation", j), Release("target-path", j),
                         Update(j, "DISPATCH_FAILED")>>)
  BY <1>3, <1>5, Joins, Tuples, Calls
<1>6. QED  BY <1>2, <1>4, <1>5 DEF Provision

LEMMA LockGenerationWanted ==
    ASSUME Inv, Wanted, NEW t \in Threads, LockGeneration(t)
    PROVE  Wanted'
<1>1. /\ stack[t] # <<>> /\ Top(t).op = "lock" /\ job' = job /\ Top(t) \in FrameType
  BY Called DEF LockGeneration, At, Top
<1>2. PICK j \in Jobs : j = Top(t).j
  BY <1>1, Called
<1>3. Drives(t, j)
  BY <1>1, <1>2, Called DEF Plain
<1>4. CASE ~ CanAcquire("generation", j)
  <2>1. UNCHANGED lk /\ Continue(t, <<Call("block", j)>>)
    BY <1>2, <1>4 DEF LockGeneration
  <2>2. QED  BY <1>1, <2>1, WantedGoto, Joins, Tuples, Calls DEF Careful
<1>5. CASE CanAcquire("generation", j)
  <2> DEFINE op == IF j \in CrossJobs THEN "locktarget" ELSE "mark"
             k == IssuedToken("generation", j)
             v == Acquired("generation", j)
             y == [Top(t) EXCEPT !.op = op, !.k = k]
  <2>1. lk' = [lk EXCEPT !["generation"] = v] /\ Continue(t, <<y>>)
    BY <1>2, <1>5 DEF LockGeneration
  <2>2. "generation" \in Locks /\ "target-path" \in Locks
    BY DEF Locks
  <2>3. v.owner = j /\ \A i \in Jobs \ {j} : lk["generation"].owner # i
    BY <1>5, <2>2, LockFacts DEF Inv
  <2>4. op \in {"locktarget", "mark"} /\ (op = "locktarget" => j \in CrossJobs)
    OBVIOUS
  <2> HIDE DEF op, k, v
  <2>5. y.op = op /\ y.j = j
    BY <1>1, <1>2 DEF FrameType
  <2> HIDE DEF y
  <2>6. /\ Top(t)' = y /\ stack'[t] # <<>> /\ \A u \in Threads \ {t} : stack'[u] = stack[u]
    BY <1>1, <2>1, NextCall, Joins, Tuples
  <2>7. lk'["generation"].owner = j /\ lk'["target-path"] = lk["target-path"]
    BY <2>1, <2>2, <2>3 DEF Inv, Stores
  <2>8. Concerns(t, j)
    BY <1>1, <2>6, <2>7, JobsAssumption DEF Concerns
  <2>9. KnowsLock(t)'
    BY <2>4, <2>5, <2>6 DEF KnowsLock
  <2>10. Holding(t, j)'
    BY <2>4, <2>5, <2>6 DEF Holding, DrivesAt
  <2>11. LockWanted(j)'
    BY <1>1, <2>10 DEF Wanted, LockWanted
  <2>12. lk'["target-path"].owner \in CrossJobs \cup {NoJob}
    BY <2>7 DEF Wanted
  <2>13. QED  BY <1>3, <2>8, <2>9, <2>11, <2>12, WantedKept
<1>6. QED  BY <1>4, <1>5

LEMMA LockTargetWanted ==
    ASSUME Inv, Wanted, NEW t \in Threads, LockTarget(t)
    PROVE  Wanted'
<1>1. /\ stack[t] # <<>> /\ Top(t).op = "locktarget" /\ job' = job /\ Top(t) \in FrameType
  BY Called DEF LockTarget, At, Top
<1>2. PICK j \in Jobs : j = Top(t).j
  BY <1>1, Called
<1>3. Drives(t, j) /\ j \in CrossJobs /\ \A i \in Jobs : Holding(t, i) => i = j
  BY <1>1, <1>2, Called DEF Plain, Wanted, KnowsLock, Holding, DrivesAt
<1>4. CASE ~ CanAcquire("target-path", j)
  <2>1. UNCHANGED lk /\ Continue(t, <<Release("generation", j), Call("block", j)>>)
    BY <1>2, <1>4 DEF LockTarget
  <2> DEFINE x == Release("generation", j)
             y == Call("block", j)
  <2>2. x.op = "release" /\ x.l = "generation" /\ x.j = j
    BY Calls
  <2> HIDE DEF x, y
  <2>3. /\ Top(t)' = x /\ stack'[t] # <<>> /\ \A u \in Threads \ {t} : stack'[u] = stack[u]
    BY <1>1, <2>1, NextCall, Joins, Tuples DEF x, y
  <2>4. KnowsLock(t)' /\ Holding(t, j)'
    BY <2>2, <2>3 DEF KnowsLock, Holding, DrivesAt
  <2>5. QED  BY <1>1, <1>3, <2>1, <2>3, <2>4, WantedSame
<1>5. CASE CanAcquire("target-path", j)
  <2> DEFINE v == Acquired("target-path", j)
             y == [Top(t) EXCEPT !.op = "provision"]
  <2>1. lk' = [lk EXCEPT !["target-path"] = v] /\ Continue(t, <<y>>)
    BY <1>2, <1>5 DEF LockTarget
  <2>2. "generation" \in Locks /\ "target-path" \in Locks
    BY DEF Locks
  <2>3. v.owner = j
    BY <2>2, LockFacts DEF Inv
  <2>4. y.op = "provision" /\ y.j = j
    BY <1>1, <1>2 DEF FrameType
  <2> HIDE DEF v, y
  <2>5. /\ Top(t)' = y /\ stack'[t] # <<>> /\ \A u \in Threads \ {t} : stack'[u] = stack[u]
    BY <1>1, <2>1, NextCall, Joins, Tuples
  <2>6. lk'["target-path"].owner = j /\ lk'["generation"] = lk["generation"]
    BY <2>1, <2>2, <2>3 DEF Inv, Stores
  <2>7. Concerns(t, j) /\ KnowsLock(t)' /\ Holding(t, j)'
    BY <1>1, <1>3, <2>4, <2>5, <2>6 DEF Concerns, KnowsLock, Holding, DrivesAt
  <2>8. LockWanted(j)'
    BY <1>1, <2>7 DEF Wanted, LockWanted
  <2>9. QED  BY <1>3, <2>6, <2>7, <2>8, WantedKept
<1>6. QED  BY <1>4, <1>5

LEMMA ReleaseLockWanted ==
    ASSUME Inv, Wanted, NEW t \in Threads, ReleaseLock(t)
    PROVE  Wanted'
<1>1. stack[t] # <<>> /\ Top(t).op = "release" /\ job' = job
  BY DEF ReleaseLock, At, Top
<1>2. PICK j \in Jobs : j = Top(t).j
  BY <1>1, Called
<1>3. Drives(t, j)
  BY <1>1, <1>2 DEF Drives, Unchecked
<1>4. PICK l \in Locks : l = Top(t).l
  BY <1>1, Called DEF FrameType
<1>5. lk' = [lk EXCEPT ![l] = Released(l, j)]
  BY <1>2, <1>4 DEF ReleaseLock
<1>6. "generation" \in Locks /\ "target-path" \in Locks
  BY DEF Locks
<1>7. /\ lk'[l] = Released(l, j) /\ \A k \in Locks \ {l} : lk'[k] = lk[k]
      /\ \A i \in JobOrNone : Released(l, j).owner = i => i = NoJob \/ lk[l].owner = i
      /\ Released(l, j).owner # j
  <2>1. Released(l, j).owner \in {NoJob, lk[l].owner} /\ Released(l, j).owner # j
    BY <1>4, JobsAssumption DEF Released, Inv, Stores, LockType
  <2>2. QED  BY <1>5, <2>1 DEF Inv, Stores
<1>8. /\ \A u \in Threads \ {t} : stack'[u] = stack[u]
      /\ stack'[t] # <<>> => Top(t)'.op \in {"release", "block", "promote", "update"}
  <2>1. Form(stack[t])
    BY DEF Inv, Requests
  <2>2. \/ \E y \in FrameType : stack[t] = <<Top(t), y>> /\ AfterRelease(y, j)
        \/ \E y, z \in FrameType : /\ stack[t] = <<Top(t), y, z>> /\ y.op = "release"
                                   /\ y.j = j /\ AfterRelease(z, j)
    BY <1>1, <1>2, <2>1, Shape
  <2>3. CASE \E y \in FrameType : stack[t] = <<Top(t), y>> /\ AfterRelease(y, j)
    <3>1. PICK y \in FrameType : stack[t] = <<Top(t), y>> /\ AfterRelease(y, j)
      BY <2>3
    <3>2. Tail(stack[t]) = <<y>>
      BY <3>1, Tuples
    <3>3. stack'[t] = <<y>> /\ \A u \in Threads \ {t} : stack'[u] = stack[u]
      BY <3>2, Joins DEF ReleaseLock, Continue, Inv, Stores
    <3>4. Top(t)' = y
      BY <3>3, Tuples DEF Top
    <3>5. QED  BY <3>1, <3>3, <3>4 DEF AfterRelease
  <2>4. CASE \E y, z \in FrameType : /\ stack[t] = <<Top(t), y, z>> /\ y.op = "release"
                                     /\ y.j = j /\ AfterRelease(z, j)
    <3>1. PICK y \in FrameType, z \in FrameType : stack[t] = <<Top(t), y, z>> /\ y.op = "release"
      BY <2>4
    <3>2. Tail(stack[t]) = <<y, z>>
      BY <3>1, Tuples
    <3>3. stack'[t] = <<y, z>> /\ \A u \in Threads \ {t} : stack'[u] = stack[u]
      BY <3>2, Joins DEF ReleaseLock, Continue, Inv, Stores
    <3>4. Top(t)' = y
      BY <3>3, Tuples DEF Top
    <3>5. QED  BY <3>1, <3>3, <3>4
  <2>5. QED  BY <2>2, <2>3, <2>4
<1>9. KnowsLock(t)'
  BY <1>8 DEF KnowsLock
<1>10. lk["generation"].owner \in JobOrNone /\ lk["target-path"].owner \in JobOrNone
  BY <1>6 DEF Inv, Stores, LockType
<1>11. /\ lk'["target-path"].owner \in {NoJob, lk["target-path"].owner}
       /\ lk'["generation"].owner \in {NoJob, lk["generation"].owner}
  <2>1. Released(l, j).owner \in {NoJob, lk[l].owner}
    BY DEF Released
  <2>2. QED  BY <1>6, <1>7, <2>1
<1>12. Concerns(t, j)
  BY <1>1, <1>8, <1>11, JobsAssumption DEF Concerns
<1>13. LockWanted(j)'
  <2>1. CASE l = "generation"
    BY <1>1, <1>7, <2>1 DEF LockWanted, Wanted
  <2>2. CASE l # "generation"
    <3>1. ~ Holding(t, j) /\ lk'["generation"] = lk["generation"]
      BY <1>1, <1>4, <1>6, <1>7, <2>2 DEF Holding, DrivesAt
    <3>2. \A u \in Threads : Holding(u, j) => Drives(u, j)
      BY DEF Holding, DrivesAt, Drives, Unchecked
    <3>3. \A u \in Threads : ~ Holding(u, j)
      BY <1>3, <3>1, <3>2 DEF Inv, Alone
    <3>4. QED  BY <1>1, <3>1, <3>3 DEF Wanted, LockWanted
  <2>3. QED  BY <2>1, <2>2
<1>14. lk'["target-path"].owner \in CrossJobs \cup {NoJob}
  BY <1>11 DEF Wanted
<1>15. QED  BY <1>3, <1>9, <1>12, <1>13, <1>14, WantedKept

(* Writes that neither record the lock nor end a job. *)
LEMMA RowWritesWanted ==
    ASSUME Inv, Wanted, NEW t \in Threads,
           BlockWrite(t) \/ Requeue(t) \/ PromoteWrite(t)
    PROVE  Wanted'
<1>1. stack[t] # <<>> /\ Top(t).op \in {"block", "requeue", "unblock"} /\ lk' = lk
  BY DEF BlockWrite, Requeue, PromoteWrite, At, Top
<1>2. PICK j \in Jobs : j = Top(t).j
  BY <1>1, Called
<1>3. Drives(t, j) /\ ~ Holding(t, j) /\ job[j] \in JobType
  BY <1>1, <1>2, Called DEF Plain, Holding, DrivesAt
<1>4. PICK r : /\ job' = [job EXCEPT ![j] = r] /\ r.lockKey = job[j].lockKey
               /\ r.status \in {"BLOCKED", "QUEUED"}
  <2>1. CASE BlockWrite(t)
    <3> DEFINE r == [job[j] EXCEPT !.status = "BLOCKED"]
    <3>1. job' = [job EXCEPT ![j] = r]
      BY <1>2, <2>1 DEF BlockWrite
    <3>2. r.lockKey = job[j].lockKey /\ r.status \in {"BLOCKED", "QUEUED"}
      BY <1>3 DEF JobType
    <3>3. QED  BY <3>1, <3>2
  <2>2. CASE Requeue(t)
    <3> DEFINE r == [job[j] EXCEPT !.status = "QUEUED", !.attempt = Top(t).a, !.done = FALSE]
    <3>1. job' = [job EXCEPT ![j] = r]
      BY <1>2, <2>2 DEF Requeue
    <3>2. r.lockKey = job[j].lockKey /\ r.status \in {"BLOCKED", "QUEUED"}
      BY <1>3 DEF JobType
    <3>3. QED  BY <3>1, <3>2
  <2>3. CASE PromoteWrite(t)
    <3> DEFINE r == [job[j] EXCEPT !.status = "QUEUED", !.blockedBy = NoJob]
    <3>1. job' = [job EXCEPT ![j] = r]
      BY <1>2, <2>3 DEF PromoteWrite
    <3>2. r.lockKey = job[j].lockKey /\ r.status \in {"BLOCKED", "QUEUED"}
      BY <1>3 DEF JobType
    <3>3. QED  BY <3>1, <3>2
  <2>4. QED  BY <2>1, <2>2, <2>3
<1>5. Continue(t, <<>>) \/ Continue(t, <<Call("dispatch", j)>>)
  BY <1>2 DEF BlockWrite, Requeue, PromoteWrite
<1>6. /\ \A u \in Threads \ {t} : stack'[u] = stack[u]
      /\ stack'[t] = <<>> \/ Top(t)'.op = "dispatch"
  BY <1>1, <1>5, NextCall, Joins, Tuples, Calls
<1>7. KnowsLock(t)'
  BY <1>6 DEF KnowsLock
<1>8. ~ (lk["generation"].owner = j /\ (~ r.lockKey \/ r.status \in Terminal))
  BY <1>3, <1>4, OwnerKeyed DEF Terminal
<1>9. r.status # "NONE"
  BY <1>4
<1>10. QED  BY <1>1, <1>3, <1>4, <1>6, <1>7, <1>8, <1>9, WantedWrite

LEMMA InsertWanted ==
    ASSUME Inv, Wanted, NEW t \in Threads, CreateInsert(t)
    PROVE  Wanted'
<1>1. stack[t] # <<>> /\ Top(t).op = "insert" /\ lk' = lk
  BY DEF CreateInsert, At, Top
<1>2. PICK j \in Jobs : j = Top(t).j
  BY <1>1, Called
<1>3. Drives(t, j) /\ ~ Holding(t, j) /\ job[j].status = "NONE"
  BY <1>1, <1>2, Called DEF Plain, Holding, DrivesAt, CallOK, StatusFits
<1>4. lk["generation"].owner # j
  BY <1>3, OwnerKeyed DEF Wanted, LockWanted
<1>5. PICK r : job' = [job EXCEPT ![j] = r] /\ r.status # "NONE"
  <2> DEFINE s == IF Top(t).f THEN "BLOCKED" ELSE "QUEUED"
             r == [NewRow EXCEPT !.status = s, !.dep = Top(t).b, !.blockedBy = Top(t).c]
  <2>1. job' = [job EXCEPT ![j] = r]
    BY <1>2 DEF CreateInsert
  <2>2. s # "NONE"
    OBVIOUS
  <2> HIDE DEF s
  <2>3. r.status = s
    BY DEF NewRow
  <2>4. QED  BY <2>1, <2>2, <2>3
<1>6. Continue(t, <<>>) \/ Continue(t, <<Call("dispatch", j)>>)
  BY <1>2 DEF CreateInsert
<1>7. /\ \A u \in Threads \ {t} : stack'[u] = stack[u]
      /\ stack'[t] = <<>> \/ Top(t)'.op = "dispatch"
  BY <1>1, <1>6, NextCall, Joins, Tuples, Calls
<1>8. KnowsLock(t)'
  BY <1>7 DEF KnowsLock
<1>9. QED  BY <1>1, <1>3, <1>4, <1>5, <1>7, <1>8, WantedWrite

LEMMA MarkWanted ==
    ASSUME Inv, Wanted, NEW t \in Threads, MarkDispatching(t)
    PROVE  Wanted'
<1>1. stack[t] # <<>> /\ Top(t).op = "mark" /\ lk' = lk /\ Top(t) \in FrameType
  BY Called DEF MarkDispatching, At, Top
<1>2. PICK j \in Jobs : j = Top(t).j
  BY <1>1, Called
<1>3. Drives(t, j) /\ job[j] \in JobType
  BY <1>1, <1>2, Called DEF Plain
<1>4. PICK r : job' = [job EXCEPT ![j] = r] /\ r.lockKey /\ r.status = "DISPATCHING"
  <2> DEFINE g == job[j].target \/ j \in CrossJobs
             m == mints + 1
             r == [job[j] EXCEPT !.status = "DISPATCHING", !.lockKey = TRUE, !.cb = m,
                                 !.target = g]
  <2>1. job' = [job EXCEPT ![j] = r]
    BY <1>2 DEF MarkDispatching
  <2> HIDE DEF g, m
  <2>2. r.lockKey /\ r.status = "DISPATCHING"
    BY <1>3 DEF JobType
  <2>3. QED  BY <2>1, <2>2
<1>5. PICK y : Continue(t, <<y>>) /\ y.op = "workflow"
  <2> DEFINE m == mints + 1
             y == [Top(t) EXCEPT !.op = "workflow", !.n = m]
  <2>1. Continue(t, <<y>>)
    BY DEF MarkDispatching
  <2> HIDE DEF m
  <2>2. y.op = "workflow"
    BY <1>1 DEF FrameType
  <2>3. QED  BY <2>1, <2>2
<1>6. /\ \A u \in Threads \ {t} : stack'[u] = stack[u]
      /\ Top(t)'.op = "workflow"
  BY <1>1, <1>5, NextCall, Joins, Tuples
<1>7. KnowsLock(t)'
  BY <1>6 DEF KnowsLock
<1>8. r.status \notin Terminal \cup {"NONE"}
  BY <1>4 DEF Terminal
<1>9. QED  BY <1>1, <1>3, <1>4, <1>6, <1>7, <1>8, WantedWrite

(* Writes that may end a job: they know whether to release its lock. *)
LEMMA EndWanted ==
    ASSUME Inv, Wanted, NEW t \in Threads, NEW j \in Jobs, stack[t] # <<>>, j = Top(t).j,
           Top(t).op \in {"write", "bury"}, Drives(t, j), lk' = lk,
           NEW r, job' = [job EXCEPT ![j] = r], r.lockKey = job[j].lockKey, r.status # "NONE",
           NEW frames, frames \o <<>> = frames, Continue(t, frames),
           frames # <<>> => Head(frames).op \notin Careful,
           r.status \in Terminal /\ Top(t).f =>
              /\ frames # <<>> /\ Head(frames).op = "release" /\ Head(frames).j = j
              /\ Head(frames).l = "generation"
    PROVE  Wanted'
<1>1. /\ stack'[t] = frames /\ Top(t)' = Head(frames)
      /\ \A u \in Threads \ {t} : stack'[u] = stack[u]
  BY NextCall
<1>2. KnowsLock(t)'
  BY <1>1 DEF KnowsLock, Careful
<1>3. ~ Holding(t, j) /\ Top(t).f = job[j].lockKey
  BY DEF Holding, DrivesAt, Wanted, KnowsLock
<1>4. lk["generation"].owner = j => r.lockKey /\ Top(t).f
  BY <1>3, OwnerKeyed
<1>5. lk["generation"].owner = j /\ (~ r.lockKey \/ r.status \in Terminal) => Holding(t, j)'
  BY <1>1, <1>4 DEF Holding, DrivesAt
<1>6. QED  BY <1>1, <1>2, <1>5, WantedWrite

LEMMA BuryWanted ==
    ASSUME Inv, Wanted, NEW t \in Threads, Bury(t)
    PROVE  Wanted'
<1>1. stack[t] # <<>> /\ Top(t).op = "bury" /\ lk' = lk
  BY DEF Bury, At, Top
<1>2. PICK j \in Jobs : j = Top(t).j
  BY <1>1, Called
<1>3. Drives(t, j) /\ job[j] \in JobType
  BY <1>1, <1>2, Called DEF Plain
<1>4. PICK r : job' = [job EXCEPT ![j] = r] /\ r.lockKey = job[j].lockKey /\ r.status # "NONE"
  <2> DEFINE r == [job[j] EXCEPT !.status = "DEAD_LETTER", !.done = TRUE]
  <2>1. job' = [job EXCEPT ![j] = r]
    BY <1>2 DEF Bury
  <2>2. r.lockKey = job[j].lockKey /\ r.status # "NONE"
    BY <1>3 DEF JobType
  <2>3. QED  BY <2>1, <2>2
<1>5. CASE Top(t).f
  <2>1. Continue(t, <<Release("generation", j), Call("promote", j)>>)
    BY <1>2, <1>5 DEF Bury
  <2>2. PICK frames :
           /\ frames \o <<>> = frames /\ Continue(t, frames)
           /\ frames # <<>> /\ Head(frames) = Release("generation", j)
    BY <2>1, Joins, Tuples
  <2>3. Head(frames).op = "release" /\ Head(frames).j = j /\ Head(frames).l = "generation"
    BY <2>2, Calls
  <2>4. QED  BY <1>1, <1>2, <1>3, <1>4, <2>2, <2>3, EndWanted DEF Careful
<1>6. CASE ~ Top(t).f
  <2>1. Continue(t, <<>>)
    BY <1>2, <1>6 DEF Bury
  <2>2. QED  BY <1>1, <1>2, <1>3, <1>4, <1>6, <2>1, EndWanted, Joins
<1>7. QED  BY <1>5, <1>6

LEMMA UpdateWriteWanted ==
    ASSUME Inv, Wanted, NEW t \in Threads, UpdateWrite(t)
    PROVE  Wanted'
<1>1. stack[t] # <<>> /\ Top(t).op = "write" /\ lk' = lk /\ Top(t) \in FrameType
  BY Called DEF UpdateWrite, At, Top
<1>2. PICK j \in Jobs : j = Top(t).j
  BY <1>1, Called
<1>3. Drives(t, j) /\ job[j] \in JobType
  BY <1>1, <1>2, Called DEF Drives, Unchecked
<1>4. PICK r : /\ job' = [job EXCEPT ![j] = r] /\ r.lockKey = job[j].lockKey
               /\ r.status = Top(t).s
  <2> DEFINE d == job[j].done \/ Top(t).s \in Terminal
             b == job[j].beat \/ Top(t).s \in {"STAGING", "VALIDATING", "COMMITTING"}
             r == [job[j] EXCEPT !.status = Top(t).s, !.done = d, !.beat = b]
  <2>1. job' = [job EXCEPT ![j] = r]
    BY <1>2 DEF UpdateWrite
  <2> HIDE DEF d, b
  <2>2. r.lockKey = job[j].lockKey /\ r.status = Top(t).s
    BY <1>3 DEF JobType
  <2>3. QED  BY <2>1, <2>2
<1>5. r.status # "NONE"
  <2>1. CallOK(t)
    BY <1>1, Called
  <2>2. QED  BY <1>1, <1>4, <2>1 DEF CallOK, UpdateFits, WorkerStatuses
<1>6. RetriableFailures \cap Terminal = {}
  BY DEF RetriableFailures, Terminal
<1>7. CASE Top(t).s \in RetriableFailures
  <2>1. Continue(t, <<Call("fail", j)>>)
    BY <1>2, <1>6, <1>7 DEF UpdateWrite
  <2>2. r.status \notin Terminal
    BY <1>4, <1>6, <1>7
  <2>3. PICK frames :
           /\ frames \o <<>> = frames /\ Continue(t, frames)
           /\ frames # <<>> /\ Head(frames) = Call("fail", j)
    BY <2>1, Joins, Tuples
  <2>4. Head(frames).op = "fail"
    BY <2>3, Calls
  <2>5. QED  BY <1>1, <1>2, <1>3, <1>4, <1>5, <2>2, <2>3, <2>4, EndWanted DEF Careful
<1>8. CASE Top(t).s \in Terminal /\ Top(t).f
  <2>1. Continue(t, AfterTerminal(Top(t)))
    BY <1>6, <1>8 DEF UpdateWrite
  <2>2. PICK frames :
           /\ frames \o <<>> = frames /\ Continue(t, frames)
           /\ frames # <<>> /\ Head(frames) = Release("generation", j)
    BY <1>2, <2>1, Joins, Tuples DEF AfterTerminal
  <2>3. Head(frames).op = "release" /\ Head(frames).j = j /\ Head(frames).l = "generation"
    BY <2>2, Calls
  <2>4. QED  BY <1>1, <1>2, <1>3, <1>4, <1>5, <2>2, <2>3, EndWanted DEF Careful
<1>9. CASE Top(t).s \notin RetriableFailures /\ ~ (Top(t).s \in Terminal /\ Top(t).f)
  <2>1. Continue(t, <<>>)
    BY <1>9 DEF UpdateWrite
  <2>2. QED  BY <1>1, <1>2, <1>3, <1>4, <1>5, <1>9, <2>1, EndWanted, Joins
<1>10. QED  BY <1>7, <1>8, <1>9

LEMMA ThreadStepWanted ==
    ASSUME Inv, Wanted, NEW t \in Threads, ThreadStep(t)
    PROVE  Wanted'
<1>1. CASE ReleaseLock(t)       BY <1>1, ReleaseLockWanted
<1>2. CASE CreateInsert(t)      BY <1>2, InsertWanted
<1>3. CASE DispatchRead(t) \/ DispatchWorkflow(t) \/ Enqueue(t) \/ SlotRead(t) \/ ResolveDone(t)
             \/ PromoteRead(t)
  BY <1>3, ReadsWanted
<1>4. CASE BlockWrite(t) \/ Requeue(t) \/ PromoteWrite(t)
  BY <1>4, RowWritesWanted
<1>5. CASE LockGeneration(t)    BY <1>5, LockGenerationWanted
<1>6. CASE LockTarget(t)        BY <1>6, LockTargetWanted
<1>7. CASE Provision(t)         BY <1>7, ProvisionWanted
<1>8. CASE MarkDispatching(t)   BY <1>8, MarkWanted
<1>9. CASE UpdateRead(t)        BY <1>9, UpdateReadWanted
<1>10. CASE UpdateWrite(t)      BY <1>10, UpdateWriteWanted
<1>11. CASE FailRead(t)         BY <1>11, FailReadWanted
<1>12. CASE Bury(t)             BY <1>12, BuryWanted
<1>13. CASE PromoteNext(t)      BY <1>13, PromoteNextWanted
<1>14. CASE Reply(t)
  BY <1>14, WantedRows DEF Reply
<1>15. /\ ~ ScanLock(t) /\ ~ ScanJob(t) /\ ~ StaleWrite(t) /\ ~ StaleRead(t)
       /\ ~ StaleRetry(t) /\ ~ AdminJobs(t) /\ ~ AdminNext(t) /\ ~ Revive(t)
  BY CalmCall
<1>16. QED
  BY <1>1, <1>2, <1>3, <1>4, <1>5, <1>6, <1>7, <1>8, <1>9, <1>10, <1>11, <1>12, <1>13, <1>14,
     <1>15 DEF ThreadStep

LEMMA NextWanted ==
    ASSUME Inv, Wanted, BudgetType, Calm, Calm', [Next]_vars
    PROVE  Wanted'
<1>1. CASE UNCHANGED vars
  BY <1>1, WantedRows DEF vars
<1>2. ASSUME NEW t \in Threads, ThreadStep(t)
      PROVE  Wanted'
  BY <1>2, ThreadStepWanted
<1>3. \A e \in Events : \A b : ~ Spend(e, b)
  <2>1. \A e \in Events : budget'[e] = 0 /\ budget[e] = 0
    BY DEF Calm, Events
  <2>2. ASSUME NEW e \in Events, NEW bound, Spend(e, bound)
        PROVE  FALSE
    <3>1. budget' = [budget EXCEPT ![e] = budget[e] + 1]
      BY <2>2 DEF Spend
    <3>2. budget'[e] = budget[e] + 1
      BY <3>1 DEF BudgetType, Events
    <3>3. QED  BY <2>1, <3>2
  <2>3. QED  BY <2>2
<1>4. "scans" \in Events /\ "reclaims" \in Events /\ "retries" \in Events /\ "expiries" \in Events
  BY DEF Events
<1>5. ASSUME NEW t \in Threads, Request(t)
      PROVE  Wanted'
  <2>1. /\ ~ ScanRead(t)
        /\ \A l \in Locks : ~ AdminReclaim(t, l)
        /\ \A j \in Jobs : ~ RetryDeadLetter(t, j)
    BY <1>3, <1>4, Zenon DEF ScanRead, AdminReclaim, RetryDeadLetter
  <2>2. CreateRequest(t) \/ (\E n \in Mints : \E s \in Posts(n) : Callback(t, n, s))
          \/ TakeDispatch(t)
    BY <1>5, <2>1, Zenon DEF Request
  <2>3. QED  BY <2>2, RequestWanted
<1>6. ASSUME NEW n \in Mints, Heartbeat(n)
      PROVE  Wanted'
  <2>1. PICK j \in Jobs : j = run[n].job
    BY <1>6 DEF Heartbeat, MayBeat, Alive, Inv, Project, WorkerOK
  <2> DEFINE r == [job[j] EXCEPT !.beat = TRUE]
  <2>2. job' = [job EXCEPT ![j] = r] /\ UNCHANGED <<stack, lk>>
    BY <1>6, <2>1 DEF Heartbeat
  <2>3. r.status = job[j].status /\ r.lockKey = job[j].lockKey
    BY DEF Inv, Stores, JobType
  <2> HIDE DEF r
  <2>4. \A i \in Jobs : job'[i].lockKey = job[i].lockKey /\ job'[i].status = job[i].status
    BY <2>2, <2>3 DEF Inv, Stores
  <2>5. QED  BY <2>2, <2>4, WantedRows
<1>7. ASSUME NEW n \in Mints, WorkerDies(n)
      PROVE  Wanted'
  BY <1>7, WantedRows DEF WorkerDies
<1>8. \A l \in Locks : ~ LockExpires(l)
  BY <1>3, <1>4, Zenon DEF LockExpires
<1>9. QED  BY <1>1, <1>2, <1>5, <1>6, <1>7, <1>8 DEF Next

(* While it is calm the owner of the generation lock is a job that has not
   finished, unless the request that ends it is about to release the lock. *)
LEMMA LockIsWanted == Spec => [](Calm => Wanted)
<1>1. Init => (Calm => Wanted)
  BY JobsAssumption DEF Init, Wanted, KnowsLock, LockWanted, FreeLock, NewRow, Locks
<1>2. ASSUME IInv, Calm => Wanted, [Next]_vars
      PROVE  (Calm => Wanted)'
  <2>1. Calm' => Calm
    BY <1>2, CalmStep DEF IInv
  <2>2. QED  BY <1>2, <2>1, NextWanted DEF IInv
<1>3. IInv /\ (Calm => Wanted) /\ [Next]_vars => (Calm => Wanted)'
  BY <1>2
<1>4. Spec => []IInv
  BY Invariant
<1>5. QED  BY <1>1, <1>3, <1>4, PTL DEF Spec

(* While it is calm, once every call has returned no finished job is left
   owning the generation lock, and a same-machine job no lock at all. *)
THEOREM LocksFreedThm == Spec => [](Calm => LocksFreed)
<1>1. ASSUME Wanted, Quiet, NEW j \in Jobs, NEW l \in Locks, job[j].status \in Terminal,
             lk[l].owner = j
      PROVE  l = "target-path" /\ j \in CrossJobs
  <2>1. l # "generation"
    BY <1>1 DEF Wanted, LockWanted, Quiet, Idle, Holding, DrivesAt
  <2>2. l = "target-path"
    BY <2>1 DEF Locks
  <2>3. QED  BY <1>1, <2>2, JobsAssumption DEF Wanted
<1>2. Wanted => LocksFreed
  BY <1>1 DEF LocksFreed
<1>3. QED  BY <1>2, LockIsWanted, PTL

-----------------------------------------------------------------------------
(* Calls of any request: the current one, and those below it on the stack. *)

LEMMA Single ==
    ASSUME NEW S, NEW y \in S
    PROVE  <<y>> \in Seq(S) /\ Len(<<y>>) = 1 /\ Range(<<y>>) = {y}
  BY DEF Range

LEMMA Push ==
    ASSUME NEW S, NEW s \in Seq(S), NEW y \in S
    PROVE  /\ <<y>> \o s \in Seq(S) /\ <<y>> \o s # <<>>
           /\ Head(<<y>> \o s) = y /\ Tail(<<y>> \o s) = s
<1> DEFINE r == <<y>> \o s
<1>1. /\ r \in Seq(S) /\ Len(r) = 1 + Len(s)
      /\ \A i \in 1 .. 1 + Len(s) : r[i] = IF i <= 1 THEN y ELSE s[i - 1]
  BY Single, ConcatProperties
<1>2. Len(s) \in Nat
  OBVIOUS
<1>3. r # <<>> /\ Head(r) = y
  BY <1>1, <1>2
<1> HIDE DEF r
<1>4. /\ Tail(r) \in Seq(S) /\ Len(Tail(r)) = Len(s)
      /\ \A i \in 1 .. Len(s) : Tail(r)[i] = s[i]
  BY <1>1, <1>2, <1>3, HeadTailProperties
<1>5. Tail(r) = s
  BY <1>4, SeqEqual
<1>6. QED  BY <1>1, <1>3, <1>5 DEF r

LEMMA Pop ==
    ASSUME NEW S, NEW s \in Seq(S), s # <<>>
    PROVE  /\ Head(s) \in S /\ Tail(s) \in Seq(S) /\ <<>> \o s = s
           /\ Range(s) = {Head(s)} \cup Range(Tail(s)) /\ Range(s) \subseteq S
           /\ Head(s) \in Range(s)
<1>1. Head(s) \in S /\ Tail(s) \in Seq(S) /\ <<>> \o s = s
  BY HeadTailProperties, ConcatEmptySeq
<1> DEFINE h == Head(s)
           q == Tail(s)
<1>2. <<h>> \o q = s
  <2>1. /\ <<h>> \o q \in Seq(S) /\ Len(<<h>> \o q) = 1 + Len(q)
        /\ \A i \in 1 .. 1 + Len(q) : (<<h>> \o q)[i] = IF i <= 1 THEN h ELSE q[i - 1]
    BY <1>1, Single, ConcatProperties
  <2>2. Len(s) \in Nat \ {0} /\ Len(q) = Len(s) - 1 /\ \A i \in 1 .. Len(q) : q[i] = s[i + 1]
    BY HeadTailProperties, EmptySeq
  <2>3. h = s[1]
    OBVIOUS
  <2> HIDE DEF h, q
  <2>4. \A i \in 1 .. Len(s) : (<<h>> \o q)[i] = s[i]
    BY <2>1, <2>2, <2>3
  <2>5. Len(<<h>> \o q) = Len(s)
    BY <2>1, <2>2
  <2> DEFINE r == <<h>> \o q
  <2>6. r \in Seq(S) /\ Len(r) = Len(s) /\ \A i \in 1 .. Len(s) : r[i] = s[i]
    BY <2>1, <2>4, <2>5
  <2> HIDE DEF r
  <2>7. r = s
    BY <2>6, SeqEqual
  <2>8. QED  BY <2>7 DEF r
<1>7. q \in Seq(S)
  BY <1>1
<1> HIDE DEF h, q
<1> DEFINE p == <<h>>
<1>3. p \in Seq(S) /\ Range(p) = {h}
  BY <1>1, Single DEF h
<1> HIDE DEF p
<1>4. Range(p \o q) = Range(p) \cup Range(q)
  BY <1>3, <1>7, RangeConcatenation
<1>5. Range(s) \subseteq S
  BY RangeOfSeq
<1>8. p \o q = s
  BY <1>2 DEF p
<1>9. Range(s) = {h} \cup Range(q)
  BY <1>3, <1>4, <1>8
<1>6. QED  BY <1>1, <1>5, <1>9 DEF h, q

(* What p puts before s. *)
LEMMA Joined ==
    ASSUME NEW S, NEW p \in Seq(S), NEW s \in Seq(S), Len(p) # 0
    PROVE  LET r == p \o s IN
           /\ r \in Seq(S) /\ r # <<>> /\ Head(r) = p[1]
           /\ Len(p) = 2 => Range(Tail(r)) = {p[2]} \cup Range(s)
           /\ Len(p) = 3 => Range(Tail(r)) = {p[2], p[3]} \cup Range(s)
<1> DEFINE r == p \o s
           u == Tail(r)
           v == Tail(u)
           w == Tail(v)
<1>1. /\ r \in Seq(S) /\ Len(r) = Len(p) + Len(s)
      /\ \A i \in 1 .. Len(p) + Len(s) : r[i] = IF i <= Len(p) THEN p[i] ELSE s[i - Len(p)]
  BY ConcatProperties
<1>2. Len(s) \in Nat /\ Len(p) \in Nat \ {0}
  OBVIOUS
<1>3. r # <<>> /\ Head(r) = p[1]
  BY <1>1, <1>2
<1> HIDE DEF r
<1>4. u \in Seq(S) /\ Len(u) = Len(r) - 1 /\ \A i \in 1 .. Len(u) : u[i] = r[i + 1]
  BY <1>1, <1>3, HeadTailProperties
<1> HIDE DEF u
<1>5. Len(p) >= 2 => /\ u # <<>> /\ u[1] = p[2] /\ Head(u) = u[1]
                     /\ v \in Seq(S) /\ Len(v) = Len(r) - 2
                     /\ \A i \in 1 .. Len(v) : v[i] = r[i + 2]
  <2> SUFFICES ASSUME Len(p) >= 2
               PROVE  /\ u # <<>> /\ u[1] = p[2] /\ Head(u) = u[1]
                      /\ v \in Seq(S) /\ Len(v) = Len(r) - 2
                      /\ \A i \in 1 .. Len(v) : v[i] = r[i + 2]
    OBVIOUS
  <2>1. u # <<>> /\ u[1] = r[2] /\ Head(u) = u[1]
    BY <1>1, <1>2, <1>4
  <2>2. r[2] = p[2]
    BY <1>1, <1>2
  <2>3. v \in Seq(S) /\ Len(v) = Len(u) - 1 /\ \A i \in 1 .. Len(v) : v[i] = u[i + 1]
    BY <1>4, <2>1, HeadTailProperties
  <2>4. QED  BY <1>1, <1>2, <1>4, <2>1, <2>2, <2>3
<1> HIDE DEF v
<1>6. Len(p) >= 2 => Range(u) = {p[2]} \cup Range(v)
  BY <1>4, <1>5, Pop DEF v
<1>7. ASSUME Len(p) = 2
      PROVE  Range(u) = {p[2]} \cup Range(s)
  <2>1. v \in Seq(S) /\ Len(v) = Len(s) /\ \A i \in 1 .. Len(s) : v[i] = s[i]
    BY <1>1, <1>2, <1>5, <1>7
  <2>2. v = s
    BY <2>1, SeqEqual
  <2>3. QED  BY <1>6, <1>7, <2>2
<1>8. ASSUME Len(p) = 3
      PROVE  Range(u) = {p[2], p[3]} \cup Range(s)
  <2>1. v # <<>> /\ Head(v) = p[3]
    BY <1>1, <1>2, <1>5, <1>8
  <2>2. w \in Seq(S) /\ Len(w) = Len(v) - 1 /\ \A i \in 1 .. Len(w) : w[i] = v[i + 1]
    BY <1>5, <1>8, <2>1, HeadTailProperties
  <2>3. w \in Seq(S) /\ Len(w) = Len(s) /\ \A i \in 1 .. Len(s) : w[i] = s[i]
    BY <1>1, <1>2, <1>5, <1>8, <2>2
  <2> HIDE DEF w
  <2>4. w = s
    BY <2>3, SeqEqual
  <2>5. Range(v) = {p[3]} \cup Range(w)
    BY <1>5, <1>8, <2>1, Pop DEF w
  <2>6. QED  BY <1>6, <1>8, <2>4, <2>5
<1>9. QED  BY <1>1, <1>3, <1>7, <1>8 DEF r, u

(* What a step of request t leaves on its stack, by the number of calls it
   makes. *)
Makes(t, y, b) == stack'[t] # <<>> /\ Top(t)' = y /\ Below(t)' = b \cup Below(t)

Resumes(t) ==
    /\ stack'[t] # <<>> => Top(t)' \in Below(t) /\ Below(t)' \subseteq Below(t)
    /\ Below(t) = {} => stack'[t] = <<>>

LEMMA Current ==
    ASSUME Stacks, NEW t \in Threads, stack[t] # <<>>
    PROVE  /\ Top(t) \in CallType /\ Below(t) \subseteq CallType
           /\ Tail(stack[t]) \in Seq(CallType)
           /\ Range(stack[t]) = {Top(t)} \cup Below(t)
<1>1. stack[t] \in Seq(CallType)
  BY DEF Stacks
<1>2. QED  BY <1>1, Pop, RangeOfSeq DEF Top, Below

LEMMA Returns ==
    ASSUME Stacks, NEW t \in Threads, stack[t] # <<>>, Continue(t, <<>>)
    PROVE  Stacks' /\ Resumes(t)
<1>1. Tail(stack[t]) \in Seq(CallType) /\ <<>> \o Tail(stack[t]) = Tail(stack[t])
  BY Current, ConcatEmptySeq
<1>2. stack' = [stack EXCEPT ![t] = Tail(stack[t])]
  BY <1>1 DEF Continue
<1>3. stack'[t] = Tail(stack[t]) /\ Stacks'
  BY <1>1, <1>2 DEF Stacks
<1>4. stack'[t] # <<>> => /\ Top(t)' \in Below(t) /\ Below(t)' \subseteq Below(t)
  <2> DEFINE s == Tail(stack[t])
  <2>1. s # <<>> => Head(s) \in Range(s) /\ Range(Tail(s)) \subseteq Range(s)
    <3>1. s \in Seq(CallType)
      BY <1>1
    <3> HIDE DEF s
    <3>2. QED  BY <3>1, Pop
  <2>2. QED  BY <1>3, <2>1 DEF Top, Below
<1>5. Below(t) = {} => stack'[t] = <<>>
  <2> DEFINE s == Tail(stack[t])
  <2>1. s # <<>> => Head(s) \in Range(s)
    <3>1. s \in Seq(CallType)
      BY <1>1
    <3> HIDE DEF s
    <3>2. QED  BY <3>1, Pop
  <2>2. QED  BY <1>3, <2>1 DEF Below
<1>6. QED  BY <1>3, <1>4, <1>5 DEF Resumes

LEMMA Calls1 ==
    ASSUME Stacks, NEW t \in Threads, stack[t] # <<>>, NEW y \in CallType, Continue(t, <<y>>)
    PROVE  Stacks' /\ Makes(t, y, {})
<1>1. Tail(stack[t]) \in Seq(CallType)
  BY Current
<1>2. stack' = [stack EXCEPT ![t] = <<y>> \o Tail(stack[t])]
  BY DEF Continue
<1>3. stack'[t] = <<y>> \o Tail(stack[t])
  BY <1>2 DEF Stacks
<1>4. <<y>> \o Tail(stack[t]) \in Seq(CallType)
  BY <1>1, Push
<1>5. Stacks'
  BY <1>2, <1>4 DEF Stacks
<1>6. LET r == <<y>> \o Tail(stack[t]) IN r # <<>> /\ Head(r) = y /\ Tail(r) = Tail(stack[t])
  BY <1>1, Push
<1>7. QED  BY <1>3, <1>5, <1>6 DEF Makes, Top, Below

LEMMA Calls2 ==
    ASSUME Stacks, NEW t \in Threads, stack[t] # <<>>,
           NEW y \in CallType, NEW z \in CallType,
           Continue(t, <<y, z>>)
    PROVE  Stacks' /\ Makes(t, y, {z})
<1> DEFINE s == Tail(stack[t])
           p == <<y, z>>
           r == p \o s
<1>1. s \in Seq(CallType)
  BY Current
<1>2. p \in Seq(CallType) /\ Len(p) = 2 /\ p[1] = y /\ p[2] = z
  OBVIOUS
<1>3. stack' = [stack EXCEPT ![t] = r]
  BY DEF Continue
<1> HIDE DEF s, p
<1>4. /\ r \in Seq(CallType) /\ r # <<>> /\ Head(r) = y
      /\ Range(Tail(r)) = {z} \cup Range(s)
  BY <1>1, <1>2, Joined
<1> HIDE DEF r
<1>5. stack'[t] = r /\ Stacks'
  BY <1>3, <1>4 DEF Stacks
<1>6. QED  BY <1>4, <1>5 DEF Makes, Top, Below, s

LEMMA Calls3 ==
    ASSUME Stacks, NEW t \in Threads, stack[t] # <<>>,
           NEW y \in CallType, NEW z \in CallType, NEW v \in CallType,
           Continue(t, <<y, z, v>>)
    PROVE  Stacks' /\ Makes(t, y, {z, v})
<1> DEFINE s == Tail(stack[t])
           p == <<y, z, v>>
           r == p \o s
<1>1. s \in Seq(CallType)
  BY Current
<1>2. p \in Seq(CallType) /\ Len(p) = 3 /\ p[1] = y /\ p[2] = z /\ p[3] = v
  OBVIOUS
<1>3. stack' = [stack EXCEPT ![t] = r]
  BY DEF Continue
<1> HIDE DEF s, p
<1>4. /\ r \in Seq(CallType) /\ r # <<>> /\ Head(r) = y
      /\ Range(Tail(r)) = {z, v} \cup Range(s)
  BY <1>1, <1>2, Joined
<1> HIDE DEF r
<1>5. stack'[t] = r /\ Stacks'
  BY <1>3, <1>4 DEF Stacks
<1>6. QED  BY <1>4, <1>5 DEF Makes, Top, Below, s

(* A request begins, and an exception ends it. *)
LEMMA Begins ==
    ASSUME Stacks, NEW t \in Threads, NEW y \in CallType, Start(t, <<y>>)
    PROVE  /\ Stacks' /\ stack'[t] # <<>> /\ Top(t)' = y /\ Below(t)' = {}
<1>1. stack'[t] = <<y>>
  BY DEF Start, Stacks
<1>2. <<y>> \in Seq(CallType)
  BY Single
<1>3. Stacks'
  BY <1>2 DEF Start, Stacks
<1>4. Tail(<<y>>) = <<>> /\ Head(<<y>>) = y /\ <<y>> # <<>>
  OBVIOUS
<1>5. Range(<<>>) = {}
  BY DEF Range
<1>6. QED  BY <1>1, <1>3, <1>4, <1>5 DEF Top, Below

LEMMA Nothing ==
    ASSUME Stacks, NEW t \in Threads, stack' = [stack EXCEPT ![t] = <<>>]
    PROVE  Stacks' /\ stack'[t] = <<>>
  BY EmptySeq DEF Stacks
-----------------------------------------------------------------------------
(* Types of the stores, whatever happens. *)

LEMMA CurrentCall ==
    ASSUME TInv, NEW t \in Threads, NEW o, At(t, o)
    PROVE  /\ stack[t] # <<>> /\ Top(t) \in CallType /\ Top(t) \in CallRecord
           /\ Listing(Top(t)) /\ Top(t).op = o
           /\ o \in JobCalls => Top(t).j \in Jobs
           /\ Stacks
<1>1. stack[t] # <<>> /\ Top(t).op = o /\ Stacks
  BY DEF At, Top, TInv
<1>2. Top(t) \in CallType
  BY <1>1, Current
<1>3. QED  BY <1>1, <1>2 DEF CallType, Listing

LEMMA CallTyped ==
    ASSUME NEW o \in Ops \ {"requeue"}, NEW j \in Jobs
    PROVE  /\ Call(o, j) \in CallType
           /\ Call(o, j).op = o /\ Call(o, j).j = j /\ Call(o, j).w = {} /\ Call(o, j).q = {}
           /\ Call(o, j).f = FALSE /\ Call(o, j).l = "generation"
<1> DEFINE y == Call(o, j)
<1>1. y \in CallRecord /\ y.op = o /\ y.j = j /\ y.w = {} /\ y.q = {} /\ y.f = FALSE
      /\ y.l = "generation"
  BY DEF Call, NoFrame, CallRecord, JobOrNone, Statuses, Locks
<1> HIDE DEF y
<1>2. QED  BY <1>1 DEF y, CallType, Listing

LEMMA UpdateTyped ==
    ASSUME NEW j \in Jobs, NEW s \in Statuses
    PROVE  /\ Update(j, s) \in CallType
           /\ Update(j, s).op = "update" /\ Update(j, s).j = j /\ Update(j, s).s = s
<1> DEFINE y == Update(j, s)
<1>1. y \in CallRecord /\ y.op = "update" /\ y.j = j /\ y.s = s
  BY DEF Update, NoFrame, CallRecord, JobOrNone, Locks, Ops
<1> HIDE DEF y
<1>2. QED  BY <1>1 DEF y, CallType, Listing, JobCalls

LEMMA ReleaseTyped ==
    ASSUME NEW l \in Locks, NEW j \in Jobs
    PROVE  /\ Release(l, j) \in CallType
           /\ Release(l, j).op = "release" /\ Release(l, j).j = j /\ Release(l, j).l = l
<1> DEFINE y == Release(l, j)
<1>1. y \in CallRecord /\ y.op = "release" /\ y.j = j /\ y.l = l
  BY DEF Release, NoFrame, CallRecord, JobOrNone, Statuses, Ops
<1> HIDE DEF y
<1>2. QED  BY <1>1 DEF y, CallType, Listing, JobCalls

LEMMA CallLike ==
    ASSUME NEW y \in CallRecord, y.j \in Jobs,
           y.op \notin {"requeue", "promotenext", "scanlocks", "scanjobs", "adminnext"}
    PROVE  y \in CallType
  BY DEF CallType, Listing

LEMMA LocksTyped ==
    ASSUME NEW l \in Locks, NEW j \in Jobs, lk \in [Locks -> LockType]
    PROVE  /\ Acquired(l, j) \in LockType /\ Released(l, j) \in LockType
           /\ IssuedToken(l, j) \in Nat
<1> DEFINE x == lk[l]
<1>1. /\ x \in LockType /\ x.tok \in Nat /\ x.ctr \in Nat /\ x.row \in JobOrNone
      /\ x.owner \in JobOrNone
  BY DEF LockType
<1>2. IssuedToken(l, j) \in Nat
  BY <1>1 DEF IssuedToken
<1>3. Acquired(l, j) \in LockType
  BY <1>1, <1>2 DEF Acquired, LockType, JobOrNone
<1>4. Released(l, j) \in LockType
  <2> HIDE DEF x
  <2>1. [x EXCEPT !.owner = NoJob, !.tok = 0, !.row = IF @ = j THEN NoJob ELSE @] \in LockType
    BY <1>1 DEF LockType, JobOrNone
  <2>2. QED  BY <1>1, <2>1 DEF Released, x
<1>5. QED  BY <1>2, <1>3, <1>4

LEMMA ReclaimedTyped ==
    ASSUME NEW l \in Locks, lk \in [Locks -> LockType]
    PROVE  Reclaimed(l) \in LockType
<1> DEFINE x == lk[l]
<1>1. x \in LockType /\ x.ctr \in Nat
  BY DEF LockType
<1> HIDE DEF x
<1>2. [x EXCEPT !.owner = NoJob, !.tok = x.ctr + 1, !.ctr = @ + 1,
                  !.lastOwner = System, !.lastTok = x.ctr + 1, !.row = NoJob] \in LockType
  <2>1. NoJob \in JobOrNone /\ System \in JobOrNone \cup {System} /\ x.ctr + 1 \in Nat
    BY <1>1 DEF JobOrNone
  <2>2. QED  BY <1>1, <2>1 DEF LockType
<1>3. QED  BY <1>2 DEF Reclaimed, x

LEMMA Thrown ==
    ASSUME TInv, NEW t \in Threads, Throw(t)
    PROVE  Stacks' /\ stack'[t] = <<>> /\ RunsTyped' /\ AnswersTyped'
<1>1. Stacks' /\ stack'[t] = <<>>
  BY Nothing DEF Throw, TInv
<1>3. RunsTyped'
  <2>1. CASE Serves(t) = 0
    BY <2>1 DEF Throw, TInv, Stored, RunsTyped
  <2>2. CASE Serves(t) # 0
    <3>1. Serves(t) \in Mints
      BY <2>2 DEF TInv, Stored, AnswersTyped, Serves
    <3>2. run' = [run EXCEPT ![Serves(t)].stage = "gone"]
      BY <2>2 DEF Throw
    <3>3. run[Serves(t)].job \in Jobs
      BY <2>2 DEF TInv, Stored, AnswersTyped
    <3>4. QED  BY <3>1, <3>2, <3>3 DEF TInv, Stored, RunsTyped, Stages
  <2>3. QED  BY <2>1, <2>2
<1>2. AnswersTyped'
  <2>1. answer' \in [Threads -> [n : {0} \cup Mints, s : Statuses]]
    BY DEF Throw, TInv, Stored, AnswersTyped, NoAnswer, Statuses
  <2>2. \A u \in Threads : answer'[u] = answer[u] \/ answer'[u].n = 0
    BY DEF Throw, TInv, Stored, AnswersTyped, NoAnswer
  <2>3. \A n \in Mints : run'[n].job = run[n].job
    BY DEF Throw, TInv, Stored, RunsTyped
  <2>4. QED  BY <2>1, <2>2, <2>3 DEF TInv, Stored, AnswersTyped, Serves
<1>4. QED  BY <1>1, <1>2, <1>3

LEMMA Untouched ==
    ASSUME TInv
    PROVE  /\ UNCHANGED job => job' \in [Jobs -> RowType]
           /\ UNCHANGED lk => lk' \in [Locks -> LockType]
           /\ (UNCHANGED run => RunsTyped') /\ (UNCHANGED workers => RunsTyped' /\ AnswersTyped')
           /\ UNCHANGED mints => mints' \in 0 .. MaxMints
           /\ UNCHANGED queueVars => pending' \subseteq queuedIds' /\ queuedIds' \subseteq Jobs \X Nat
           /\ UNCHANGED dlq => dlq' \subseteq Jobs
  BY DEF TInv, Stored, RunsTyped, AnswersTyped, Serves, workers, queueVars
-----------------------------------------------------------------------------
(* What each step makes of the stack; it keeps the types. *)

LEMMA ReleaseLockT ==
    ASSUME TInv, NEW t \in Threads, ReleaseLock(t)
    PROVE  TInv' /\ Resumes(t)
<1>1. /\ stack[t] # <<>> /\ Top(t) \in CallRecord /\ Top(t).l \in Locks /\ Top(t).j \in Jobs
      /\ Stacks
  BY CurrentCall DEF ReleaseLock, CallRecord, JobCalls
<1>2. Stacks' /\ Resumes(t)
  BY <1>1, Returns DEF ReleaseLock
<1>3. lk' \in [Locks -> LockType]
  BY <1>1, LocksTyped DEF ReleaseLock, TInv, Stored
<1>4. QED  BY <1>2, <1>3, Untouched DEF ReleaseLock, TInv, Stored

LEMMA CreateReadT ==
    ASSUME TInv, NEW t \in Threads, NEW j \in Jobs, NEW d \in JobOrNone, CreateRead(t, j, d)
    PROVE  TInv'
<1> DEFINE f == d # NoJob /\ DependencyGate(job[d].status) = "block_dependency"
           y == [Call("slot", j) EXCEPT !.b = d, !.f = f]
<1>1. f \in BOOLEAN
  OBVIOUS
<1>2. Start(t, <<y>>)
  BY DEF CreateRead
<1> HIDE DEF f
<1>3. /\ y \in CallRecord /\ y.op = "slot" /\ y.j = j
  BY <1>1 DEF Call, NoFrame, CallRecord, Ops, JobOrNone, Statuses, Locks
<1> HIDE DEF y
<1>4. y \in CallType
  BY <1>3 DEF CallType, Listing
<1>5. Stacks'
  BY <1>2, <1>4, Begins DEF TInv
<1>6. QED  BY <1>5, Untouched DEF CreateRead, TInv, Stored

LEMMA SlotReadT ==
    ASSUME TInv, NEW t \in Threads, SlotRead(t)
    PROVE  TInv'
<1>1. stack[t] # <<>> /\ Top(t).j \in Jobs /\ Stacks /\ Top(t) \in CallRecord
  BY CurrentCall DEF SlotRead, JobCalls
<1>2. PICK i \in First(Active) :
         Continue(t, <<[Top(t) EXCEPT !.op = "insert", !.c = i, !.f = @ \/ i # NoJob]>>)
  BY DEF SlotRead
<1> DEFINE f == Top(t).f \/ i # NoJob
           y == [Top(t) EXCEPT !.op = "insert", !.c = i, !.f = f]
<1>3. i \in JobOrNone /\ f \in BOOLEAN
  BY DEF First, Active, JobOrNone
<1>4. Continue(t, <<y>>)
  BY <1>2
<1> HIDE DEF f
<1>5. y \in CallRecord /\ y.op = "insert" /\ y.j = Top(t).j
  <2>1. "insert" \in Ops
    BY DEF Ops
  <2>2. ASSUME NEW x \in CallRecord
        PROVE  LET z == [x EXCEPT !.op = "insert", !.c = i, !.f = f] IN
               z \in CallRecord /\ z.op = "insert" /\ z.j = x.j
    BY <1>3, <2>1 DEF CallRecord
  <2>3. QED  BY <1>1, <2>2
<1> HIDE DEF y
<1>6. y \in CallType
  BY <1>1, <1>5 DEF CallType, Listing
<1>7. Stacks'
  BY <1>1, <1>4, <1>6, Calls1
<1>8. QED  BY <1>7, Untouched DEF SlotRead, TInv, Stored

LEMMA CreateInsertT ==
    ASSUME TInv, NEW t \in Threads, CreateInsert(t)
    PROVE  /\ TInv' /\ (Resumes(t) \/ Makes(t, Call("dispatch", Top(t).j), {}))
           /\ job'[Top(t).j].status \in {"BLOCKED", "QUEUED"} /\ Top(t).j \in Jobs
           /\ ~ job'[Top(t).j].done /\ ~ job'[Top(t).j].lockKey
           /\ \A i \in Jobs \ {Top(t).j} : job'[i] = job[i]
<1> DEFINE x == Top(t)
           v == IF x.f THEN "BLOCKED" ELSE "QUEUED"
           r == [NewRow EXCEPT !.status = v, !.dep = x.b, !.blockedBy = x.c]
<1>1. /\ stack[t] # <<>> /\ x \in CallRecord /\ x.j \in Jobs /\ Stacks
  BY CurrentCall DEF CreateInsert, JobCalls
<1>2. x.b \in JobOrNone /\ x.c \in JobOrNone
  BY <1>1 DEF CallRecord
<1>3. job' = [job EXCEPT ![x.j] = r]
  BY DEF CreateInsert
<1>4. Continue(t, <<>>) \/ Continue(t, <<Call("dispatch", x.j)>>)
  BY DEF CreateInsert
<1> HIDE DEF x
<1>5. r \in RowType /\ r.status \in {"BLOCKED", "QUEUED"} /\ ~ r.done /\ ~ r.lockKey
  <2>1. v \in {"BLOCKED", "QUEUED"} /\ v \in Statuses
    BY DEF Statuses, JobStatuses
  <2> HIDE DEF v
  <2>2. 0 \in 0 .. MaxMints /\ 1 \in Nat \ {0}
    BY LimitsAssumption
  <2>3. NewRow \in RowType /\ ~ NewRow.done /\ ~ NewRow.lockKey
    BY <2>2 DEF NewRow, RowType, Statuses, JobOrNone
  <2>4. QED  BY <1>2, <2>1, <2>3 DEF RowType
<1>6. Call("dispatch", x.j) \in CallType
  BY <1>1, CallTyped DEF Ops
<1>7. Stacks' /\ (Resumes(t) \/ Makes(t, Call("dispatch", x.j), {}))
  BY <1>1, <1>4, <1>6, Returns, Calls1
<1> HIDE DEF r
<1>8. /\ job' \in [Jobs -> RowType] /\ job'[x.j] = r /\ \A i \in Jobs \ {x.j} : job'[i] = job[i]
  BY <1>1, <1>3, <1>5 DEF TInv, Stored
<1>9. TInv'
  BY <1>7, <1>8, Untouched DEF CreateInsert, TInv, Stored
<1>10. QED  BY <1>1, <1>5, <1>7, <1>8, <1>9 DEF x

LEMMA DispatchReadT ==
    ASSUME TInv, NEW t \in Threads, DispatchRead(t)
    PROVE  LET j == Top(t).j IN
           /\ TInv' /\ j \in Jobs
           /\ \/ Resumes(t)
              \/ /\ job[j].status \in Dispatchable
                 /\ \/ Makes(t, Update(j, "DEP_FAILED"), {})
                    \/ Makes(t, Call("block", j), {})
                    \/ Makes(t, [Call("lock", j) EXCEPT !.a = job[j].attempt], {})
<1> DEFINE j == Top(t).j
           y == [Call("lock", j) EXCEPT !.a = job[j].attempt]
           w == IF job[j].dep = NoJob THEN "allow" ELSE DependencyGate(DepStatus(j))
<1>1. stack[t] # <<>> /\ j \in Jobs /\ Stacks
  BY CurrentCall DEF DispatchRead, JobCalls
<1> DEFINE v == IF job[j].status \notin Dispatchable THEN <<>>
                ELSE CASE w = "dep_failed" -> <<Update(j, "DEP_FAILED")>>
                       [] w = "block_dependency" -> <<Call("block", j)>>
                       [] OTHER -> <<y>>
<1>2. Continue(t, v)
  BY DEF DispatchRead
<1> HIDE DEF y, w
<1>9. \/ v = <<>>
      \/ /\ job[j].status \in Dispatchable
         /\ v \in {<<Update(j, "DEP_FAILED")>>, <<Call("block", j)>>, <<y>>}
  OBVIOUS
<1> HIDE DEF v
<1>3. \/ Continue(t, <<>>)
      \/ /\ job[j].status \in Dispatchable
         /\ \/ Continue(t, <<Update(j, "DEP_FAILED")>>) \/ Continue(t, <<Call("block", j)>>)
            \/ Continue(t, <<y>>)
  BY <1>2, <1>9, Zenon
<1>4. Update(j, "DEP_FAILED") \in CallType /\ Call("block", j) \in CallType
  BY <1>1, UpdateTyped, CallTyped DEF Ops, Statuses, JobStatuses
<1>5. y \in CallType
  <2>1. job[j].attempt \in Nat
    BY <1>1 DEF TInv, Stored, RowType
  <2>2. y \in CallRecord /\ y.op = "lock" /\ y.j = j
    BY <1>1, <2>1 DEF y, Call, NoFrame, CallRecord, JobOrNone, Statuses, Locks, Ops
  <2>3. QED  BY <1>1, <2>2 DEF CallType, Listing
<1> HIDE DEF j
<1>6. /\ Stacks'
      /\ \/ Resumes(t)
         \/ /\ job[j].status \in Dispatchable
            /\ \/ Makes(t, Update(j, "DEP_FAILED"), {}) \/ Makes(t, Call("block", j), {})
               \/ Makes(t, y, {})
  BY <1>1, <1>3, <1>4, <1>5, Returns, Calls1
<1>7. TInv'
  BY <1>6, Untouched DEF DispatchRead, TInv, Stored
<1>8. QED  BY <1>1, <1>6, <1>7 DEF j, y
(* The row of job j becomes r. *)
Writes(j, r) ==
    /\ j \in Jobs /\ r \in RowType /\ job' \in [Jobs -> RowType]
    /\ job'[j] = r /\ \A i \in Jobs \ {j} : job'[i] = job[i]

LEMMA RowWritten ==
    ASSUME TInv, NEW j \in Jobs, NEW r \in RowType, job' = [job EXCEPT ![j] = r]
    PROVE  Writes(j, r)
  BY DEF TInv, Stored, Writes


LEMMA BlockWriteT ==
    ASSUME TInv, NEW t \in Threads, BlockWrite(t)
    PROVE  /\ TInv' /\ Resumes(t)
           /\ Writes(Top(t).j, [job[Top(t).j] EXCEPT !.status = "BLOCKED"])
<1> DEFINE j == Top(t).j
           r == [job[j] EXCEPT !.status = "BLOCKED"]
<1>1. stack[t] # <<>> /\ j \in Jobs /\ Stacks
  BY CurrentCall DEF BlockWrite, JobCalls
<1>2. Stacks' /\ Resumes(t)
  BY <1>1, Returns DEF BlockWrite
<1>3. job' = [job EXCEPT ![j] = r]
  BY DEF BlockWrite
<1> HIDE DEF j
<1>4. job[j] \in RowType /\ "BLOCKED" \in Statuses
  BY <1>1 DEF TInv, Stored, Statuses, JobStatuses
<1>5. r \in RowType
  BY <1>4 DEF RowType
<1> HIDE DEF r
<1>6. Writes(j, r)
  BY <1>1, <1>3, <1>5, RowWritten
<1>7. TInv'
  BY <1>2, <1>6, Untouched DEF BlockWrite, TInv, Stored, Writes
<1>8. QED  BY <1>2, <1>6, <1>7 DEF j, r

(* Acquiring the lock l for job j. *)
Acquires(l, j) ==
    /\ CanAcquire(l, j) /\ lk' = [lk EXCEPT ![l] = Acquired(l, j)]

LEMMA LockGenerationT ==
    ASSUME TInv, NEW t \in Threads, LockGeneration(t)
    PROVE  LET j == Top(t).j IN
           /\ TInv' /\ j \in Jobs
           /\ \/ /\ Acquires("generation", j)
                 /\ \E o \in {"mark", "locktarget"} :
                       /\ o = "mark" \/ j \in CrossJobs
                       /\ Makes(t, [Top(t) EXCEPT !.op = o, !.k = IssuedToken("generation", j)], {})
              \/ /\ UNCHANGED lk
                 /\ Makes(t, Call("block", j), {})
<1> DEFINE x == Top(t)
           j == x.j
           k == IssuedToken("generation", j)
           o == IF j \in CrossJobs THEN "locktarget" ELSE "mark"
           y == [x EXCEPT !.op = o, !.k = k]
<1>1. stack[t] # <<>> /\ j \in Jobs /\ Stacks /\ x \in CallRecord
  BY CurrentCall DEF LockGeneration, JobCalls
<1>2. \/ Acquires("generation", j) /\ Continue(t, <<y>>)
      \/ UNCHANGED lk /\ Continue(t, <<Call("block", j)>>)
  BY Zenon DEF LockGeneration, Acquires
<1>3. k \in Nat /\ lk' \in [Locks -> LockType]
  <2>1. "generation" \in Locks /\ lk \in [Locks -> LockType]
    BY DEF Locks, TInv, Stored
  <2>2. k \in Nat /\ Acquired("generation", j) \in LockType
    BY <1>1, <2>1, LocksTyped
  <2>3. QED  BY <1>2, <2>1, <2>2 DEF Acquires
<1>4. o \in {"mark", "locktarget"} /\ (o = "mark" \/ j \in CrossJobs)
  OBVIOUS
<1> HIDE DEF k, o, x
<1>5. y \in CallType
  <2>3. o \in Ops /\ k \in Nat
    BY <1>3, <1>4 DEF Ops
  <2>1. y \in CallRecord /\ y.op = o /\ y.j = x.j
    BY <1>1, <2>3 DEF CallRecord
  <2> HIDE DEF y
  <2>2. QED  BY <1>1, <1>4, <2>1, CallLike
<1>6. Call("block", j) \in CallType
  BY <1>1, CallTyped DEF Ops
<1> HIDE DEF y, j
<1>7. /\ Stacks'
      /\ \/ Acquires("generation", j) /\ Makes(t, y, {})
         \/ UNCHANGED lk /\ Makes(t, Call("block", j), {})
  BY <1>1, <1>2, <1>5, <1>6, Calls1
<1>8. TInv'
  BY <1>3, <1>7, Untouched DEF LockGeneration, TInv, Stored
<1>9. QED  BY <1>1, <1>4, <1>7, <1>8 DEF x, y, j, k

LEMMA LockTargetT ==
    ASSUME TInv, NEW t \in Threads, LockTarget(t)
    PROVE  TInv'
<1> DEFINE x == Top(t)
           j == x.j
           y == [x EXCEPT !.op = "provision"]
<1>1. stack[t] # <<>> /\ j \in Jobs /\ Stacks /\ x \in CallRecord
  BY CurrentCall DEF LockTarget, JobCalls
<1>2. \/ Acquires("target-path", j) /\ Continue(t, <<y>>)
      \/ UNCHANGED lk /\ Continue(t, <<Release("generation", j), Call("block", j)>>)
  BY Zenon DEF LockTarget, Acquires
<1>3. lk' \in [Locks -> LockType]
  <2>1. "target-path" \in Locks /\ lk \in [Locks -> LockType]
    BY DEF Locks, TInv, Stored
  <2>2. Acquired("target-path", j) \in LockType
    BY <1>1, <2>1, LocksTyped
  <2>3. QED  BY <1>2, <2>1, <2>2 DEF Acquires
<1> HIDE DEF x
<1>4. y \in CallType
  <2>1. y \in CallRecord /\ y.op = "provision" /\ y.j = x.j
    BY <1>1 DEF CallRecord, Ops
  <2> HIDE DEF y
  <2>2. QED  BY <1>1, <2>1, CallLike
<1>5. Call("block", j) \in CallType /\ Release("generation", j) \in CallType
  BY <1>1, CallTyped, ReleaseTyped DEF Ops, Locks
<1> HIDE DEF y
<1>6. Stacks'
  BY <1>1, <1>2, <1>4, <1>5, Calls1, Calls2
<1>7. QED  BY <1>3, <1>6, Untouched DEF LockTarget, TInv, Stored

LEMMA ProvisionT ==
    ASSUME TInv, NEW t \in Threads, Provision(t)
    PROVE  TInv'
<1> DEFINE x == Top(t)
           j == x.j
           y == [x EXCEPT !.op = "mark"]
           u == Release("generation", j)
           v == Release("target-path", j)
           z == Update(j, "DISPATCH_FAILED")
<1>1. stack[t] # <<>> /\ j \in Jobs /\ Stacks /\ x \in CallRecord
  BY CurrentCall DEF Provision, JobCalls
<1>2. Continue(t, <<y>>) \/ Continue(t, <<u, v, z>>)
  BY DEF Provision
<1> HIDE DEF x
<1>3. y \in CallType
  <2>1. y \in CallRecord /\ y.op = "mark" /\ y.j = x.j
    BY <1>1 DEF CallRecord, Ops
  <2> HIDE DEF y
  <2>2. QED  BY <1>1, <2>1, CallLike
<1>4. u \in CallType /\ v \in CallType /\ z \in CallType
  BY <1>1, UpdateTyped, ReleaseTyped DEF Statuses, JobStatuses, Locks
<1> HIDE DEF y, u, v, z
<1>5. Stacks'
  BY <1>1, <1>2, <1>3, <1>4, Calls1, Calls3
<1>6. QED  BY <1>5, Untouched DEF Provision, TInv, Stored

LEMMA MarkDispatchingT ==
    ASSUME TInv, NEW t \in Threads, MarkDispatching(t)
    PROVE  LET j == Top(t).j IN
           /\ TInv'
           /\ Writes(j, [job[j] EXCEPT !.status = "DISPATCHING", !.lockKey = TRUE,
                           !.cb = mints + 1, !.target = @ \/ j \in CrossJobs])
           /\ Makes(t, [Top(t) EXCEPT !.op = "workflow", !.n = mints + 1], {})
<1> DEFINE x == Top(t)
           j == x.j
           b == job[j].target \/ j \in CrossJobs
           r == [job[j] EXCEPT !.status = "DISPATCHING", !.lockKey = TRUE, !.cb = mints + 1,
                               !.target = b]
           y == [x EXCEPT !.op = "workflow", !.n = mints + 1]
<1>1. stack[t] # <<>> /\ j \in Jobs /\ Stacks /\ x \in CallRecord
  BY CurrentCall DEF MarkDispatching, JobCalls
<1>2. job' = [job EXCEPT ![j] = r] /\ Continue(t, <<y>>) /\ mints < MaxMints /\ mints' = mints + 1
  BY DEF MarkDispatching
<1>3. mints + 1 \in 0 .. MaxMints /\ mints + 1 \in Nat /\ mints' \in 0 .. MaxMints
  BY <1>2, LimitsAssumption DEF TInv, Stored
<1> HIDE DEF x, j
<1>4. y \in CallType
  <2>1. y \in CallRecord /\ y.op = "workflow" /\ y.j = x.j
    BY <1>1, <1>3 DEF CallRecord, Ops
  <2> HIDE DEF y
  <2>2. QED  BY <1>1, <2>1, CallLike DEF j
<1> HIDE DEF y
<1>5. Stacks' /\ Makes(t, y, {})
  BY <1>1, <1>2, <1>4, Calls1
<1>6. job[j] \in RowType /\ "DISPATCHING" \in Statuses
  BY <1>1 DEF TInv, Stored, Statuses, JobStatuses
<1>7. r \in RowType
  <2>1. b \in BOOLEAN
    BY <1>6 DEF RowType
  <2> HIDE DEF b
  <2>2. QED  BY <1>3, <1>6, <2>1 DEF RowType
<1> HIDE DEF r
<1>8. Writes(j, r)
  BY <1>1, <1>2, <1>7, RowWritten
<1>9. TInv'
  BY <1>3, <1>5, <1>8, Untouched DEF MarkDispatching, TInv, Stored, Writes
<1>10. QED  BY <1>5, <1>8, <1>9 DEF x, y, j, r

LEMMA DispatchWorkflowT ==
    ASSUME TInv, NEW t \in Threads, DispatchWorkflow(t)
    PROVE  TInv'
<1> DEFINE x == Top(t)
           y == Update(x.j, "DISPATCH_FAILED")
           z == [x EXCEPT !.op = "enqueue"]
<1>1. stack[t] # <<>> /\ x.j \in Jobs /\ Stacks /\ x \in CallRecord /\ UNCHANGED answer
  BY CurrentCall DEF DispatchWorkflow, JobCalls
<1>2. \/ StartRun(x) /\ Continue(t, <<z>>)
      \/ UNCHANGED run /\ Continue(t, <<y>>)
  BY DEF DispatchWorkflow
<1>3. y \in CallType
  BY <1>1, UpdateTyped DEF Statuses, JobStatuses
<1>4. z \in CallType
  BY <1>1 DEF CallType, CallRecord, Listing, Ops
<1> HIDE DEF y, z, x
<1>5. Stacks'
  BY <1>1, <1>2, <1>3, <1>4, Calls1
<1>6. RunsTyped' /\ AnswersTyped'
  <2>1. CASE UNCHANGED run
    BY <1>1, <2>1, Untouched DEF workers
  <2>2. CASE StartRun(x)
    <3>1. x.k \in Nat /\ "start" \in Stages
      BY <1>1 DEF CallRecord, Stages
    <3>2. run' = [run EXCEPT ![x.n] = [job |-> x.j, tok |-> x.k, stage |-> "start"]]
      BY <2>2 DEF StartRun
    <3>3. RunsTyped'
      BY <1>1, <3>1, <3>2 DEF TInv, Stored, RunsTyped, JobOrNone
    <3>4. \A n \in Mints : run'[n].job = run[n].job \/ run'[n].job = x.j
      BY <3>2 DEF TInv, Stored, RunsTyped
    <3>5. AnswersTyped'
      BY <1>1, <3>4 DEF TInv, Stored, AnswersTyped, Serves
    <3>6. QED  BY <3>3, <3>5
  <2>3. QED  BY <1>2, <2>1, <2>2
<1>7. QED
  BY <1>5, <1>6, Untouched DEF DispatchWorkflow, TInv, Stored, queueVars

LEMMA EnqueueT ==
    ASSUME TInv, NEW t \in Threads, Enqueue(t)
    PROVE  TInv'
<1>1. stack[t] # <<>> /\ Top(t).j \in Jobs /\ Stacks /\ Top(t) \in CallRecord
  BY CurrentCall DEF Enqueue, JobCalls
<1>2. ResolveId(Top(t)) \in Jobs \X Nat
  BY <1>1 DEF ResolveId, CallRecord
<1>3. pending' \subseteq queuedIds' /\ queuedIds' \subseteq Jobs \X Nat
  BY <1>2 DEF Enqueue, TInv, Stored
<1>4. Stacks'
  BY <1>1, Returns DEF Enqueue
<1>5. QED  BY <1>3, <1>4, Untouched DEF Enqueue, TInv, Stored

LEMMA UpdateReadT ==
    ASSUME TInv, NEW t \in Threads, UpdateRead(t)
    PROVE  LET x == Top(t) IN
           /\ TInv' /\ x.j \in Jobs
           /\ \/ /\ UpdatePermitted(x) /\ UNCHANGED workers
                 /\ Makes(t, [x EXCEPT !.op = "write", !.f = job[x.j].lockKey,
                                       !.g = job[x.j].target], {})
              \/ Throw(t) /\ stack'[t] = <<>>
<1> DEFINE x == Top(t)
           y == [x EXCEPT !.op = "write", !.f = job[x.j].lockKey, !.g = job[x.j].target]
<1>1. stack[t] # <<>> /\ x.j \in Jobs /\ Stacks /\ x \in CallRecord
  BY CurrentCall DEF UpdateRead, JobCalls
<1>2. \/ UpdatePermitted(x) /\ Continue(t, <<y>>) /\ UNCHANGED workers
      \/ Throw(t)
  BY DEF UpdateRead
<1>3. y \in CallType
  <2>1. job[x.j].lockKey \in BOOLEAN /\ job[x.j].target \in BOOLEAN
    BY <1>1 DEF TInv, Stored, RowType
  <2>2. y \in CallRecord /\ y.op = "write" /\ y.j = x.j
    BY <1>1, <2>1 DEF CallRecord, Ops
  <2> HIDE DEF y
  <2>3. QED  BY <1>1, <2>2, CallLike
<1> HIDE DEF y
<1>4. CASE UpdatePermitted(x) /\ Continue(t, <<y>>) /\ UNCHANGED workers
  <2>1. Stacks' /\ Makes(t, y, {})
    BY <1>1, <1>3, <1>4, Calls1
  <2>2. TInv'
    BY <1>4, <2>1, Untouched DEF UpdateRead, TInv, Stored
  <2>3. QED  BY <1>1, <1>4, <2>1, <2>2 DEF y
<1>5. CASE Throw(t)
  <2>1. Stacks' /\ stack'[t] = <<>> /\ RunsTyped' /\ AnswersTyped'
    BY <1>5, Thrown
  <2>2. TInv'
    BY <2>1, Untouched DEF UpdateRead, TInv, Stored
  <2>3. QED  BY <1>1, <1>5, <2>1, <2>2
<1>6. QED  BY <1>2, <1>4, <1>5

(* The row updateStatus writes. *)
Updated(x) ==
    [job[x.j] EXCEPT !.status = x.s, !.done = @ \/ x.s \in Terminal,
                     !.beat = @ \/ x.s \in {"STAGING", "VALIDATING", "COMMITTING"}]

LEMMA UpdateWriteT ==
    ASSUME TInv, NEW t \in Threads, UpdateWrite(t)
    PROVE  LET x == Top(t)
               r == Release("generation", x.j)
               u == Call("promote", x.j)
           IN
           /\ TInv' /\ Writes(x.j, Updated(x))
           /\ \/ x.s \in RetriableFailures /\ Makes(t, Call("fail", x.j), {})
              \/ /\ x.s \in Terminal /\ x.f
                 /\ \/ Makes(t, r, {u}) /\ ~ x.g
                    \/ Makes(t, r, {Release("target-path", x.j), u}) /\ x.g
              \/ x.s \notin RetriableFailures /\ ~ (x.s \in Terminal /\ x.f) /\ Resumes(t)
<1> DEFINE x == Top(t)
           r == Release("generation", x.j)
           v == Release("target-path", x.j)
           u == Call("promote", x.j)
           y == Call("fail", x.j)
<1>1. stack[t] # <<>> /\ x.j \in Jobs /\ Stacks /\ x \in CallRecord
  BY CurrentCall DEF UpdateWrite, JobCalls
<1>2. job' = [job EXCEPT ![x.j] = Updated(x)]
  BY DEF UpdateWrite, Updated
<1> DEFINE w == CASE x.s \in RetriableFailures -> <<y>>
                  [] x.s \in Terminal /\ x.f -> AfterTerminal(x)
                  [] OTHER -> <<>>
<1>3. Continue(t, w)
  BY Zenon DEF UpdateWrite
<1>4. y \in CallType /\ u \in CallType /\ r \in CallType /\ v \in CallType
  BY <1>1, CallTyped, ReleaseTyped DEF Ops, Locks
<1>5. AfterTerminal(x) = IF x.g THEN <<r, v, u>> ELSE <<r, u>>
  BY DEF AfterTerminal
<1>6. ~ (x.s \in RetriableFailures /\ x.s \in Terminal)
  BY DEF RetriableFailures, Terminal
<1> HIDE DEF y, u, r, v
<1>7. \/ x.s \in RetriableFailures /\ w = <<y>>
      \/ x.s \in Terminal /\ x.f /\ w = AfterTerminal(x)
      \/ x.s \notin RetriableFailures /\ ~ (x.s \in Terminal /\ x.f) /\ w = <<>>
  BY <1>6
<1> HIDE DEF w, x
<1>8. \/ x.s \in RetriableFailures /\ Continue(t, <<y>>)
      \/ x.s \in Terminal /\ x.f /\ x.g /\ Continue(t, <<r, v, u>>)
      \/ x.s \in Terminal /\ x.f /\ ~ x.g /\ Continue(t, <<r, u>>)
      \/ x.s \notin RetriableFailures /\ ~ (x.s \in Terminal /\ x.f) /\ Continue(t, <<>>)
  BY <1>3, <1>5, <1>7, Zenon
<1>9. /\ Stacks'
      /\ \/ x.s \in RetriableFailures /\ Makes(t, y, {})
         \/ x.s \in Terminal /\ x.f /\ x.g /\ Makes(t, r, {v, u})
         \/ x.s \in Terminal /\ x.f /\ ~ x.g /\ Makes(t, r, {u})
         \/ x.s \notin RetriableFailures /\ ~ (x.s \in Terminal /\ x.f) /\ Resumes(t)
  BY <1>1, <1>4, <1>8, Returns, Calls1, Calls2, Calls3
<1>10. Updated(x) \in RowType
  <2> DEFINE q == job[x.j]
             b == q.done \/ x.s \in Terminal
             c == q.beat \/ x.s \in {"STAGING", "VALIDATING", "COMMITTING"}
  <2>1. q \in RowType /\ x.s \in Statuses
    BY <1>1 DEF TInv, Stored, CallRecord
  <2>2. b \in BOOLEAN /\ c \in BOOLEAN
    OBVIOUS
  <2>3. Updated(x) = [q EXCEPT !.status = x.s, !.done = b, !.beat = c]
    BY DEF Updated
  <2> HIDE DEF q, b, c
  <2>4. QED  BY <2>1, <2>2, <2>3 DEF RowType
<1>11. Writes(x.j, Updated(x))
  BY <1>1, <1>2, <1>10, RowWritten
<1>12. TInv'
  BY <1>9, <1>11, Untouched DEF UpdateWrite, TInv, Stored, Writes
<1>13. QED  BY <1>9, <1>11, <1>12 DEF x, y, u, v, r

LEMMA FailReadT ==
    ASSUME TInv, NEW t \in Threads, FailRead(t)
    PROVE  LET j == Top(t).j IN
           /\ TInv' /\ j \in Jobs
           /\ \/ Makes(t, [Call("requeue", j) EXCEPT !.a = job[j].attempt + 1], {})
              \/ Makes(t, [Call("bury", j) EXCEPT !.f = job[j].lockKey], {})
<1> DEFINE j == Top(t).j
           y == [Call("requeue", j) EXCEPT !.a = job[j].attempt + 1]
           z == [Call("bury", j) EXCEPT !.f = job[j].lockKey]
<1>1. stack[t] # <<>> /\ j \in Jobs /\ Stacks
  BY CurrentCall DEF FailRead, JobCalls
<1>2. Continue(t, <<y>>) \/ Continue(t, <<z>>)
  BY DEF FailRead
<1> HIDE DEF j
<1>3. job[j].attempt + 1 \in Nat \ {0} /\ job[j].lockKey \in BOOLEAN
  BY <1>1 DEF TInv, Stored, RowType
<1>4. y \in CallType
  <2>1. y \in CallRecord /\ y.op = "requeue" /\ y.j = j /\ y.a # 0
    BY <1>1, <1>3 DEF Call, NoFrame, CallRecord, JobOrNone, Statuses, Locks, Ops
  <2>2. QED  BY <1>1, <2>1 DEF CallType, Listing
<1>5. z \in CallType
  <2>1. z \in CallRecord /\ z.op = "bury" /\ z.j = j
    BY <1>1, <1>3 DEF Call, NoFrame, CallRecord, JobOrNone, Statuses, Locks, Ops
  <2>2. QED  BY <1>1, <2>1 DEF CallType, Listing
<1> HIDE DEF y, z
<1>6. Stacks' /\ (Makes(t, y, {}) \/ Makes(t, z, {}))
  BY <1>1, <1>2, <1>4, <1>5, Calls1
<1>7. TInv'
  BY <1>6, Untouched DEF FailRead, TInv, Stored
<1>8. QED  BY <1>1, <1>6, <1>7 DEF y, z, j

(* Writing the row and dispatching the job. *)
LEMMA WriteAndDispatch ==
    ASSUME TInv, NEW t \in Threads, NEW o \in JobCalls, At(t, o), NEW r \in RowType,
           job' = [job EXCEPT ![Top(t).j] = r],
           Continue(t, <<Call("dispatch", Top(t).j)>>),
           UNCHANGED <<created, lk, workers, mints, queueVars, dlq, budget>>
    PROVE  /\ TInv' /\ Writes(Top(t).j, r) /\ Makes(t, Call("dispatch", Top(t).j), {})
<1> DEFINE j == Top(t).j
<1>1. stack[t] # <<>> /\ j \in Jobs /\ Stacks
  BY CurrentCall
<1>2. Call("dispatch", j) \in CallType
  BY <1>1, CallTyped DEF Ops
<1>3. Stacks' /\ Makes(t, Call("dispatch", j), {})
  BY <1>1, <1>2, Calls1
<1>4. Writes(j, r)
  BY <1>1, RowWritten
<1>5. TInv'
  BY <1>3, <1>4, Untouched DEF TInv, Stored, Writes
<1>6. QED  BY <1>3, <1>4, <1>5

LEMMA RequeueT ==
    ASSUME TInv, NEW t \in Threads, Requeue(t)
    PROVE  LET x == Top(t) IN
           /\ TInv' /\ Makes(t, Call("dispatch", x.j), {})
           /\ Writes(x.j, [job[x.j] EXCEPT !.status = "QUEUED", !.attempt = x.a, !.done = FALSE])
<1> DEFINE x == Top(t)
           r == [job[x.j] EXCEPT !.status = "QUEUED", !.attempt = x.a, !.done = FALSE]
<1>1. x \in CallRecord /\ x.j \in Jobs /\ x.a # 0 /\ At(t, "requeue") /\ "requeue" \in JobCalls
  BY CurrentCall DEF Requeue, Listing, JobCalls
<1>2. r \in RowType
  <2>1. job[x.j] \in RowType /\ x.a \in Nat \ {0} /\ "QUEUED" \in Statuses
    BY <1>1 DEF TInv, Stored, CallRecord, Statuses, JobStatuses
  <2> HIDE DEF x
  <2>2. QED  BY <2>1 DEF RowType
<1>3. job' = [job EXCEPT ![Top(t).j] = r] /\ Continue(t, <<Call("dispatch", Top(t).j)>>)
      /\ UNCHANGED <<created, lk, workers, mints, queueVars, dlq, budget>>
  BY DEF Requeue, history
<1> HIDE DEF r
<1>4. QED  BY <1>1, <1>2, <1>3, WriteAndDispatch DEF r

LEMMA PromoteWriteT ==
    ASSUME TInv, NEW t \in Threads, PromoteWrite(t)
    PROVE  LET x == Top(t) IN
           /\ TInv' /\ Makes(t, Call("dispatch", x.j), {})
           /\ Writes(x.j, [job[x.j] EXCEPT !.status = "QUEUED", !.blockedBy = NoJob])
<1> DEFINE x == Top(t)
           r == [job[x.j] EXCEPT !.status = "QUEUED", !.blockedBy = NoJob]
<1>1. x.j \in Jobs /\ At(t, "unblock") /\ "unblock" \in JobCalls
  BY CurrentCall DEF PromoteWrite, JobCalls
<1>2. r \in RowType
  <2>1. job[x.j] \in RowType /\ "QUEUED" \in Statuses /\ NoJob \in JobOrNone
    BY <1>1 DEF TInv, Stored, Statuses, JobStatuses, JobOrNone
  <2> HIDE DEF x
  <2>2. QED  BY <2>1 DEF RowType
<1>3. job' = [job EXCEPT ![Top(t).j] = r] /\ Continue(t, <<Call("dispatch", Top(t).j)>>)
      /\ UNCHANGED <<created, lk, workers, mints, queueVars, dlq, budget>>
  BY DEF PromoteWrite, history
<1> HIDE DEF r
<1>4. QED  BY <1>1, <1>2, <1>3, WriteAndDispatch DEF r

LEMMA ReviveT ==
    ASSUME TInv, NEW t \in Threads, Revive(t)
    PROVE  TInv'
<1> DEFINE x == Top(t)
           r == [job[x.j] EXCEPT !.status = "QUEUED", !.attempt = 1, !.done = FALSE]
<1>1. x.j \in Jobs /\ At(t, "revive") /\ "revive" \in JobCalls
  BY CurrentCall DEF Revive, JobCalls
<1>2. r \in RowType
  <2>1. job[x.j] \in RowType /\ "QUEUED" \in Statuses /\ 1 \in Nat \ {0}
    BY <1>1 DEF TInv, Stored, Statuses, JobStatuses
  <2> HIDE DEF x
  <2>2. QED  BY <2>1 DEF RowType
<1>3. job' = [job EXCEPT ![Top(t).j] = r] /\ Continue(t, <<Call("dispatch", Top(t).j)>>)
      /\ UNCHANGED <<created, lk, workers, mints, queueVars, dlq, budget>>
  BY DEF Revive, history
<1> HIDE DEF r
<1>4. QED  BY <1>1, <1>2, <1>3, WriteAndDispatch

LEMMA BuryT ==
    ASSUME TInv, NEW t \in Threads, Bury(t)
    PROVE  LET x == Top(t) IN
           /\ TInv' /\ Writes(x.j, [job[x.j] EXCEPT !.status = "DEAD_LETTER", !.done = TRUE])
           /\ \/ Makes(t, Release("generation", x.j), {Call("promote", x.j)}) /\ x.f
              \/ Resumes(t) /\ ~ x.f
<1> DEFINE x == Top(t)
           r == [job[x.j] EXCEPT !.status = "DEAD_LETTER", !.done = TRUE]
           y == Release("generation", x.j)
           z == Call("promote", x.j)
<1>1. stack[t] # <<>> /\ x.j \in Jobs /\ Stacks
  BY CurrentCall DEF Bury, JobCalls
<1>2. y \in CallType /\ z \in CallType
  BY <1>1, CallTyped, ReleaseTyped DEF Ops, Locks
<1>3. job' = [job EXCEPT ![x.j] = r] /\ dlq' = dlq \cup {x.j}
  BY DEF Bury
<1>4. (Continue(t, <<y, z>>) /\ x.f) \/ (Continue(t, <<>>) /\ ~ x.f)
  BY DEF Bury
<1>5. job[x.j] \in RowType /\ "DEAD_LETTER" \in Statuses
  BY <1>1 DEF TInv, Stored, Statuses, JobStatuses
<1> HIDE DEF x, y, z
<1>6. r \in RowType
  BY <1>5 DEF RowType
<1> HIDE DEF r
<1>7. Writes(x.j, r)
  BY <1>1, <1>3, <1>6, RowWritten
<1>8. Stacks' /\ ((Makes(t, y, {z}) /\ x.f) \/ (Resumes(t) /\ ~ x.f))
  BY <1>1, <1>2, <1>4, Returns, Calls2
<1>9. dlq' \subseteq Jobs
  BY <1>1, <1>3 DEF TInv, Stored
<1>10. TInv'
  BY <1>7, <1>8, <1>9, Untouched DEF Bury, TInv, Stored, Writes
<1>11. QED  BY <1>7, <1>8, <1>10 DEF x, y, z, r

LEMMA PromoteReadT ==
    ASSUME TInv, NEW t \in Threads, PromoteRead(t)
    PROVE  \E y \in CallType :
              /\ TInv' /\ Makes(t, y, {}) /\ y.op = "promotenext"
              /\ y.w = {<<i, job[i].blockedBy>> : i \in {k \in Jobs : job[k].status = "BLOCKED"}}
<1> DEFINE x == Top(t)
           w == {<<i, job[i].blockedBy>> : i \in {k \in Jobs : job[k].status = "BLOCKED"}}
           y == [x EXCEPT !.op = "promotenext", !.w = w]
<1>1. stack[t] # <<>> /\ x \in CallRecord /\ Stacks
  BY CurrentCall DEF PromoteRead
<1>2. Continue(t, <<y>>)
  BY DEF PromoteRead
<1>3. w \subseteq Jobs \X JobOrNone
  <2>1. \A i \in Jobs : job[i].blockedBy \in JobOrNone
    BY DEF TInv, Stored, RowType
  <2>2. QED  BY <2>1
<1> HIDE DEF x, w
<1>4. y \in CallRecord /\ y.op = "promotenext" /\ y.w = w
  BY <1>1, <1>3 DEF CallRecord, Ops
<1> HIDE DEF y
<1>5. y \in CallType
  BY <1>3, <1>4 DEF CallType, Listing, JobCalls
<1>6. Stacks' /\ Makes(t, y, {})
  BY <1>1, <1>2, <1>5, Calls1
<1>7. TInv'
  BY <1>6, Untouched DEF PromoteRead, TInv, Stored
<1>8. QED  BY <1>4, <1>5, <1>6, <1>7 DEF w

(* The list without one of its entries. *)
LEMMA ListShorter ==
    ASSUME NEW x \in CallType, NEW e, x.op \notin JobCalls \ {"release"}
    PROVE  /\ [x EXCEPT !.w = @ \ {e}] \in CallType
           /\ [x EXCEPT !.w = @ \ {e}].op = x.op /\ [x EXCEPT !.w = @ \ {e}].j = x.j
           /\ [x EXCEPT !.w = @ \ {e}].l = x.l
           /\ [x EXCEPT !.w = @ \ {e}].w = x.w \ {e}
<1> DEFINE y == [x EXCEPT !.w = @ \ {e}]
<1>1. y \in CallRecord /\ y.op = x.op /\ y.w = x.w \ {e} /\ y.j = x.j /\ y.l = x.l /\ y.a = x.a
  BY DEF CallType, CallRecord
<1> HIDE DEF y
<1>2. y \in CallType
  BY <1>1 DEF CallType, Listing
<1>3. QED  BY <1>1, <1>2 DEF y

LEMMA PromoteNextT ==
    ASSUME TInv, NEW t \in Threads, PromoteNext(t)
    PROVE  LET x == Top(t) IN
           /\ TInv'
           /\ \/ Resumes(t)
              \/ \E e \in x.w :
                    LET z == [x EXCEPT !.w = @ \ {e}] IN
                    /\ e[1] \in Jobs /\ z.op = "promotenext" /\ z.w = x.w \ {e}
                    /\ \/ Makes(t, Update(e[1], "DEP_FAILED"), {z})
                       \/ Makes(t, z, {})
                       \/ Makes(t, Call("unblock", e[1]), {})
<1> DEFINE x == Top(t)
<1>1. /\ stack[t] # <<>> /\ x \in CallType /\ Stacks /\ x.op = "promotenext"
      /\ x.w \subseteq Jobs \X JobOrNone
  BY CurrentCall DEF PromoteNext, Listing
<1>2. CASE Continue(t, <<>>)
  <2>1. Stacks' /\ Resumes(t)
    BY <1>1, <1>2, Returns
  <2>2. TInv'
    BY <2>1, Untouched DEF PromoteNext, TInv, Stored
  <2>3. QED  BY <2>1, <2>2
<1>3. ASSUME NEW e \in x.w, NEW d \in {"dep_failed", "keep", "promote"},
             Continue(t, CASE d = "dep_failed" -> <<Update(e[1], "DEP_FAILED"), [x EXCEPT !.w = x.w \ {e}]>>
                           [] d = "keep" -> <<[x EXCEPT !.w = x.w \ {e}]>>
                           [] OTHER -> <<Call("unblock", e[1])>>)
      PROVE  LET z == [x EXCEPT !.w = @ \ {e}] IN
             /\ TInv' /\ e[1] \in Jobs /\ z.op = "promotenext" /\ z.w = x.w \ {e}
             /\ \/ Makes(t, Update(e[1], "DEP_FAILED"), {z})
                \/ Makes(t, z, {})
                \/ Makes(t, Call("unblock", e[1]), {})
  <2> DEFINE z == [x EXCEPT !.w = @ \ {e}]
             y == Update(e[1], "DEP_FAILED")
             u == Call("unblock", e[1])
             v == CASE d = "dep_failed" -> <<y, z>> [] d = "keep" -> <<z>> [] OTHER -> <<u>>
  <2>1. e[1] \in Jobs
    BY <1>1, <1>3
  <2>2. y \in CallType /\ u \in CallType
    BY <2>1, CallTyped, UpdateTyped DEF Ops, Statuses, JobStatuses
  <2>3. z \in CallType /\ z.op = "promotenext" /\ z.w = x.w \ {e}
    BY <1>1, ListShorter DEF JobCalls
  <2>4. Continue(t, v)
    BY <1>3
  <2> HIDE DEF y, u, z
  <2>5. v = <<y, z>> \/ v = <<z>> \/ v = <<u>>
    OBVIOUS
  <2> HIDE DEF v
  <2>6. Continue(t, <<y, z>>) \/ Continue(t, <<z>>) \/ Continue(t, <<u>>)
    BY <2>4, <2>5, Zenon
  <2>7. Stacks' /\ (Makes(t, y, {z}) \/ Makes(t, z, {}) \/ Makes(t, u, {}))
    BY <1>1, <2>2, <2>3, <2>6, Calls1, Calls2
  <2>8. TInv'
    BY <2>7, Untouched DEF PromoteNext, TInv, Stored
  <2>9. QED  BY <2>1, <2>3, <2>7, <2>8 DEF y, u, z
<1>4. \/ Continue(t, <<>>)
      \/ \E e \in x.w : \E d \in {"dep_failed", "keep", "promote"} :
            Continue(t, CASE d = "dep_failed" -> <<Update(e[1], "DEP_FAILED"), [x EXCEPT !.w = x.w \ {e}]>>
                          [] d = "keep" -> <<[x EXCEPT !.w = x.w \ {e}]>>
                          [] OTHER -> <<Call("unblock", e[1])>>)
  <2>1. SUFFICES ASSUME ~ Continue(t, <<>>)
                 PROVE  \E e \in x.w : \E d \in {"dep_failed", "keep", "promote"} :
            Continue(t, CASE d = "dep_failed" -> <<Update(e[1], "DEP_FAILED"), [x EXCEPT !.w = x.w \ {e}]>>
                          [] d = "keep" -> <<[x EXCEPT !.w = x.w \ {e}]>>
                          [] OTHER -> <<Call("unblock", e[1])>>)
    OBVIOUS
  <2> DEFINE D(e) == PromoteDecision(
                    job[e[1]].dep # NoJob, DepStatus(e[1]),
                    e[2] \notin {NoJob, x.j}, IF e[2] = NoJob THEN "NONE" ELSE job[e[2]].status,
                    \E y \in Jobs \ {x.j} : job[y].status \in SlotActive)
  <2>2. PICK e \in x.w :
            Continue(t, CASE D(e) = "dep_failed" -> <<Update(e[1], "DEP_FAILED"), [x EXCEPT !.w = x.w \ {e}]>>
                          [] D(e) = "keep" -> <<[x EXCEPT !.w = x.w \ {e}]>>
                          [] OTHER -> <<Call("unblock", e[1])>>)
    BY <2>1, Zenon DEF PromoteNext
  <2>3. D(e) \in {"dep_failed", "keep", "promote"}
    BY DEF PromoteDecision
  <2> HIDE DEF D
  <2>4. QED  BY <2>2, <2>3, Zenon
<1>5. QED
  <2>1. CASE \E e \in x.w : \E d \in {"dep_failed", "keep", "promote"} :
            Continue(t, CASE d = "dep_failed" -> <<Update(e[1], "DEP_FAILED"), [x EXCEPT !.w = x.w \ {e}]>>
                          [] d = "keep" -> <<[x EXCEPT !.w = x.w \ {e}]>>
                          [] OTHER -> <<Call("unblock", e[1])>>)
    BY <1>3, <2>1, Zenon
  <2>2. QED  BY <1>2, <1>4, <2>1

(* Steps that leave the rows alone and push calls of these forms. *)
LEMMA StaleTyped ==
    ASSUME NEW j \in Jobs, NEW a \in Nat
    PROVE  LET y == [Call("stale", j) EXCEPT !.g = TRUE]
               z == [Call("stale", j) EXCEPT !.a = a]
               u == [Call("stale", j) EXCEPT !.a = a, !.g = TRUE]
           IN
           /\ y \in CallType /\ y.op = "stale" /\ y.j = j
           /\ z \in CallType /\ z.op = "stale" /\ z.j = j
           /\ u \in CallType /\ u.op = "stale" /\ u.j = j
<1> DEFINE c == Call("stale", j)
           y == [c EXCEPT !.g = TRUE]
           z == [c EXCEPT !.a = a]
           u == [c EXCEPT !.a = a, !.g = TRUE]
<1>1. c \in CallRecord /\ c.op = "stale" /\ c.j = j
  <2>1. c \in CallType /\ c.op = "stale" /\ c.j = j
    <3>1. "stale" \in Ops \ {"requeue"}
      BY DEF Ops
    <3>2. QED  BY <3>1, CallTyped, Zenon
  <2>2. QED  BY <2>1 DEF CallType
<1> HIDE DEF c
<1>2. y \in CallRecord /\ y.op = "stale" /\ y.j = j
  BY <1>1 DEF CallRecord
<1>3. z \in CallRecord /\ z.op = "stale" /\ z.j = j
  BY <1>1 DEF CallRecord
<1>4. u \in CallRecord /\ u.op = "stale" /\ u.j = j
  BY <1>1 DEF CallRecord
<1> HIDE DEF y, z, u
<1>5. y \in CallType /\ z \in CallType /\ u \in CallType
  BY <1>2, <1>3, <1>4, CallLike
<1>6. QED  BY <1>2, <1>3, <1>4, <1>5 DEF c, y, z, u

LEMMA ResolveReadT ==
    ASSUME TInv, NEW t \in Threads, NEW id \in pending, ResolveRead(t, id)
    PROVE  /\ TInv' /\ id[1] \in Jobs
           /\ \/ stack'[t] = <<>>
              \/ /\ stack'[t] # <<>> /\ Top(t)' = Call("resolve", id[1]) /\ Below(t)' = {}
                 /\ job[id[1]].status = "DISPATCHING"
<1>1. id[1] \in Jobs /\ Stacks
  BY DEF TInv, Stored
<1>2. Call("resolve", id[1]) \in CallType
  BY <1>1, CallTyped DEF Ops
<1>3. CASE job[id[1]].status = "DISPATCHING"
  <2>1. Start(t, <<Call("resolve", id[1])>>)
    BY <1>3 DEF ResolveRead
  <2>2. /\ Stacks' /\ stack'[t] # <<>> /\ Top(t)' = Call("resolve", id[1]) /\ Below(t)' = {}
    BY <1>1, <1>2, <2>1, Begins
  <2>3. QED  BY <1>1, <1>3, <2>2, Untouched DEF ResolveRead, TInv, Stored
<1>4. CASE job[id[1]].status # "DISPATCHING"
  <2>1. stack' = [stack EXCEPT ![t] = <<>>]
    BY <1>4 DEF ResolveRead, Start
  <2>2. Stacks' /\ stack'[t] = <<>>
    BY <1>1, <2>1, Nothing
  <2>3. QED  BY <1>1, <2>2, Untouched DEF ResolveRead, TInv, Stored
<1>5. QED  BY <1>3, <1>4

LEMMA ResolveDoneT ==
    ASSUME TInv, NEW t \in Threads, ResolveDone(t)
    PROVE  /\ TInv' /\ Top(t).j \in Jobs
           /\ \E s \in {"DISPATCH_TIMEOUT", "STAGING"} : Makes(t, Update(Top(t).j, s), {})
<1> DEFINE x == Top(t)
<1>1. stack[t] # <<>> /\ x.j \in Jobs /\ Stacks
  BY CurrentCall DEF ResolveDone, JobCalls
<1>2. PICK s \in {"DISPATCH_TIMEOUT", "STAGING"} : Continue(t, <<Update(x.j, s)>>)
  BY DEF ResolveDone, ResolveRunId
<1>3. Update(x.j, s) \in CallType
  BY <1>1, UpdateTyped DEF Statuses, JobStatuses
<1>4. Stacks' /\ Makes(t, Update(x.j, s), {})
  BY <1>1, <1>2, <1>3, Calls1
<1>5. QED  BY <1>1, <1>4, Untouched DEF ResolveDone, TInv, Stored

LEMMA ScanReadT ==
    ASSUME TInv, NEW t \in Threads, ScanRead(t)
    PROVE  /\ TInv' /\ stack'[t] # <<>> /\ Below(t)' = {} /\ Top(t)'.op = "scanlocks"
           /\ \A e \in Top(t)'.w : e \in Locks \X Jobs /\ e[2] = lk[e[1]].row
<1>1. PICK ls \in SUBSET {l \in Locks : lk[l].row # NoJob} :
          Start(t, <<[NoFrame EXCEPT !.op = "scanlocks", !.w = {<<l, lk[l].row>> : l \in ls}]>>)
  BY Zenon DEF ScanRead
<1> DEFINE w == {<<l, lk[l].row>> : l \in ls}
           y == [NoFrame EXCEPT !.op = "scanlocks", !.w = w]
<1>2. w \subseteq Locks \X Jobs /\ \A e \in w : e[2] = lk[e[1]].row
  <2>1. \A l \in ls : l \in Locks /\ lk[l].row \in Jobs
    BY DEF TInv, Stored, LockType, JobOrNone
  <2>2. QED  BY <2>1
<1>3. Start(t, <<y>>)
  BY <1>1
<1> HIDE DEF w
<1>4. y \in CallRecord /\ y.op = "scanlocks" /\ y.w = w
  BY <1>2 DEF NoFrame, CallRecord, JobOrNone, Statuses, Locks, Ops
<1> HIDE DEF y
<1>5. y \in CallType
  BY <1>2, <1>4 DEF CallType, Listing, JobCalls
<1>6. Stacks' /\ stack'[t] # <<>> /\ Top(t)' = y /\ Below(t)' = {}
  BY <1>3, <1>5, Begins DEF TInv
<1>7. QED  BY <1>2, <1>4, <1>6, Untouched DEF ScanRead, TInv, Stored

Scannable == {"STAGING", "VALIDATING", "COMMITTING", "POST_COMMIT_VERIFY", "DISPATCHING"}

LEMMA ScanLockT ==
    ASSUME TInv, NEW t \in Threads, ScanLock(t)
    PROVE  LET x == Top(t) IN
           /\ TInv' /\ x.op = "scanlocks"
           /\ \/ \E e \in x.w, y \in CallType, z \in CallType :
                    /\ e \in Locks \X Jobs
                    /\ lk' = [lk EXCEPT ![e[1]] = Reclaimed(e[1])] /\ Makes(t, y, {z})
                    /\ y.op = "stale" /\ y.j = e[2]
                    /\ z.op = "scanlocks" /\ z.w = x.w \ {e}
              \/ /\ UNCHANGED lk /\ x.w = {}
                 /\ \E y \in CallType :
                       /\ Makes(t, y, {}) /\ y.op = "scanjobs"
                       /\ \A e \in y.w : \E j \in Jobs :
                             /\ e = <<j, job[j].lockKey, job[j].attempt>>
                             /\ job[j].status \in Scannable
<1> DEFINE x == Top(t)
<1>1. stack[t] # <<>> /\ Stacks /\ x \in CallType /\ x.op = "scanlocks" /\ x.w \subseteq Locks \X Jobs
  <2>1. At(t, "scanlocks")
    BY Zenon DEF ScanLock
  <2>2. QED  BY <2>1, CurrentCall DEF Listing
<1>5. UNCHANGED <<job, created, workers, mints, queueVars, dlq, budget>>
  BY Zenon DEF ScanLock, history
<1> HIDE DEF x
<1>2. CASE \E e \in x.w :
             /\ lk' = [lk EXCEPT ![e[1]] = Reclaimed(e[1])]
             /\ Continue(t, <<[Call("stale", e[2]) EXCEPT !.g = TRUE],
                              [x EXCEPT !.w = @ \ {e}, !.q = @ \cup {e[2]}]>>)
  <2>1. PICK e \in x.w :
             /\ lk' = [lk EXCEPT ![e[1]] = Reclaimed(e[1])]
             /\ Continue(t, <<[Call("stale", e[2]) EXCEPT !.g = TRUE],
                              [x EXCEPT !.w = @ \ {e}, !.q = @ \cup {e[2]}]>>)
    BY <1>2, Zenon
  <2> DEFINE y == [Call("stale", e[2]) EXCEPT !.g = TRUE]
             z == [x EXCEPT !.w = @ \ {e}, !.q = @ \cup {e[2]}]
  <2>2. e \in Locks \X Jobs /\ e[1] \in Locks /\ e[2] \in Jobs
    BY <1>1
  <2>3. y \in CallType /\ y.op = "stale" /\ y.j = e[2]
    <3>1. 0 \in Nat
      OBVIOUS
    <3>2. QED  BY <2>2, <3>1, StaleTyped, Zenon
  <2>4. z \in CallType /\ z.op = "scanlocks" /\ z.w = x.w \ {e}
    <3>1. z \in CallRecord /\ z.op = "scanlocks" /\ z.w = x.w \ {e}
      BY <1>1, <2>2 DEF CallType, CallRecord, JobOrNone
    <3> HIDE DEF z
    <3>2. QED  BY <1>1, <3>1 DEF CallType, Listing, JobCalls
  <2>5. Continue(t, <<y, z>>)
    BY <2>1
  <2> HIDE DEF y, z
  <2>6. Stacks' /\ Makes(t, y, {z})
    BY <1>1, <2>3, <2>4, <2>5, Calls2
  <2>7. lk' \in [Locks -> LockType]
    <3>1. lk \in [Locks -> LockType]
      BY DEF TInv, Stored
    <3>2. Reclaimed(e[1]) \in LockType
      BY <2>2, <3>1, ReclaimedTyped
    <3>3. QED  BY <2>1, <2>2, <3>1, <3>2
  <2>8. TInv'
    BY <1>5, <2>6, <2>7, Untouched DEF TInv, Stored
  <2>9. QED  BY <1>1, <2>1, <2>2, <2>3, <2>4, <2>6, <2>8 DEF x
<1>3. CASE /\ UNCHANGED lk /\ x.w = {}
           /\ \E js \in SUBSET {j \in Jobs : job[j].status \in Scannable} :
                Continue(t, <<[NoFrame EXCEPT !.op = "scanjobs",
                   !.w = {<<j, job[j].lockKey, job[j].attempt>> : j \in js}]>>)
  <2>1. PICK js \in SUBSET {j \in Jobs : job[j].status \in Scannable} :
                Continue(t, <<[NoFrame EXCEPT !.op = "scanjobs",
                   !.w = {<<j, job[j].lockKey, job[j].attempt>> : j \in js}]>>)
    BY <1>3, Zenon
  <2> DEFINE w == {<<j, job[j].lockKey, job[j].attempt>> : j \in js}
             y == [NoFrame EXCEPT !.op = "scanjobs", !.w = w]
  <2>2. /\ w \subseteq Jobs \X BOOLEAN \X Nat
        /\ \A e \in w : \E j \in Jobs : /\ e = <<j, job[j].lockKey, job[j].attempt>>
                                       /\ job[j].status \in Scannable
    <3>1. \A j \in js : j \in Jobs /\ job[j].lockKey \in BOOLEAN /\ job[j].attempt \in Nat
      BY DEF TInv, Stored, RowType
    <3>2. QED  BY <3>1
  <2>3. Continue(t, <<y>>)
    BY <2>1
  <2> HIDE DEF w
  <2>4. y \in CallRecord /\ y.op = "scanjobs" /\ y.w = w
    BY <2>2 DEF NoFrame, CallRecord, JobOrNone, Statuses, Locks, Ops
  <2> HIDE DEF y
  <2>5. y \in CallType
    BY <2>2, <2>4 DEF CallType, Listing, JobCalls
  <2>6. Stacks' /\ Makes(t, y, {})
    BY <1>1, <2>3, <2>5, Calls1
  <2>7. TInv'
    BY <1>3, <1>5, <2>6, Untouched DEF TInv, Stored
  <2>8. QED  BY <1>1, <1>3, <2>2, <2>4, <2>5, <2>6, <2>7 DEF x
<1>4. QED
  <2>1. \A js : js \in SUBSET {j \in Jobs : /\ job[j].beat
                    /\ job[j].status \in {"STAGING", "VALIDATING", "COMMITTING",
                                          "POST_COMMIT_VERIFY", "DISPATCHING"}
                    /\ j \notin x.q}
          => js \in SUBSET {j \in Jobs : job[j].status \in Scannable}
    BY DEF Scannable
  <2>2. \/ \E e \in x.w :
             /\ lk' = [lk EXCEPT ![e[1]] = Reclaimed(e[1])]
             /\ Continue(t, <<[Call("stale", e[2]) EXCEPT !.g = TRUE],
                              [x EXCEPT !.w = @ \ {e}, !.q = @ \cup {e[2]}]>>)
        \/ /\ UNCHANGED lk /\ x.w = {}
           /\ \E js \in SUBSET {j \in Jobs : /\ job[j].beat
                    /\ job[j].status \in {"STAGING", "VALIDATING", "COMMITTING",
                                          "POST_COMMIT_VERIFY", "DISPATCHING"}
                    /\ j \notin x.q} :
                Continue(t, <<[NoFrame EXCEPT !.op = "scanjobs",
                   !.w = {<<j, job[j].lockKey, job[j].attempt>> : j \in js}]>>)
    BY Zenon DEF ScanLock, x
  <2>3. QED  BY <1>2, <1>3, <2>1, <2>2, Zenon

LEMMA ScanJobT ==
    ASSUME TInv, NEW t \in Threads, ScanJob(t)
    PROVE  LET x == Top(t) IN
           /\ TInv' /\ x.op = "scanjobs"
           /\ \/ \E e \in x.w, y \in CallType, z \in CallType :
                    /\ e \in Jobs \X BOOLEAN \X Nat
                    /\ e[2] => lk' = [lk EXCEPT !["generation"] = Reclaimed("generation")]
                    /\ ~ e[2] => UNCHANGED lk
                    /\ Makes(t, y, {z})
                    /\ y.op = "stale" /\ y.j = e[1]
                    /\ z.op = "scanjobs" /\ z.w = x.w \ {e}
              \/ UNCHANGED lk /\ x.w = {} /\ Resumes(t)
<1> DEFINE x == Top(t)
<1>1. stack[t] # <<>> /\ Stacks /\ x \in CallType /\ x.op = "scanjobs" /\ x.w \subseteq Jobs \X BOOLEAN \X Nat
  <2>1. At(t, "scanjobs")
    BY Zenon DEF ScanJob
  <2>2. QED  BY <2>1, CurrentCall DEF Listing
<1>2. UNCHANGED <<job, created, workers, mints, queueVars, dlq, budget>>
  BY Zenon DEF ScanJob, history
<1>3. \/ \E e \in x.w :
             /\ IF e[2] THEN /\ lk["generation"].ctr < MaxTokens
                             /\ lk' = [lk EXCEPT !["generation"] = Reclaimed("generation")]
                        ELSE UNCHANGED lk
             /\ Continue(t, <<[Call("stale", e[1]) EXCEPT !.a = e[3]], [x EXCEPT !.w = @ \ {e}]>>)
      \/ x.w = {} /\ Continue(t, <<>>) /\ UNCHANGED lk
  BY Zenon DEF ScanJob
<1> HIDE DEF x
<1>4. ASSUME NEW e \in x.w,
             /\ IF e[2] THEN /\ lk["generation"].ctr < MaxTokens
                             /\ lk' = [lk EXCEPT !["generation"] = Reclaimed("generation")]
                        ELSE UNCHANGED lk
             /\ Continue(t, <<[Call("stale", e[1]) EXCEPT !.a = e[3]], [x EXCEPT !.w = @ \ {e}]>>)
      PROVE  TInv' /\ \E y \in CallType, z \in CallType :
                    /\ e \in Jobs \X BOOLEAN \X Nat
                    /\ e[2] => lk' = [lk EXCEPT !["generation"] = Reclaimed("generation")]
                    /\ ~ e[2] => UNCHANGED lk
                    /\ Makes(t, y, {z})
                    /\ y.op = "stale" /\ y.j = e[1]
                    /\ z.op = "scanjobs" /\ z.w = x.w \ {e}
  <2> DEFINE y == [Call("stale", e[1]) EXCEPT !.a = e[3]]
             z == [x EXCEPT !.w = @ \ {e}]
  <2>1. e \in Jobs \X BOOLEAN \X Nat /\ e[1] \in Jobs /\ e[2] \in BOOLEAN /\ e[3] \in Nat
    BY <1>1
  <2>2. /\ e[2] => lk' = [lk EXCEPT !["generation"] = Reclaimed("generation")]
        /\ ~ e[2] => UNCHANGED lk
    BY <1>4
  <2>3. y \in CallType /\ y.op = "stale" /\ y.j = e[1]
    <3>1. e[1] \in Jobs /\ e[3] \in Nat
      BY <2>1
    <3>2. QED  BY <3>1, StaleTyped, Zenon
  <2>4. z \in CallType /\ z.op = "scanjobs" /\ z.w = x.w \ {e}
    BY <1>1, ListShorter DEF JobCalls
  <2>5. Continue(t, <<y, z>>)
    BY <1>4
  <2> HIDE DEF y, z
  <2>6. Stacks' /\ Makes(t, y, {z})
    BY <1>1, <2>3, <2>4, <2>5, Calls2
  <2>7. lk' \in [Locks -> LockType]
    <3>1. lk \in [Locks -> LockType] /\ "generation" \in Locks
      BY DEF TInv, Stored, Locks
    <3>2. Reclaimed("generation") \in LockType
      BY <3>1, ReclaimedTyped
    <3>3. QED  BY <2>1, <2>2, <3>1, <3>2
  <2>8. TInv'
    BY <1>2, <2>6, <2>7, Untouched DEF TInv, Stored
  <2>9. QED  BY <2>1, <2>2, <2>3, <2>4, <2>6, <2>8
<1>5. CASE x.w = {} /\ Continue(t, <<>>) /\ UNCHANGED lk
  <2>1. Stacks' /\ Resumes(t)
    BY <1>1, <1>5, Returns
  <2>2. TInv'
    BY <1>2, <1>5, <2>1, Untouched DEF TInv, Stored
  <2>3. QED  BY <1>1, <1>5, <2>1, <2>2 DEF x
<1>6. CASE ~ (x.w = {} /\ Continue(t, <<>>) /\ UNCHANGED lk)
  <2>1. PICK e \in x.w :
             /\ IF e[2] THEN /\ lk["generation"].ctr < MaxTokens
                             /\ lk' = [lk EXCEPT !["generation"] = Reclaimed("generation")]
                        ELSE UNCHANGED lk
             /\ Continue(t, <<[Call("stale", e[1]) EXCEPT !.a = e[3]], [x EXCEPT !.w = @ \ {e}]>>)
    BY <1>3, <1>6, Zenon
  <2>2. TInv' /\ \E y \in CallType, z \in CallType :
                    /\ e \in Jobs \X BOOLEAN \X Nat
                    /\ e[2] => lk' = [lk EXCEPT !["generation"] = Reclaimed("generation")]
                    /\ ~ e[2] => UNCHANGED lk
                    /\ Makes(t, y, {z})
                    /\ y.op = "stale" /\ y.j = e[1]
                    /\ z.op = "scanjobs" /\ z.w = x.w \ {e}
    BY <1>4, <2>1, Zenon
  <2>3. QED  BY <1>1, <2>2, Zenon DEF x
<1>7. QED  BY <1>5, <1>6

LEMMA StaleWriteT ==
    ASSUME TInv, NEW t \in Threads, StaleWrite(t)
    PROVE  LET x == Top(t) IN
           /\ TInv' /\ Writes(x.j, [job[x.j] EXCEPT !.status = "LOCK_STALE", !.lockKey = FALSE])
           /\ \E y \in CallType :
                 Makes(t, y, {}) /\ y.op \in {"staleread", "staleretry"} /\ y.j = x.j
<1> DEFINE x == Top(t)
           o == IF x.a = 0 THEN "staleread" ELSE "staleretry"
           r == [job[x.j] EXCEPT !.status = "LOCK_STALE", !.lockKey = FALSE]
           y == [x EXCEPT !.op = o]
<1>1. stack[t] # <<>> /\ x.j \in Jobs /\ Stacks /\ x \in CallRecord
  BY CurrentCall DEF StaleWrite, JobCalls
<1>2. job' = [job EXCEPT ![x.j] = r] /\ Continue(t, <<y>>)
  BY Zenon DEF StaleWrite
<1>3. UNCHANGED <<created, lk, workers, mints, queueVars, dlq, budget>>
  BY DEF StaleWrite, history
<1>4. o \in {"staleread", "staleretry"} /\ o \in Ops
  BY DEF Ops
<1> HIDE DEF o, x
<1>5. y \in CallRecord /\ y.op = o /\ y.j = x.j
  BY <1>1, <1>4 DEF CallRecord
<1> HIDE DEF y
<1>6. y \in CallType
  BY <1>1, <1>4, <1>5, CallLike
<1>7. Stacks' /\ Makes(t, y, {})
  BY <1>1, <1>2, <1>6, Calls1
<1>8. job[x.j] \in RowType /\ "LOCK_STALE" \in Statuses
  BY <1>1 DEF TInv, Stored, Statuses, JobStatuses
<1>9. r \in RowType
  BY <1>8 DEF RowType
<1> HIDE DEF r
<1>10. Writes(x.j, r)
  BY <1>1, <1>2, <1>9, RowWritten
<1>11. TInv'
  BY <1>3, <1>7, <1>10, Untouched DEF TInv, Stored, Writes
<1>12. QED  BY <1>4, <1>5, <1>6, <1>7, <1>10, <1>11 DEF r, x

LEMMA StaleReadT ==
    ASSUME TInv, NEW t \in Threads, StaleRead(t)
    PROVE  /\ TInv' /\ Top(t).j \in Jobs
           /\ \E y \in CallType : Makes(t, y, {}) /\ y.op = "staleretry" /\ y.j = Top(t).j
<1> DEFINE x == Top(t)
           a == job[x.j].attempt
           y == [x EXCEPT !.op = "staleretry", !.a = a]
<1>1. stack[t] # <<>> /\ x.j \in Jobs /\ Stacks /\ x \in CallRecord
  BY CurrentCall DEF StaleRead, JobCalls
<1>2. Continue(t, <<y>>)
  BY DEF StaleRead
<1>3. a \in Nat
  BY <1>1 DEF TInv, Stored, RowType
<1> HIDE DEF x, a
<1>4. y \in CallRecord /\ y.op = "staleretry" /\ y.j = x.j
  BY <1>1, <1>3 DEF CallRecord, Ops
<1> HIDE DEF y
<1>5. y \in CallType
  BY <1>1, <1>4, CallLike
<1>6. Stacks' /\ Makes(t, y, {})
  BY <1>1, <1>2, <1>5, Calls1
<1>7. TInv'
  BY <1>6, Untouched DEF StaleRead, TInv, Stored
<1>8. QED  BY <1>1, <1>4, <1>5, <1>6, <1>7 DEF x

LEMMA StaleRetryT ==
    ASSUME TInv, NEW t \in Threads, StaleRetry(t)
    PROVE  LET x == Top(t) IN
           /\ TInv' /\ x.j \in Jobs
           /\ \/ /\ Writes(x.j, [job[x.j] EXCEPT !.status = "QUEUED", !.attempt = @ + 1])
                 /\ Makes(t, Call("dispatch", x.j), {})
              \/ /\ UNCHANGED job
                 /\ Makes(t, Update(x.j, "DEAD_LETTER"), {}) \/ Resumes(t)
<1> DEFINE x == Top(t)
           a == job[x.j].attempt + 1
           r == [job[x.j] EXCEPT !.status = "QUEUED", !.attempt = a]
           y == Update(x.j, "DEAD_LETTER")
<1>1. stack[t] # <<>> /\ x.j \in Jobs /\ Stacks
  BY CurrentCall DEF StaleRetry, JobCalls
<1>2. UNCHANGED <<created, lk, workers, mints, queueVars, dlq, budget>> /\ At(t, "staleretry")
  BY DEF StaleRetry, history
<1>3. \/ job' = [job EXCEPT ![x.j] = r] /\ Continue(t, <<Call("dispatch", x.j)>>)
      \/ (Continue(t, <<y>>) \/ Continue(t, <<>>)) /\ UNCHANGED job
  BY DEF StaleRetry
<1>4. CASE job' = [job EXCEPT ![x.j] = r] /\ Continue(t, <<Call("dispatch", x.j)>>)
  <2>1. r \in RowType
    <3>1. job[x.j] \in RowType /\ a \in Nat \ {0} /\ "QUEUED" \in Statuses
      BY <1>1 DEF TInv, Stored, RowType, Statuses, JobStatuses
    <3> HIDE DEF x, a
    <3>2. QED  BY <3>1 DEF RowType
  <2> HIDE DEF r
  <2>2. "staleretry" \in JobCalls
    BY DEF JobCalls
  <2>3. TInv' /\ Writes(x.j, r) /\ Makes(t, Call("dispatch", x.j), {})
    BY <1>2, <1>4, <2>1, <2>2, WriteAndDispatch
  <2>4. QED  BY <1>1, <2>3 DEF r
<1>5. CASE (Continue(t, <<y>>) \/ Continue(t, <<>>)) /\ UNCHANGED job
  <2>1. y \in CallType
    BY <1>1, UpdateTyped DEF Statuses, JobStatuses
  <2> HIDE DEF y
  <2>2. Stacks' /\ (Makes(t, y, {}) \/ Resumes(t))
    BY <1>1, <1>5, <2>1, Returns, Calls1
  <2>3. TInv'
    BY <1>2, <1>5, <2>2, Untouched DEF TInv, Stored
  <2>4. QED  BY <1>1, <1>5, <2>2, <2>3 DEF y
<1>6. QED  BY <1>3, <1>4, <1>5

LEMMA AdminReclaimT ==
    ASSUME TInv, NEW t \in Threads, NEW l \in Locks, AdminReclaim(t, l)
    PROVE  /\ TInv' /\ stack'[t] # <<>> /\ Below(t)' = {}
           /\ Top(t)'.op = "adminjobs" /\ Top(t)'.l = l
           /\ lk' = [lk EXCEPT ![l] = Reclaimed(l)]
<1> DEFINE y == [NoFrame EXCEPT !.op = "adminjobs", !.l = l]
<1>1. Start(t, <<y>>) /\ lk' = [lk EXCEPT ![l] = Reclaimed(l)]
  BY DEF AdminReclaim
<1>2. y \in CallRecord /\ y.op = "adminjobs" /\ y.l = l
  BY DEF NoFrame, CallRecord, JobOrNone, Statuses, Locks, Ops
<1> HIDE DEF y
<1>3. y \in CallType
  BY <1>2 DEF CallType, Listing, JobCalls
<1>4. Stacks' /\ stack'[t] # <<>> /\ Top(t)' = y /\ Below(t)' = {}
  BY <1>1, <1>3, Begins DEF TInv
<1>5. lk' \in [Locks -> LockType]
  <2>1. lk \in [Locks -> LockType]
    BY DEF TInv, Stored
  <2>2. Reclaimed(l) \in LockType
    BY <2>1, ReclaimedTyped
  <2>3. QED  BY <1>1, <2>1, <2>2
<1>6. QED  BY <1>1, <1>2, <1>4, <1>5, Untouched DEF AdminReclaim, TInv, Stored

LEMMA AdminJobsT ==
    ASSUME TInv, NEW t \in Threads, AdminJobs(t)
    PROVE  /\ TInv' /\ Top(t).op = "adminjobs"
           /\ \E y \in CallType :
                 /\ Makes(t, y, {}) /\ y.op = "adminnext"
                 /\ \A e \in y.w : /\ e[1] \in Jobs /\ Top(t).l = "generation"
                                   /\ e = <<e[1], job[e[1]].attempt>> /\ Unfinished(e[1])
                 /\ \A j \in Jobs : Top(t).l = "generation" /\ Unfinished(j)
                                   => \E e \in y.w : e[1] = j
<1> DEFINE x == Top(t)
           js == {j \in Jobs : x.l = "generation" /\ Unfinished(j)}
           w == {<<j, job[j].attempt>> : j \in js}
           y == [x EXCEPT !.op = "adminnext", !.w = w]
<1>1. stack[t] # <<>> /\ Stacks /\ x \in CallRecord /\ x.op = "adminjobs"
  BY CurrentCall DEF AdminJobs
<1>2. Continue(t, <<y>>)
  BY DEF AdminJobs
<1>3. /\ w \subseteq Jobs \X Nat
      /\ \A e \in w : /\ e[1] \in Jobs /\ x.l = "generation"
                      /\ e = <<e[1], job[e[1]].attempt>> /\ Unfinished(e[1])
      /\ \A j \in Jobs : x.l = "generation" /\ Unfinished(j) => \E e \in w : e[1] = j
  <2>1. \A j \in Jobs : job[j].attempt \in Nat
    BY DEF TInv, Stored, RowType
  <2>2. \A j \in Jobs : x.l = "generation" /\ Unfinished(j) => \E e \in w : e[1] = j
    <3> SUFFICES ASSUME NEW j \in Jobs, x.l = "generation", Unfinished(j)
                 PROVE  \E e \in w : e[1] = j
      OBVIOUS
    <3>1. <<j, job[j].attempt>> \in w
      OBVIOUS
    <3>2. QED  BY <3>1
  <2>3. QED  BY <2>1, <2>2
<1> HIDE DEF x, w
<1>4. y \in CallRecord /\ y.op = "adminnext" /\ y.w = w
  BY <1>1, <1>3 DEF CallRecord, Ops
<1> HIDE DEF y
<1>5. y \in CallType
  BY <1>3, <1>4 DEF CallType, Listing, JobCalls
<1>6. Stacks' /\ Makes(t, y, {})
  BY <1>1, <1>2, <1>5, Calls1
<1>7. TInv'
  BY <1>6, Untouched DEF AdminJobs, TInv, Stored
<1>8. QED  BY <1>1, <1>3, <1>4, <1>5, <1>6, <1>7 DEF x

LEMMA AdminNextT ==
    ASSUME TInv, NEW t \in Threads, AdminNext(t)
    PROVE  LET x == Top(t) IN
           /\ TInv' /\ x.op = "adminnext"
           /\ \/ \E e \in x.w, y \in CallType, z \in CallType :
                    /\ e[1] \in Jobs /\ Makes(t, y, {z})
                    /\ y.op = "stale" /\ y.j = e[1]
                    /\ z.op = "adminnext" /\ z.w = x.w \ {e}
              \/ x.w = {} /\ Resumes(t)
<1> DEFINE x == Top(t)
<1>1. stack[t] # <<>> /\ Stacks /\ x \in CallType /\ x.op = "adminnext" /\ x.w \subseteq Jobs \X Nat
  <2>1. At(t, "adminnext")
    BY Zenon DEF AdminNext
  <2>2. QED  BY <2>1, CurrentCall DEF Listing
<1>2. UNCHANGED <<job, created, lk, workers, mints, queueVars, dlq, budget>>
  BY Zenon DEF AdminNext, history
<1>3. CASE x.w = {} /\ Continue(t, <<>>)
  <2>1. Stacks' /\ Resumes(t)
    BY <1>1, <1>3, Returns
  <2>2. TInv'
    BY <1>2, <2>1, Untouched DEF TInv, Stored
  <2>3. QED  BY <1>1, <1>3, <2>1, <2>2
<1>4. CASE ~ (x.w = {} /\ Continue(t, <<>>))
  <2>1. PICK e \in x.w :
             Continue(t, <<[Call("stale", e[1]) EXCEPT !.a = e[2], !.g = TRUE],
                           [x EXCEPT !.w = @ \ {e}]>>)
    BY <1>4, Zenon DEF AdminNext
  <2> DEFINE y == [Call("stale", e[1]) EXCEPT !.a = e[2], !.g = TRUE]
             z == [x EXCEPT !.w = @ \ {e}]
  <2>2. e[1] \in Jobs /\ e[2] \in Nat
    BY <1>1
  <2>3. y \in CallType /\ y.op = "stale" /\ y.j = e[1]
    BY <2>2, StaleTyped, Zenon
  <2>4. z \in CallType /\ z.op = "adminnext" /\ z.w = x.w \ {e}
    BY <1>1, ListShorter DEF JobCalls
  <2>5. Continue(t, <<y, z>>)
    BY <2>1
  <2> HIDE DEF y, z
  <2>6. Stacks' /\ Makes(t, y, {z})
    BY <1>1, <2>3, <2>4, <2>5, Calls2
  <2>7. TInv'
    BY <1>2, <2>6, Untouched DEF TInv, Stored
  <2>8. QED  BY <1>1, <2>2, <2>3, <2>4, <2>6, <2>7
<1>5. QED  BY <1>3, <1>4

LEMMA RetryDeadLetterT ==
    ASSUME TInv, NEW t \in Threads, NEW j \in Jobs, RetryDeadLetter(t, j)
    PROVE  TInv'
<1>1. Call("revive", j) \in CallType
  BY CallTyped DEF Ops
<1>2. Start(t, <<Call("revive", j)>>) /\ dlq' \subseteq Jobs
  BY DEF RetryDeadLetter, TInv, Stored
<1>3. Stacks'
  BY <1>1, <1>2, Begins DEF TInv
<1>4. QED  BY <1>2, <1>3, Untouched DEF RetryDeadLetter, TInv, Stored

LEMMA CallbackT ==
    ASSUME TInv, NEW t \in Threads, NEW n \in Mints, NEW s \in Posts(n), Callback(t, n, s)
    PROVE  /\ TInv' /\ run[n].job \in Jobs /\ s \in WorkerStatuses
           /\ stack'[t] # <<>> /\ Below(t)' = {}
           /\ Top(t)'.op = "update" /\ Top(t)'.j = run[n].job /\ Top(t)'.s = s
<1> DEFINE k == IF s = "COMMITTING" THEN run[n].tok ELSE 0
           y == [Update(run[n].job, s) EXCEPT !.k = k]
<1>1. run[n].stage # "none" /\ s \in WorkerStatuses
  BY DEF Posts, WorkerStatuses
<1>2. run[n].job \in Jobs /\ k \in Nat /\ s \in Statuses
  BY <1>1 DEF TInv, Stored, RunsTyped, Statuses, JobStatuses, WorkerStatuses
<1>3. Start(t, <<y>>) /\ answer' = [answer EXCEPT ![t] = [n |-> n, s |-> s]]
  BY DEF Callback
<1> HIDE DEF k
<1>4. y \in CallRecord /\ y.op = "update" /\ y.j = run[n].job /\ y.s = s
  <2>1. Update(run[n].job, s) \in CallRecord
    BY <1>2, UpdateTyped DEF CallType
  <2>2. QED  BY <1>2, <2>1, UpdateTyped DEF CallRecord
<1> HIDE DEF y
<1>5. y \in CallType
  BY <1>2, <1>4, CallLike
<1>6. Stacks' /\ stack'[t] # <<>> /\ Top(t)' = y /\ Below(t)' = {}
  BY <1>3, <1>5, Begins DEF TInv
<1>7. AnswersTyped'
  BY <1>2, <1>3 DEF Callback, TInv, Stored, AnswersTyped, Serves
<1>8. TInv'
  BY <1>6, <1>7, Untouched DEF Callback, TInv, Stored
<1>9. QED  BY <1>1, <1>2, <1>4, <1>6, <1>8

LEMMA ReplyT ==
    ASSUME TInv, NEW t \in Threads, Reply(t)
    PROVE  TInv'
<1>1. Serves(t) \in Mints /\ run[Serves(t)].job \in Jobs
  BY DEF Reply, TInv, Stored, AnswersTyped, Serves
<1>2. StageAfter(answer[t].s) \in Stages
  BY DEF StageAfter, Stages
<1>3. RunsTyped' /\ \A n \in Mints : run'[n].job = run[n].job
  BY <1>1, <1>2 DEF Reply, TInv, Stored, RunsTyped
<1>4. answer' \in [Threads -> [n : {0} \cup Mints, s : Statuses]]
  BY DEF Reply, TInv, Stored, AnswersTyped, NoAnswer, Statuses
<1>5. \A u \in Threads : answer'[u] = answer[u] \/ answer'[u].n = 0
  BY DEF Reply, TInv, Stored, AnswersTyped, NoAnswer
<1>6. AnswersTyped'
  BY <1>3, <1>4, <1>5 DEF TInv, Stored, AnswersTyped, Serves
<1>7. Stacks'
  BY DEF Reply, TInv, Stacks
<1>8. QED  BY <1>3, <1>6, <1>7, Untouched DEF Reply, TInv, Stored

LEMMA HeartbeatT ==
    ASSUME TInv, NEW n \in Mints, Heartbeat(n)
    PROVE  TInv' /\ Writes(run[n].job, [job[run[n].job] EXCEPT !.beat = TRUE])
<1> DEFINE j == run[n].job
           r == [job[j] EXCEPT !.beat = TRUE]
<1>1. j \in Jobs
  BY DEF Heartbeat, MayBeat, Alive, TInv, Stored, RunsTyped
<1>2. job' = [job EXCEPT ![j] = r]
  BY DEF Heartbeat
<1> HIDE DEF j
<1>3. job[j] \in RowType
  BY <1>1 DEF TInv, Stored
<1>4. r \in RowType
  BY <1>3 DEF RowType
<1> HIDE DEF r
<1>5. Writes(j, r)
  BY <1>1, <1>2, <1>4, RowWritten
<1>6. Stacks'
  BY DEF Heartbeat, TInv, Stacks
<1>7. TInv'
  BY <1>5, <1>6, Untouched DEF Heartbeat, TInv, Stored, Writes
<1>8. QED  BY <1>5, <1>7 DEF j, r

LEMMA WorkerDiesT ==
    ASSUME TInv, NEW n \in Mints, WorkerDies(n)
    PROVE  TInv'
<1>1. RunsTyped' /\ \A m \in Mints : run'[m].job = run[m].job
  BY DEF WorkerDies, Alive, TInv, Stored, RunsTyped, Stages
<1>2. AnswersTyped'
  BY <1>1 DEF WorkerDies, TInv, Stored, AnswersTyped, Serves
<1>3. Stacks'
  BY DEF WorkerDies, TInv, Stacks
<1>4. QED  BY <1>1, <1>2, <1>3, Untouched DEF WorkerDies, TInv, Stored

LEMMA LockExpiresT ==
    ASSUME TInv, NEW l \in Locks, LockExpires(l)
    PROVE  TInv'
<1>1. lk' \in [Locks -> LockType]
  <2> DEFINE x == lk[l]
  <2>1. x \in LockType /\ NoJob \in JobOrNone /\ lk \in [Locks -> LockType]
    BY DEF TInv, Stored, JobOrNone
  <2>2. lk' = [lk EXCEPT ![l] = [x EXCEPT !.owner = NoJob, !.tok = 0]]
    BY <2>1 DEF LockExpires
  <2> HIDE DEF x
  <2>3. [x EXCEPT !.owner = NoJob, !.tok = 0] \in LockType
    BY <2>1 DEF LockType
  <2>4. QED  BY <2>1, <2>2, <2>3
<1>2. Stacks'
  BY DEF LockExpires, TInv, Stacks
<1>3. QED  BY <1>1, <1>2, Untouched DEF LockExpires, TInv, Stored

LEMMA TypesInit == Init => TInv
<1> SUFFICES ASSUME Init PROVE TInv
  OBVIOUS
<1>1. NewRow \in RowType
  BY LimitsAssumption DEF NewRow, RowType, Statuses, JobOrNone
<1>2. FreeLock \in LockType
  BY DEF FreeLock, LockType, JobOrNone
<1>3. RunsTyped /\ AnswersTyped
  BY DEF Init, RunsTyped, AnswersTyped, NoAnswer, Statuses, JobOrNone, Stages, Serves
<1>4. Stacks
  BY EmptySeq DEF Init, Stacks
<1>5. QED  BY <1>1, <1>2, <1>3, <1>4, LimitsAssumption DEF Init, TInv, Stored

LEMMA TypesStep == TInv /\ [Next]_vars => TInv'
<1> SUFFICES ASSUME TInv, [Next]_vars PROVE TInv'
  OBVIOUS
<1>1. ASSUME NEW t \in Threads, ThreadStep(t)
      PROVE  TInv'
  BY <1>1, ReleaseLockT, CreateInsertT, DispatchReadT, BlockWriteT, LockGenerationT, LockTargetT,
     ProvisionT, MarkDispatchingT, DispatchWorkflowT, EnqueueT, SlotReadT, UpdateReadT, UpdateWriteT, FailReadT,
     RequeueT, BuryT, PromoteReadT, PromoteNextT, PromoteWriteT, ReplyT, ResolveDoneT, ScanLockT,
     ScanJobT, StaleWriteT, StaleReadT, StaleRetryT, AdminJobsT, AdminNextT, ReviveT, Zenon
     DEF ThreadStep
<1>2. ASSUME NEW t \in Threads, Request(t)
      PROVE  TInv'
  <2>1. CASE CreateRequest(t)
    <3>1. PICK j \in Jobs, d \in JobOrNone : CreateRead(t, j, d)
      BY <2>1 DEF CreateRequest, JobOrNone
    <3>2. QED  BY <3>1, CreateReadT
  <2>2. CASE \E n \in Mints : \E s \in Posts(n) : Callback(t, n, s)
    BY <2>2, CallbackT
  <2>3. CASE TakeDispatch(t)
    BY <2>3, ResolveReadT DEF TakeDispatch
  <2>4. CASE ScanRead(t)
    BY <2>4, ScanReadT
  <2>5. CASE \E l \in Locks : AdminReclaim(t, l)
    BY <2>5, AdminReclaimT
  <2>6. CASE \E j \in Jobs : RetryDeadLetter(t, j)
    BY <2>6, RetryDeadLetterT
  <2>7. QED  BY <1>2, <2>1, <2>2, <2>3, <2>4, <2>5, <2>6 DEF Request
<1>3. CASE UNCHANGED vars
  BY <1>3 DEF vars, TInv, Stored, Stacks, RunsTyped, AnswersTyped, Serves, workers, queueVars
<1>4. QED
  BY <1>1, <1>2, <1>3, HeartbeatT, WorkerDiesT, LockExpiresT DEF Next

CrossedType == crossed \subseteq {"callback", "promotion"}

(* Rows, locks, workers and calls always have the types of their stores,
   however many requests run, whatever expires, is scanned, reclaimed or
   retried: in particular a Redis lock is held by a job or by nobody, and an
   attempt or a callback token is never out of its range. *)
THEOREM TypeCorrectThm == Spec => []TypeOK
<1>1. TInv /\ CrossedType => TypeOK
  <2> SUFFICES ASSUME TInv, CrossedType PROVE TypeOK
    OBVIOUS
  <2>1. ASSUME NEW t \in Threads, NEW i \in DOMAIN stack[t]
        PROVE  stack[t][i].op \in Ops /\ stack[t][i].j \in Jobs \cup {NoJob}
    <3>1. stack[t] \in Seq(CallType)
      BY DEF TInv, Stacks
    <3>2. stack[t][i] \in CallType
      BY <2>1, <3>1
    <3>3. QED  BY <3>2 DEF CallType, CallRecord, JobOrNone
  <2>2. QED
    BY <2>1 DEF CrossedType, TypeOK, TInv, Stored, RunsTyped, RowType, LockType, Statuses, JobOrNone
<1>2. Init => CrossedType
  BY DEF Init, CrossedType
<1>3. CrossedType /\ [Next]_vars => CrossedType'
  BY CrossedGrows DEF CrossedType
<1>4. QED  BY <1>1, <1>2, <1>3, TypesInit, TypesStep, PTL DEF Spec
=============================================================================
