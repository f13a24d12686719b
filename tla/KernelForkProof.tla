-------------------------- MODULE KernelForkProof ---------------------------
(***************************************************************************)
(* ForkCounted and ChildHeld of KernelFork, for every number of tasks,     *)
(* calls, failures and signals.                                            *)
(***************************************************************************)
EXTENDS KernelFork, TLAPS

(* Tasks and calls are records with these fields; what most of them hold   *)
(* does not matter here.                                                   *)
TaskFields == {"st", "res", "held", "usage", "rcu_users", "parent", "tgid",
               "vfork_done", "fork_count", "made"}
CallFields == {"op", "pc", "flags", "plain", "child", "i", "node", "delayed", "done", "hit",
               "new"}

TaskShape(r) == r = [f \in TaskFields |-> r[f]]
CallShape(r) == r = [f \in CallFields |-> r[f]]

Shapes ==
    /\ task = [t \in Tasks |-> task[t]] /\ \A t \in Tasks : TaskShape(task[t])
    /\ call = [t \in Tasks |-> call[t]] /\ \A t \in Tasks : CallShape(call[t])

(* The phases of a fork: "building" while the child is an embryo, "finish" *)
(* and "wake" while it is found but does not run, "wait" while a vfork     *)
(* waits.                                                                  *)
Phase(r) ==
    IF r.op # "fork" THEN "none"
    ELSE IF r.pc \in {"nproc", "creds", "limit", "copy", "attach", "undo"} THEN "building"
    ELSE IF r.pc \in {"wait", "killed", "put"} THEN "wait"
    ELSE IF r.pc \in {"finish", "wake"} THEN r.pc
    ELSE "none"

(* What a call knows of its child: who else may refer to it, too. *)
Fits(r, p) ==
    /\ Phase(r) = "building" => p.st = "embryo" /\ p.made = NoneMade /\ p.usage = 1
    /\ Phase(r) = "finish" => p.st = "new" /\ p.made = NoneMade /\ p.usage = 1
    /\ Phase(r) = "wake" =>
          /\ p.st = "new" /\ p.made = NoneMade /\ p.fork_count = 0
          /\ p.usage = IF "VFORK" \in r.flags THEN 2 ELSE 1
    /\ Phase(r) = "wait" =>
          /\ p.st \in {"awake", "zombie", "dead"}
          /\ p.usage = IF p.st = "dead" THEN 1 ELSE 2

(* A task in a call runs; the pc "complete" is one of exec and exit. *)
Runs(r, t) ==
    /\ r.op # "none" => t.st = "awake"
    /\ r.pc = "complete" => r.op \in {"exec", "exit"}

(* A task has counted what it has made, by fork() or otherwise. *)
Created(m) == m.fork + m.other
Counted(r, t) ==
    /\ t.made \in Made
    /\ t.st = "awake" =>
          t.fork_count = Created(t.made) - (IF Phase(r) = "finish" THEN 1 ELSE 0)

(* The inductive invariant: no two calls have one child, each knows what   *)
(* Fits says of its own, and only a call in such a phase has one.          *)
FInv ==
    /\ Shapes
    /\ \A t \in Tasks : Runs(call[t], task[t]) /\ Counted(call[t], task[t])
    /\ \A c \in Tasks :
          IF Phase(call[c]) = "none" THEN call[c].child = None
          ELSE call[c].child \in Tasks \ {c} /\ Fits(call[c], task[call[c].child])
    /\ \A c, d \in Tasks :
          call[c].child = call[d].child /\ call[c].child # None => c = d

-----------------------------------------------------------------------------
(* What the actions leave alone *)
TaskSame(t) ==
    /\ task'[t].st = task[t].st /\ task'[t].made = task[t].made
    /\ task'[t].fork_count = task[t].fork_count /\ task'[t].usage = task[t].usage
CallSame(t) ==
    /\ call'[t].op = call[t].op /\ call'[t].pc = call[t].pc
    /\ call'[t].child = call[t].child /\ call'[t].flags = call[t].flags

LEMMA SamePhase ==
    ASSUME NEW t \in Tasks, CallSame(t) PROVE Phase(call'[t]) = Phase(call[t])
BY DEF CallSame, Phase

LEMMA FreeShape == TaskShape(FreeTask) /\ CallShape(NoCall)
BY DEF TaskShape, CallShape, FreeTask, NoCall, TaskFields, CallFields

LEMMA MadeFacts ==
    /\ NoneMade \in Made /\ Created(NoneMade) = 0
    /\ \A m \in Made : Created(m) \in Nat
BY DEF NoneMade, Made, Created

(* What a call adds to the history of its task. *)
LEMMA CreatesFacts ==
    ASSUME NEW c, task[c].made \in Made
    PROVE  /\ Creates(c) \in Made /\ Created(Creates(c)) = Created(task[c].made) + 1
           /\ CreatesNone(c) \in Made /\ Created(CreatesNone(c)) = Created(task[c].made)
BY DEF Creates, CreatesNone, Made, Created

(* At first Root has counted the one task it has made. *)
LEMMA StartTasks ==
    ASSUME NEW g, NEW o
    PROVE  LET u == Running(g, o)
               v == [u EXCEPT !.fork_count = 1, !.made.other = 1]
           IN  /\ TaskShape(u) /\ u.st = "awake" /\ u.fork_count = 0 /\ u.made = NoneMade
               /\ TaskShape(v) /\ v.st = "awake" /\ v.fork_count = 1
               /\ v.made \in Made /\ Created(v.made) = 1
<1> DEFINE u == Running(g, o)
           v == [u EXCEPT !.fork_count = 1, !.made.other = 1]
<1>1. TaskShape(u) /\ u.st = "awake" /\ u.fork_count = 0 /\ u.made = NoneMade
  BY DEF Running, FreeTask, TaskShape, TaskFields
<1> HIDE DEF u
<1>2. /\ TaskShape(v) /\ v.st = "awake" /\ v.fork_count = 1
      /\ v.made = [NoneMade EXCEPT !.other = 1]
  BY <1>1 DEF TaskShape, TaskFields
<1> HIDE DEF v
<1>3. v.made \in Made /\ Created(v.made) = 1
  BY <1>2 DEF NoneMade, Made, Created
<1> QED
  BY <1>1, <1>2, <1>3 DEF u, v

LEMMA InitFInv == Init => FInv
<1> SUFFICES ASSUME Init PROVE FInv
  OBVIOUS
<1>1. PICK sh \in SUBSET Kinds : Start(sh)
  BY KernelForkAssumption DEF Init, Beginnings
<1> DEFINE user == Running(IF "signal" \in sh THEN Root ELSE User,
                           [k \in Kinds |-> IF k \in sh THEN 1 ELSE 2])
           root == [Running(Root, [k \in Kinds |-> 1]) EXCEPT !.fork_count = 1, !.made.other = 1]
<1>2. task = [t \in Tasks |-> IF t = Root THEN root ELSE IF t = User THEN user ELSE FreeTask]
  BY <1>1 DEF Start
<1>3. /\ TaskShape(user) /\ user.fork_count = 0 /\ user.made = NoneMade
      /\ TaskShape(root) /\ root.fork_count = 1 /\ root.made \in Made /\ Created(root.made) = 1
  BY Zenon, StartTasks
<1>4. FreeTask.fork_count = 0 /\ FreeTask.made = NoneMade
  BY DEF FreeTask
<1> HIDE DEF user, root
<1>5. ASSUME NEW t \in Tasks
      PROVE  /\ TaskShape(task[t]) /\ task[t].made \in Made
             /\ task[t].fork_count = Created(task[t].made)
  BY <1>2, <1>3, <1>4, FreeShape, MadeFacts
<1>6. \A t \in Tasks : call[t] = NoCall
  BY DEF Init
<1>7. NoCall.op = "none" /\ NoCall.pc = "none" /\ NoCall.child = None /\ Phase(NoCall) = "none"
  BY DEF NoCall, Phase
<1>8. Shapes
  BY <1>2, <1>5, <1>6, FreeShape DEF Init, Shapes
<1> QED
  BY <1>5, <1>6, <1>7, <1>8, MadeFacts DEF FInv, Runs, Counted

(* A step in which one task's call goes on, within its phase or to the end *)
(* of the fork, and no task changes in what matters here.                  *)
LEMMA Move ==
    ASSUME FInv, Shapes', NEW c \in Tasks,
           \A t \in Tasks : TaskSame(t),
           \A t \in Tasks \ {c} : CallSame(t),
           Runs(call'[c], task[c]),
           \/ /\ Phase(call'[c]) = Phase(call[c])
              /\ call'[c].child = call[c].child /\ call'[c].flags = call[c].flags
           \/ /\ Phase(call'[c]) = "none" /\ Phase(call[c]) # "finish"
              /\ call'[c].child = None
    PROVE  FInv'
<1>1. ASSUME NEW t \in Tasks PROVE Runs(call'[t], task'[t]) /\ Counted(call'[t], task'[t])
  <2>1. CASE t = c
    BY <2>1 DEF FInv, Runs, Counted, TaskSame
  <2>2. CASE t # c
    BY <2>2, SamePhase DEF FInv, Runs, Counted, TaskSame, CallSame
  <2> QED
    BY <2>1, <2>2
<1>2. ASSUME NEW d \in Tasks
      PROVE  IF Phase(call'[d]) = "none" THEN call'[d].child = None
             ELSE call'[d].child \in Tasks \ {d} /\ Fits(call'[d], task'[call'[d].child])
  <2>1. CASE d = c
    BY <2>1 DEF FInv, Fits, TaskSame
  <2>2. CASE d # c
    BY <2>2, SamePhase DEF FInv, Fits, TaskSame, CallSame
  <2> QED
    BY <2>1, <2>2
<1>3. ASSUME NEW d \in Tasks, NEW e \in Tasks,
             call'[d].child = call'[e].child, call'[d].child # None
      PROVE  d = e
  BY <1>3 DEF FInv, CallSame
<1> QED
  BY <1>1, <1>2, <1>3 DEF FInv

(* How the actions write records *)
TaskQuiet ==
    /\ task' = [t \in Tasks |-> task'[t]] /\ \A t \in Tasks : TaskShape(task'[t])
    /\ \A t \in Tasks : TaskSame(t)

LEMMA TaskKept == ASSUME Shapes, UNCHANGED task PROVE TaskQuiet
BY DEF Shapes, TaskSame, TaskQuiet

LEMMA TaskStep ==
    ASSUME Shapes, NEW p \in Tasks, NEW r, TaskShape(r),
           r.st = task[p].st, r.made = task[p].made,
           r.fork_count = task[p].fork_count, r.usage = task[p].usage,
           task' = [task EXCEPT ![p] = r]
    PROVE  TaskQuiet
BY DEF Shapes, TaskSame, TaskQuiet

LikeTask(s, r) ==
    /\ TaskShape(s) /\ s.st = r.st /\ s.made = r.made
    /\ s.fork_count = r.fork_count /\ s.usage = r.usage
LEMMA TaskFieldsWritten ==
    ASSUME NEW r, TaskShape(r), NEW h, NEW o, NEW v
    PROVE  /\ LikeTask([r EXCEPT !.held = h], r)
           /\ LikeTask([r EXCEPT !.res = o], r)
           /\ LikeTask([r EXCEPT !.vfork_done = v], r)
           /\ LikeTask([r EXCEPT !.held = h, !.res = o], r)
           /\ LikeTask([r EXCEPT !.held = h, !.vfork_done = v], r)
<1>1. LikeTask([r EXCEPT !.held = h], r)
  BY DEF LikeTask, TaskShape, TaskFields
<1>2. LikeTask([r EXCEPT !.res = o], r)
  BY DEF LikeTask, TaskShape, TaskFields
<1>3. LikeTask([r EXCEPT !.vfork_done = v], r)
  BY DEF LikeTask, TaskShape, TaskFields
<1>4. LikeTask([r EXCEPT !.held = h, !.res = o], r)
  BY DEF LikeTask, TaskShape, TaskFields
<1>5. LikeTask([r EXCEPT !.held = h, !.vfork_done = v], r)
  BY DEF LikeTask, TaskShape, TaskFields
<1> QED
  BY <1>1, <1>2, <1>3, <1>4, <1>5

LikeCall(s, r) ==
    CallShape(s) /\ s.op = r.op /\ s.child = r.child /\ s.flags = r.flags
LEMMA CallFieldsWritten ==
    ASSUME NEW r, CallShape(r), NEW v, NEW w
    PROVE  /\ LET s == [r EXCEPT !.pc = v] IN LikeCall(s, r) /\ s.pc = v
           /\ LET s == [r EXCEPT !.i = w] IN LikeCall(s, r) /\ s.pc = r.pc
           /\ LET s == [r EXCEPT !.pc = v, !.i = w] IN LikeCall(s, r) /\ s.pc = v
           /\ LET s == [r EXCEPT !.pc = v, !.node = w] IN LikeCall(s, r) /\ s.pc = v
<1>1. LET s == [r EXCEPT !.pc = v] IN LikeCall(s, r) /\ s.pc = v
  BY DEF LikeCall, CallShape, CallFields
<1>2. LET s == [r EXCEPT !.i = w] IN LikeCall(s, r) /\ s.pc = r.pc
  BY DEF LikeCall, CallShape, CallFields
<1>3. LET s == [r EXCEPT !.pc = v, !.i = w] IN LikeCall(s, r) /\ s.pc = v
  BY DEF LikeCall, CallShape, CallFields
<1>4. LET s == [r EXCEPT !.pc = v, !.node = w] IN LikeCall(s, r) /\ s.pc = v
  BY DEF LikeCall, CallShape, CallFields
<1> QED
  BY <1>1, <1>2, <1>3, <1>4

LEMMA PcWritten ==
    ASSUME NEW r, CallShape(r), NEW v
    PROVE  LikeCall([r EXCEPT !.pc = v], r) /\ [r EXCEPT !.pc = v].pc = v
BY DEF LikeCall, CallShape, CallFields

LEMMA SignalWritten ==
    ASSUME NEW r, CallShape(r), NEW v, NEW w
    PROVE  /\ LikeCall([r EXCEPT !.delayed = v, !.hit = w], r)
           /\ [r EXCEPT !.delayed = v, !.hit = w].pc = r.pc
BY DEF LikeCall, CallShape, CallFields

LEMMA FieldsQuiet ==
    ASSUME Shapes, NEW p \in Tasks, NEW h, NEW o, NEW v,
           \/ task' = [task EXCEPT ![p].held = h]
           \/ task' = [task EXCEPT ![p].held = h, ![p].res = o]
           \/ task' = [task EXCEPT ![p].held = h, ![p].vfork_done = v]
           \/ task' = [task EXCEPT ![p].res = o]
           \/ task' = [task EXCEPT ![p].vfork_done = v]
    PROVE  TaskQuiet
<1>1. TaskShape(task[p])
  BY DEF Shapes
<1>2. \/ task' = [task EXCEPT ![p] = [task[p] EXCEPT !.held = h]]
      \/ task' = [task EXCEPT ![p] = [task[p] EXCEPT !.held = h, !.res = o]]
      \/ task' = [task EXCEPT ![p] = [task[p] EXCEPT !.held = h, !.vfork_done = v]]
      \/ task' = [task EXCEPT ![p] = [task[p] EXCEPT !.res = o]]
      \/ task' = [task EXCEPT ![p] = [task[p] EXCEPT !.vfork_done = v]]
  BY DEF Shapes
<1>3. PICK r : LikeTask(r, task[p]) /\ task' = [task EXCEPT ![p] = r]
  BY Zenon, <1>1, <1>2, TaskFieldsWritten
<1> QED
  BY <1>3, TaskStep DEF LikeTask

LEMMA CallStep ==
    ASSUME Shapes, NEW c \in Tasks, NEW r, CallShape(r),
           call' = [call EXCEPT ![c] = r]
    PROVE  /\ call' = [t \in Tasks |-> call'[t]] /\ \A t \in Tasks : CallShape(call'[t])
           /\ \A t \in Tasks \ {c} : CallSame(t)
           /\ call'[c] = r
BY DEF Shapes, CallSame

(* A fork goes on within its phase. *)
LEMMA ForkMoves ==
    ASSUME FInv, NEW c \in Tasks, NEW r, CallShape(r),
           call[c].op = "fork", r.op = "fork", r.pc # "complete",
           Phase(r) = Phase(call[c]), r.child = call[c].child, r.flags = call[c].flags,
           call' = [call EXCEPT ![c] = r], TaskQuiet
    PROVE  FInv'
<1>1. /\ Shapes'
      /\ \A t \in Tasks \ {c} : CallSame(t)
      /\ call'[c] = r
  BY CallStep DEF FInv, Shapes, TaskQuiet
<1>2. Runs(call'[c], task[c])
  BY <1>1 DEF FInv, Runs
<1> QED
  BY <1>1, <1>2, Move DEF TaskQuiet

Beginning == {"collect", "pending", "dup", "out"}
Building == {"nproc", "creds", "limit", "copy", "attach", "undo"}
Waiting == {"wait", "killed", "put"}

LEMMA PcMoves ==
    ASSUME FInv, NEW c \in Tasks, call[c].op = "fork", NEW v, NEW w,
           \/ {v, call[c].pc} \subseteq Beginning
           \/ {v, call[c].pc} \subseteq Building
           \/ {v, call[c].pc} \subseteq Waiting,
           \/ call' = [call EXCEPT ![c].pc = v]
           \/ call' = [call EXCEPT ![c].pc = v, ![c].i = w]
           \/ call' = [call EXCEPT ![c].pc = v, ![c].node = w],
           TaskQuiet
    PROVE  FInv'
<1>1. ASSUME NEW r, r.op = "fork", r.pc = v PROVE Phase(r) = Phase(call[c]) /\ r.pc # "complete"
  BY <1>1 DEF Phase, Beginning, Building, Waiting
<1>2. CallShape(call[c])
  BY DEF FInv, Shapes
<1>3. \/ call' = [call EXCEPT ![c] = [call[c] EXCEPT !.pc = v]]
      \/ call' = [call EXCEPT ![c] = [call[c] EXCEPT !.pc = v, !.i = w]]
      \/ call' = [call EXCEPT ![c] = [call[c] EXCEPT !.pc = v, !.node = w]]
  BY DEF FInv, Shapes
<1>4. PICK r : LikeCall(r, call[c]) /\ r.pc = v /\ call' = [call EXCEPT ![c] = r]
  BY Zenon, <1>2, <1>3, CallFieldsWritten
<1> QED
  BY <1>1, <1>4, ForkMoves DEF LikeCall

LEMMA IndexMoves ==
    ASSUME FInv, NEW c \in Tasks, call[c].op = "fork", call[c].pc \in Building, NEW w,
           call' = [call EXCEPT ![c].i = w], TaskQuiet
    PROVE  FInv'
<1> DEFINE r == [call[c] EXCEPT !.i = w]
<1>1. CallShape(r) /\ r.op = "fork" /\ r.pc = call[c].pc
      /\ r.child = call[c].child /\ r.flags = call[c].flags
  BY DEF FInv, Shapes, CallShape, CallFields
<1>2. call' = [call EXCEPT ![c] = r]
  OBVIOUS
<1>3. Phase(r) = Phase(call[c]) /\ r.pc # "complete"
  BY <1>1 DEF Phase, Building
<1> HIDE DEF r
<1> QED
  BY Zenon, <1>1, <1>2, <1>3, ForkMoves

-----------------------------------------------------------------------------
(* copy_process, up to the lock.  The child is an embryo. *)
LEMMA EmbryoOf ==
    ASSUME FInv, NEW c \in Tasks, call[c].op = "fork", call[c].pc \in Building
    PROVE  Child(c) \in Tasks /\ Shapes
BY DEF FInv, Phase, Building, Child

LEMMA CollectSignalsStep == ASSUME FInv, NEW c \in Tasks, CollectSignals(c) PROVE FInv'
<1>1. TaskQuiet
  BY TaskKept DEF FInv, CollectSignals
<1> QED
  BY <1>1, PcMoves DEF CollectSignals, At, Beginning

LEMMA SignalPendingStep == ASSUME FInv, NEW c \in Tasks, SignalPending(c) PROVE FInv'
<1>1. TaskQuiet
  BY TaskKept DEF FInv, SignalPending
<1> DEFINE v == IF Pending(c) THEN "out" ELSE "dup"
<1>2. v \in Beginning /\ call' = [call EXCEPT ![c].pc = v]
  BY DEF SignalPending, Step, Beginning
<1> HIDE DEF v
<1> QED
  BY <1>1, <1>2, PcMoves DEF SignalPending, At, Beginning

LEMMA CheckNprocStep == ASSUME FInv, NEW c \in Tasks, CheckNproc(c) PROVE FInv'
<1>1. call[c].op = "fork" /\ call[c].pc = "nproc"
  BY DEF CheckNproc, At
<1>2. TaskQuiet
  BY TaskKept DEF FInv, CheckNproc
<1>3. CASE GotoLabel(c, "task")
  BY Zenon, <1>1, <1>2, <1>3, PcMoves DEF GotoLabel, Building
<1>4. CASE Step(c, "creds")
  BY <1>1, <1>2, <1>4, PcMoves DEF Step, Building
<1> QED
  BY <1>3, <1>4 DEF CheckNproc

LEMMA CopyCredsStep == ASSUME FInv, NEW c \in Tasks, copy_creds(c) PROVE FInv'
<1>1. call[c].op = "fork" /\ call[c].pc = "creds"
  BY DEF copy_creds, At
<1>2. TaskQuiet
  <2>1. CASE UNCHANGED task
    BY <2>1, TaskKept DEF FInv
  <2>2. CASE task' = [task EXCEPT ![Child(c)].held = @ \cup {"count"}]
    BY <1>1, <2>2, EmbryoOf, FieldsQuiet DEF Building
  <2> QED
    BY <2>1, <2>2 DEF copy_creds
<1>3. CASE GotoLabel(c, "task")
  BY <1>1, <1>2, <1>3, PcMoves DEF GotoLabel, Building
<1>4. CASE Step(c, "limit")
  BY <1>1, <1>2, <1>4, PcMoves DEF Step, Building
<1> QED
  BY <1>3, <1>4 DEF copy_creds

LEMMA CheckLimitStep == ASSUME FInv, NEW c \in Tasks, CheckLimit(c) PROVE FInv'
<1>1. call[c].op = "fork" /\ call[c].pc = "limit"
  BY DEF CheckLimit, At
<1>2. CASE LimitReached
  <2>1. TaskQuiet
    BY <1>2, TaskKept DEF FInv, CheckLimit
  <2> QED
    BY <1>1, <1>2, <2>1, PcMoves DEF CheckLimit, GotoLabel, Building
<1>3. CASE ~ LimitReached
  <2>1. PICK h : task' = [task EXCEPT ![Child(c)].held = h, ![Child(c)].vfork_done = None]
    BY <1>3 DEF CheckLimit
  <2>2. Child(c) \in Tasks /\ Shapes
    BY <1>1, EmbryoOf DEF Building
  <2>3. TaskQuiet
    BY <2>1, <2>2, FieldsQuiet
  <2> QED
    BY <1>1, <1>3, <2>3, PcMoves DEF CheckLimit, Building
<1> QED
  BY <1>2, <1>3

LEMMA CopyFromStep ==
    ASSUME FInv, NEW c \in Tasks, At(c, "fork", "copy"), NEW i, CopyFrom(c, i), TaskQuiet
    PROVE  FInv'
<1>1. CASE i <= Len(Order)
  BY <1>1, IndexMoves DEF CopyFrom, At, Building
<1>2. CASE ~ (i <= Len(Order))
  BY <1>2, PcMoves DEF CopyFrom, At, Building
<1> QED
  BY <1>1, <1>2

LEMMA ObjectCopied ==
    ASSUME FInv, NEW c \in Tasks, At(c, "fork", "copy"), NEW k, Share(c, k) \/ Duplicate(c, k)
    PROVE  TaskQuiet
<1>1. Child(c) \in Tasks /\ Shapes
  BY EmbryoOf DEF At, Building
<1>2. CASE Share(c, k)
  BY <1>1, <1>2, FieldsQuiet DEF Share
<1>3. CASE Duplicate(c, k)
  BY <1>1, <1>3, FieldsQuiet DEF Duplicate
<1> QED
  BY <1>2, <1>3

LEMMA CopyStepStep == ASSUME FInv, NEW c \in Tasks, CopyStep(c) PROVE FInv'
<1>1. At(c, "fork", "copy")
  BY DEF CopyStep, copy_files, copy_fs, copy_sighand, copy_signal, copy_mm, CopyOwn, Copying
<1>2. CASE copy_files(c)
  BY <1>1, <1>2, ObjectCopied, CopyFromStep DEF copy_files, NextCopy
<1>3. CASE copy_fs(c)
  BY <1>1, <1>3, ObjectCopied, CopyFromStep DEF copy_fs, NextCopy
<1>4. CASE copy_sighand(c)
  BY <1>1, <1>4, ObjectCopied, CopyFromStep DEF copy_sighand, NextCopy
<1>5. CASE copy_signal(c)
  <2>1. TaskQuiet
    BY <1>1, <1>5, ObjectCopied, TaskKept DEF copy_signal, FInv
  <2> QED
    BY <1>1, <1>5, <2>1, CopyFromStep DEF copy_signal, NextCopy
<1>6. CASE copy_mm(c)
  BY <1>1, <1>6, ObjectCopied, CopyFromStep DEF copy_mm, NextCopy
<1>7. CASE CopyOwn(c)
  <2>1. TaskQuiet
    BY <1>1, <1>7, EmbryoOf, FieldsQuiet DEF CopyOwn, At, Building
  <2> QED
    BY <1>1, <1>7, <2>1, CopyFromStep DEF CopyOwn
<1> QED
  BY <1>2, <1>3, <1>4, <1>5, <1>6, <1>7 DEF CopyStep

LEMMA CopyFailsStep == ASSUME FInv, NEW c \in Tasks, CopyFails(c) PROVE FInv'
<1>1. call[c].op = "fork" /\ call[c].pc = "copy"
  BY DEF CopyFails, At
<1>2. PICK l, h : GotoLabel(c, l) /\ task' = [task EXCEPT ![Child(c)].held = h]
  BY DEF CopyFails
<1>3. TaskQuiet
  BY <1>1, <1>2, EmbryoOf, FieldsQuiet DEF Building
<1> QED
  BY <1>1, <1>2, <1>3, PcMoves DEF GotoLabel, Building

LEMMA AttachFailsStep == ASSUME FInv, NEW c \in Tasks, AttachFails(c) PROVE FInv'
<1>1. TaskQuiet
  BY TaskKept DEF FInv, AttachFails
<1> QED
  BY <1>1, PcMoves DEF AttachFails, At, GotoLabel, Building

-----------------------------------------------------------------------------
(* The calls that have no child, and the ends of calls *)
LEMMA NoCallFacts ==
    /\ CallShape(NoCall) /\ NoCall.op = "none" /\ NoCall.pc = "none"
    /\ NoCall.child = None /\ Phase(NoCall) = "none"
BY Zenon DEF CallShape, CallFields, NoCall, Phase

LEMMA CallReplaced ==
    ASSUME FInv, NEW c \in Tasks, NEW r, CallShape(r), Phase(r) = "none", r.child = None,
           Phase(call[c]) # "finish", Runs(r, task[c]),
           call' = [call EXCEPT ![c] = r], TaskQuiet
    PROVE  FInv'
<1>1. /\ Shapes'
      /\ \A t \in Tasks \ {c} : CallSame(t)
      /\ call'[c] = r
  BY CallStep DEF FInv, Shapes, TaskQuiet
<1> QED
  BY <1>1, Move DEF TaskQuiet

LEMMA CallEnds ==
    ASSUME FInv, NEW c \in Tasks, Phase(call[c]) # "finish",
           call' = [call EXCEPT ![c] = NoCall], TaskQuiet
    PROVE  FInv'
<1>1. Runs(NoCall, task[c])
  BY NoCallFacts DEF Runs
<1> QED
  BY <1>1, NoCallFacts, CallReplaced

LEMMA OtherMoves ==
    ASSUME FInv, NEW c \in Tasks, call[c].op \notin {"fork", "none"},
           NEW r, LikeCall(r, call[c]), r.pc # "complete",
           call' = [call EXCEPT ![c] = r], TaskQuiet
    PROVE  FInv'
<1>1. Phase(call[c]) = "none" /\ Phase(r) = "none"
  BY DEF Phase, LikeCall
<1>2. r.child = None
  BY <1>1 DEF FInv, LikeCall
<1>3. Runs(r, task[c])
  BY DEF FInv, Runs, LikeCall
<1> QED
  BY <1>1, <1>2, <1>3, CallReplaced DEF LikeCall

LEMMA DoForkStep == ASSUME FInv, NEW c \in Tasks, _do_fork(c) PROVE FInv'
<1>1. PICK x : call' = [call EXCEPT ![c] = [NoCall EXCEPT !.op = "fork", !.pc = "collect",
                                                          !.flags = KernelFlags(x),
                                                          !.plain = x.entry = "fork"]]
  BY Zenon DEF _do_fork
<1> DEFINE r == [NoCall EXCEPT !.op = "fork", !.pc = "collect", !.flags = KernelFlags(x),
                               !.plain = x.entry = "fork"]
<1>2. CallShape(r) /\ r.op = "fork" /\ r.pc = "collect" /\ r.child = None
  BY DEF NoCall, CallShape, CallFields
<1>3. call' = [call EXCEPT ![c] = r]
  BY <1>1
<1> HIDE DEF r
<1>4. Phase(r) = "none" /\ Runs(r, task[c]) /\ Phase(call[c]) # "finish"
  BY <1>2 DEF Phase, Runs, _do_fork
<1>5. TaskQuiet
  BY TaskKept DEF FInv, _do_fork
<1> QED
  BY <1>2, <1>3, <1>4, <1>5, CallReplaced

LEMMA WaitStep == ASSUME FInv, NEW c \in Tasks, wait_for_vfork_done(c) PROVE FInv'
<1>1. TaskQuiet
  BY TaskKept DEF FInv, wait_for_vfork_done
<1>2. Step(c, "put") \/ Step(c, "killed")
  BY DEF wait_for_vfork_done
<1> QED
  BY <1>1, <1>2, PcMoves DEF wait_for_vfork_done, At, Step, Waiting

LEMMA ClearVforkStep == ASSUME FInv, NEW c \in Tasks, ClearVfork(c) PROVE FInv'
<1>1. call[c].op = "fork" /\ call[c].pc = "killed"
  BY DEF ClearVfork, At
<1>2. Child(c) \in Tasks /\ Shapes
  BY <1>1 DEF FInv, Phase, Child
<1>3. TaskQuiet
  BY Zenon, <1>2, FieldsQuiet DEF ClearVfork, ForgetVfork
<1> QED
  BY Zenon, <1>1, <1>3, PcMoves DEF ClearVfork, Step, Waiting

LEMMA ExecStep == ASSUME FInv, NEW t \in Tasks, do_exec(t) PROVE FInv'
<1>1. PICK v, n : call' = [call EXCEPT ![t] = [NoCall EXCEPT !.op = "exec", !.pc = v, !.new = n]]
  BY Zenon DEF do_exec
<1> DEFINE r == [NoCall EXCEPT !.op = "exec", !.pc = v, !.new = n]
<1>2. CallShape(r) /\ r.op = "exec" /\ r.child = None
  BY Zenon DEF NoCall, CallShape, CallFields
<1>3. call' = [call EXCEPT ![t] = r]
  BY <1>1
<1> HIDE DEF r
<1>4. Phase(r) = "none" /\ Runs(r, task[t]) /\ Phase(call[t]) # "finish"
  BY <1>2 DEF Phase, Runs, do_exec, Idle
<1>5. TaskQuiet
  <2>1. CASE UNCHANGED task
    BY <2>1, TaskKept DEF FInv
  <2>2. CASE task' # task
    <3>1. PICK f : task' = [task EXCEPT ![t].res["files"] = f]
      BY <2>2 DEF do_exec
    <3>2. PICK o : task' = [task EXCEPT ![t].res = o]
      BY <3>1
    <3> QED
      BY <3>2, FieldsQuiet DEF FInv
  <2> QED
    BY <2>1, <2>2
<1> QED
  BY <1>2, <1>3, <1>4, <1>5, CallReplaced

LEMMA DoExitStep == ASSUME FInv, NEW t \in Tasks, do_exit(t) PROVE FInv'
<1>1. PICK v : call' = [call EXCEPT ![t] = [NoCall EXCEPT !.op = "exit", !.pc = v]]
  BY Zenon DEF do_exit
<1> DEFINE r == [NoCall EXCEPT !.op = "exit", !.pc = v]
<1>2. CallShape(r) /\ r.op = "exit" /\ r.child = None
  BY DEF NoCall, CallShape, CallFields
<1>3. call' = [call EXCEPT ![t] = r]
  BY <1>1
<1> HIDE DEF r
<1>4. Phase(r) = "none" /\ Runs(r, task[t]) /\ Phase(call[t]) # "finish"
  BY <1>2 DEF Phase, Runs, do_exit, Idle
<1>5. TaskQuiet
  BY TaskKept DEF FInv, do_exit
<1> QED
  BY <1>2, <1>3, <1>4, <1>5, CallReplaced

LEMMA CompleteStep == ASSUME FInv, NEW t \in Tasks, complete_vfork_done(t) PROVE FInv'
<1>1. call[t].op \in {"exec", "exit"}
  BY DEF FInv, Runs, complete_vfork_done
<1>2. TaskQuiet
  BY FieldsQuiet DEF FInv, complete_vfork_done
<1>3. CASE call' = [call EXCEPT ![t].pc = "drop"]
  <2> DEFINE r == [call[t] EXCEPT !.pc = "drop"]
  <2>1. LikeCall(r, call[t]) /\ r.pc = "drop"
    BY PcWritten DEF FInv, Shapes
  <2> QED
    BY <1>1, <1>2, <1>3, <2>1, OtherMoves
<1>4. ASSUME NEW q, call' = [call EXCEPT ![t].pc = "drop", ![q].done = TRUE] PROVE FInv'
  <2> DEFINE r == [call[t] EXCEPT !.pc = "drop"]
             mid == [call EXCEPT ![t] = r]
  <2>1. LikeCall(r, call[t]) /\ r.pc = "drop"
    BY PcWritten DEF FInv, Shapes
  <2>2. call' = [mid EXCEPT ![q].done = TRUE]
    BY <1>4
  <2>3. /\ mid = [x \in Tasks |-> mid[x]] /\ \A x \in Tasks : CallShape(mid[x])
        /\ \A x \in Tasks \ {t} : mid[x] = call[x]
        /\ mid[t] = r
    BY <2>1 DEF FInv, Shapes, LikeCall
  <2> HIDE DEF r, mid
  <2>4. ASSUME NEW m, CallShape(m)
        PROVE  LikeCall([m EXCEPT !.done = TRUE], m) /\ [m EXCEPT !.done = TRUE].pc = m.pc
    BY <2>4 DEF LikeCall, CallShape, CallFields
  <2>5. /\ call' = [x \in Tasks |-> call'[x]]
        /\ \A x \in Tasks : LikeCall(call'[x], mid[x]) /\ call'[x].pc = mid[x].pc
    <3>1. call' = [mid EXCEPT ![q] = [mid[q] EXCEPT !.done = TRUE]]
      BY <2>2
    <3>2. \A x \in Tasks : call'[x] = IF x = q THEN [mid[x] EXCEPT !.done = TRUE] ELSE mid[x]
      BY <2>3, <3>1
    <3>3. \A x \in Tasks : LikeCall(mid[x], mid[x])
      BY <2>3 DEF LikeCall
    <3>4. call' = [x \in Tasks |-> call'[x]]
      BY <2>3, <3>1
    <3> QED
      BY <2>3, <2>4, <3>2, <3>3, <3>4
  <2>6. Shapes' /\ \A x \in Tasks \ {t} : CallSame(x)
    BY <1>2, <2>3, <2>5 DEF Shapes, TaskQuiet, LikeCall, CallSame
  <2>7. /\ call'[t].op = call[t].op /\ call'[t].pc = "drop"
        /\ call'[t].child = call[t].child /\ call'[t].flags = call[t].flags
    BY <2>1, <2>3, <2>5 DEF LikeCall
  <2>8. Runs(call'[t], task[t]) /\ Phase(call'[t]) = Phase(call[t])
    BY <1>1, <2>7 DEF FInv, Runs, Phase
  <2> QED
    BY <1>2, <2>6, <2>7, <2>8, Move DEF TaskQuiet
<1> QED
  BY Zenon, <1>3, <1>4 DEF complete_vfork_done

LEMMA ResQuiet ==
    ASSUME FInv, NEW t \in Tasks, NEW j, NEW k, NEW v, NEW w,
           task' = [task EXCEPT ![t].res[j] = v, ![t].res[k] = w]
    PROVE  TaskQuiet
<1> DEFINE r == [task[t] EXCEPT !.res = [task[t].res EXCEPT ![j] = v]]
           mid == [task EXCEPT ![t] = r]
           s == [r EXCEPT !.res = [r.res EXCEPT ![k] = w]]
<1>1. LikeTask(r, task[t])
  BY Zenon, TaskFieldsWritten DEF FInv, Shapes
<1>2. mid = [x \in Tasks |-> mid[x]] /\ mid[t] = r
  BY DEF FInv, Shapes
<1>3. task' = [mid EXCEPT ![t].res[k] = w]
  OBVIOUS
<1> HIDE DEF r
<1>4. LikeTask(s, r)
  BY Zenon, <1>1, TaskFieldsWritten DEF LikeTask
<1>5. task' = [mid EXCEPT ![t] = s]
  BY Zenon, <1>2, <1>3
<1> HIDE DEF s
<1>6. task' = [task EXCEPT ![t] = s]
  BY <1>5 DEF FInv, Shapes
<1> QED
  BY <1>1, <1>4, <1>6, TaskStep DEF LikeTask, FInv

LEMMA FinishExecStep == ASSUME FInv, NEW t \in Tasks, FinishExec(t) PROVE FInv'
<1>1. TaskQuiet
  <2>1. PICK v, w : task' = [task EXCEPT ![t].res["mm"] = v, ![t].res["sighand"] = w]
    BY DEF FinishExec
  <2> QED
    BY <2>1, ResQuiet
<1>2. Phase(call[t]) = "none"
  BY DEF FinishExec, At, Phase
<1> QED
  BY <1>1, <1>2, CallEnds DEF FinishExec

LEMMA UnshareBegins == ASSUME FInv, NEW t \in Tasks, ksys_unshare(t) PROVE FInv'
<1>1. PICK f : call' = [call EXCEPT ![t] = [NoCall EXCEPT !.op = "unshare", !.pc = "ufs",
                                                          !.flags = f]]
  BY Zenon DEF ksys_unshare
<1> DEFINE r == [NoCall EXCEPT !.op = "unshare", !.pc = "ufs", !.flags = f]
<1>2. CallShape(r) /\ r.op = "unshare" /\ r.pc = "ufs" /\ r.child = None
  BY Zenon DEF NoCall, CallShape, CallFields
<1>3. call' = [call EXCEPT ![t] = r]
  BY <1>1
<1> HIDE DEF r
<1>4. Phase(r) = "none" /\ Runs(r, task[t]) /\ Phase(call[t]) # "finish"
  BY <1>2 DEF Phase, Runs, ksys_unshare, Idle
<1>5. TaskQuiet
  BY TaskKept DEF FInv, ksys_unshare
<1> QED
  BY <1>2, <1>3, <1>4, <1>5, CallReplaced

LEMMA UnshareCopyStep ==
    ASSUME FInv, NEW t \in Tasks, call[t].op = "unshare", NEW k, NEW flag, NEW pc,
           pc # "complete", UnshareCopy(t, k, flag, pc), TaskQuiet
    PROVE  FInv'
<1>1. CallShape(call[t])
  BY DEF FInv, Shapes
<1>2. CASE call' = [call EXCEPT ![t].pc = pc]
  <2> DEFINE r == [call[t] EXCEPT !.pc = pc]
  <2>1. LikeCall(r, call[t]) /\ r.pc = pc
    BY <1>1, PcWritten
  <2> QED
    BY <1>2, <2>1, OtherMoves
<1>3. CASE call' = [call EXCEPT ![t].pc = pc, ![t].new[k] = NewObj(k)]
  <2> DEFINE n == [call[t].new EXCEPT ![k] = NewObj(k)]
             r == [call[t] EXCEPT !.pc = pc, !.new = n]
  <2>1. LikeCall(r, call[t]) /\ r.pc = pc
    BY <1>1 DEF LikeCall, CallShape, CallFields
  <2>2. call' = [call EXCEPT ![t] = r]
    BY Zenon, <1>1, <1>3 DEF FInv, Shapes, CallShape, CallFields
  <2> HIDE DEF r
  <2> QED
    BY <2>1, <2>2, OtherMoves
<1> QED
  BY <1>2, <1>3 DEF UnshareCopy, Step

LEMMA UnshareSteps ==
    ASSUME FInv, NEW t \in Tasks, UnshareStep(t) \/ UnshareFails(t) PROVE FInv'
<1>1. CASE unshare_fs(t)
  BY <1>1, TaskKept, UnshareCopyStep DEF unshare_fs, At, FInv
<1>2. CASE unshare_fd(t)
  BY <1>2, TaskKept, UnshareCopyStep DEF unshare_fd, At, FInv
<1>3. CASE UnshareSwap(t)
  <2>1. PICK o : task' = [task EXCEPT ![t].res = o]
    BY Zenon, <1>3 DEF UnshareSwap
  <2>2. TaskQuiet
    BY Zenon, <2>1, FieldsQuiet DEF FInv
  <2> QED
    BY <1>3, <2>2, CallEnds DEF UnshareSwap, At, Phase
<1>4. CASE UnshareFails(t)
  <2>1. TaskQuiet
    BY <1>4, TaskKept DEF FInv, UnshareFails
  <2>2. call[t].op = "unshare"
    BY <1>4 DEF UnshareFails, At
  <2> QED
    BY <1>4, <2>1, <2>2, CallEnds DEF UnshareFails, Phase
<1> QED
  BY <1>1, <1>2, <1>3, <1>4 DEF UnshareStep

(* Signals and the limit touch neither a task nor where a call is. *)
LEMMA QuietSteps ==
    ASSUME FInv, TaskQuiet, call' = [t \in Tasks |-> call'[t]],
           \A t \in Tasks : LikeCall(call'[t], call[t]) /\ call'[t].pc = call[t].pc
    PROVE  FInv'
<1>1. Shapes' /\ \A t \in Tasks : CallSame(t)
  BY DEF TaskQuiet, Shapes, LikeCall, CallSame
<1>2. Root \in Tasks
  BY KernelForkAssumption
<1>3. Runs(call'[Root], task[Root]) /\ Phase(call'[Root]) = Phase(call[Root])
  BY <1>1, <1>2 DEF FInv, Runs, Phase, CallSame
<1> QED
  BY <1>1, <1>2, <1>3, Move DEF TaskQuiet, CallSame

LEMMA SignalSteps ==
    ASSUME FInv,
           KillGroup \/ sysctl_max_threads \/ (\E t \in Tasks : Kill(t) \/ Deliver(t))
           \/ UNCHANGED vars
    PROVE  FInv'
<1>1. TaskQuiet
  <2>1. UNCHANGED task
    BY Zenon DEF KillGroup, sysctl_max_threads, Kill, Deliver, vars
  <2> QED
    BY <2>1, TaskKept DEF FInv
<1>2. CASE UNCHANGED call
  BY <1>1, <1>2, QuietSteps DEF FInv, Shapes, LikeCall
<1>3. CASE KillGroup
  <2>2. call' = [t \in Tasks |-> call'[t]]
    BY Zenon, <1>3 DEF KillGroup
  <2>3. \A t \in Tasks : \E x, y : call'[t] = [call[t] EXCEPT !.delayed = x, !.hit = y]
    BY Zenon, <1>3 DEF KillGroup
  <2>4. \A t \in Tasks : LikeCall(call'[t], call[t]) /\ call'[t].pc = call[t].pc
    <3> TAKE t \in Tasks
    <3>1. PICK x, y : call'[t] = [call[t] EXCEPT !.delayed = x, !.hit = y]
      BY Zenon, <2>3
    <3>2. CallShape(call[t])
      BY DEF FInv, Shapes
    <3> DEFINE r == [call[t] EXCEPT !.delayed = x, !.hit = y]
    <3>3. LikeCall(r, call[t]) /\ r.pc = call[t].pc
      BY Zenon, <3>2, SignalWritten
    <3>4. call'[t] = r
      BY <3>1
    <3> HIDE DEF r
    <3> QED
      BY <3>3, <3>4
  <2> QED
    BY <1>1, <2>2, <2>4, QuietSteps
<1> QED
  BY <1>2, <1>3 DEF sysctl_max_threads, Kill, Deliver, vars

-----------------------------------------------------------------------------
(***************************************************************************)
(* The steps that change what is counted.  Those of a fork concern its     *)
(* caller and its child, which are two tasks.                              *)
(***************************************************************************)
TaskFrame(set) ==
    /\ task' = [t \in Tasks |-> task'[t]] /\ \A t \in Tasks : TaskShape(task'[t])
    /\ \A t \in Tasks \ set : TaskSame(t)
CallFrame(c) ==
    /\ call' = [t \in Tasks |-> call'[t]] /\ \A t \in Tasks : CallShape(call'[t])
    /\ \A t \in Tasks \ {c} : CallSame(t)

(* Who else has a child in a fork has another one. *)
LEMMA OthersKeep ==
    ASSUME FInv, NEW c \in Tasks, NEW p \in Tasks, TaskFrame({c, p}), CallFrame(c),
           \A d \in Tasks \ {c} : call[d].child # p,
           task[c].st = "awake", task'[c].st = "awake", task'[c].usage = task[c].usage,
           call'[c].child = None \/ call'[c].child = p,
           c # p,
           Runs(call'[c], task'[c]), Counted(call'[c], task'[c]),
           Runs(call[p], task'[p]), Counted(call[p], task'[p]),
           IF Phase(call'[c]) = "none" THEN call'[c].child = None
           ELSE call'[c].child = p /\ Fits(call'[c], task'[p])
    PROVE  FInv'
<1>1. Shapes'
  BY DEF TaskFrame, CallFrame, Shapes
<1>2. ASSUME NEW t \in Tasks PROVE Runs(call'[t], task'[t]) /\ Counted(call'[t], task'[t])
  <2>1. CASE t = c
    BY <2>1
  <2>2. CASE t # c
    <3>1. CallSame(t) /\ Phase(call'[t]) = Phase(call[t])
      BY <2>2, SamePhase DEF CallFrame
    <3>2. CASE t = p
      BY <3>1, <3>2 DEF Runs, Counted, CallSame
    <3>3. CASE t # p
      BY <2>2, <3>1, <3>3 DEF TaskFrame, TaskSame, CallSame, FInv, Runs, Counted
    <3> QED
      BY <3>2, <3>3
  <2> QED
    BY <2>1, <2>2
<1>3. ASSUME NEW d \in Tasks
      PROVE  IF Phase(call'[d]) = "none" THEN call'[d].child = None
             ELSE call'[d].child \in Tasks \ {d} /\ Fits(call'[d], task'[call'[d].child])
  <2>1. CASE d = c
    BY <2>1
  <2>2. CASE d # c
    <3>1. CallSame(d) /\ Phase(call'[d]) = Phase(call[d])
      BY <2>2, SamePhase DEF CallFrame
    <3>2. CASE Phase(call[d]) = "none"
      BY <3>1, <3>2 DEF FInv, CallSame
    <3>3. CASE Phase(call[d]) # "none"
      <4> DEFINE q == call[d].child
      <4>1. q \in Tasks \ {d} /\ q # p /\ Fits(call[d], task[q])
        BY <2>2, <3>3 DEF FInv
      <4>2. /\ task'[q].st = task[q].st /\ task'[q].usage = task[q].usage
            /\ q # c => TaskSame(q)
        BY <4>1 DEF TaskFrame, TaskSame
      <4>3. q = c => Phase(call[d]) = "wait"
        BY <3>3, <4>1 DEF Fits, Phase
      <4>4. Fits(call'[d], task'[q])
        BY Zenon, <3>1, <4>1, <4>2, <4>3 DEF Fits, TaskSame, CallSame
      <4>5. call'[d].child = q
        BY <3>1 DEF CallSame
      <4> QED
        BY <3>1, <3>3, <4>1, <4>4, <4>5
    <3> QED
      BY <3>2, <3>3
  <2> QED
    BY <2>1, <2>2
<1>4. ASSUME NEW d \in Tasks, NEW e \in Tasks,
             call'[d].child = call'[e].child, call'[d].child # None
      PROVE  d = e
  <2>1. \A x \in Tasks \ {c} : call'[x].child = call[x].child /\ call[x].child # p
    BY DEF CallFrame, CallSame
  <2>2. CASE d = c \/ e = c
    BY <1>4, <2>1, <2>2
  <2>3. CASE d # c /\ e # c
    BY <1>4, <2>1, <2>3 DEF FInv
  <2> QED
    BY <2>2, <2>3
<1> QED
  BY <1>1, <1>2, <1>3, <1>4 DEF FInv

LEMMA CallWritten ==
    ASSUME FInv, NEW c \in Tasks, NEW r, CallShape(r), call' = [call EXCEPT ![c] = r]
    PROVE  CallFrame(c) /\ call'[c] = r
BY Zenon, CallStep DEF CallFrame, FInv

LEMMA OneTaskWritten ==
    ASSUME FInv, NEW p \in Tasks, NEW r, TaskShape(r), task' = [task EXCEPT ![p] = r], NEW c
    PROVE  TaskFrame({c, p}) /\ task'[p] = r /\ \A t \in Tasks \ {p} : task'[t] = task[t]
BY DEF FInv, Shapes, TaskFrame, TaskSame

(* dup_task_struct: the child was free, so that nobody has it as a child. *)
LEMMA DupStep == ASSUME FInv, NEW c \in Tasks, dup_task_struct(c) PROVE FInv'
<1>1. call[c].op = "fork" /\ call[c].pc = "dup" /\ Phase(call[c]) = "none"
  BY DEF dup_task_struct, At, Phase
<1>2. CASE UNCHANGED task /\ Step(c, "out")
  <2>1. TaskQuiet
    BY <1>2, TaskKept DEF FInv
  <2> QED
    BY <1>1, <1>2, <2>1, PcMoves DEF Step, Beginning
<1>3. ASSUME NEW p \in Tasks, task[p].st = "free",
             task' = [task EXCEPT ![p] = [task[c] EXCEPT !.st = "embryo", !.held = {"stack"},
                                             !.usage = 1, !.rcu_users = 2, !.made = NoneMade]],
             call' = [call EXCEPT ![c].pc = "nproc", ![c].child = p]
      PROVE  FInv'
  <2> DEFINE s == [task[c] EXCEPT !.st = "embryo", !.held = {"stack"},
                                  !.usage = 1, !.rcu_users = 2, !.made = NoneMade]
             r == [call[c] EXCEPT !.pc = "nproc", !.child = p]
  <2>1. CallShape(call[c]) /\ TaskShape(task[c])
    BY DEF FInv, Shapes
  <2>2. TaskShape(s) /\ s.st = "embryo" /\ s.made = NoneMade /\ s.usage = 1
    BY <2>1 DEF TaskShape, TaskFields
  <2>3. CallShape(r) /\ r.op = "fork" /\ r.pc = "nproc" /\ r.child = p
    BY <1>1, <2>1 DEF CallShape, CallFields
  <2>4. task' = [task EXCEPT ![p] = s]
    BY <1>3
  <2>5. call' = [call EXCEPT ![c] = r]
    BY Zenon, <1>3 DEF FInv, Shapes
  <2> HIDE DEF s, r
  <2>6. Phase(r) = "building"
    BY <2>3 DEF Phase
  <2>7. task[c].st = "awake" /\ c # p /\ call[p].op = "none"
    BY <1>1, <1>3 DEF FInv, Runs
  <2>8. \A d \in Tasks : call[d].child # p
    <3> TAKE d \in Tasks
    <3>1. CASE Phase(call[d]) = "none"
      BY <3>1, KernelForkAssumption DEF FInv
    <3>2. CASE Phase(call[d]) # "none"
      BY <1>3, <3>2 DEF FInv, Fits, Phase
    <3> QED
      BY <3>1, <3>2
  <2>9. CallFrame(c) /\ call'[c] = r
    BY <2>3, <2>5, CallWritten
  <2>10. TaskFrame({c, p}) /\ task'[p] = s /\ task'[c] = task[c]
    BY Zenon, <2>2, <2>4, <2>7, OneTaskWritten
  <2>11. Runs(r, task[c]) /\ Counted(r, task[c])
    BY <1>1, <2>3, <2>6, <2>7 DEF FInv, Runs, Counted
  <2>12. Runs(call[p], s) /\ Counted(call[p], s)
    BY <2>2, <2>7, MadeFacts DEF FInv, Runs, Counted
  <2>13. Fits(r, s)
    BY <2>2, <2>6 DEF Fits
  <2> QED
    BY <2>3, <2>6, <2>7, <2>8, <2>9, <2>10, <2>11, <2>12, <2>13, OthersKeep
<1> QED
  BY <1>2, <1>3 DEF dup_task_struct

LEMMA TwoTasksWritten ==
    ASSUME FInv, NEW c \in Tasks, NEW p \in Tasks, c # p,
           NEW q, TaskShape(q), NEW s, TaskShape(s),
           task' = [t \in Tasks |-> IF t = c THEN q ELSE IF t = p THEN s ELSE task[t]]
    PROVE  TaskFrame({c, p}) /\ task'[p] = s /\ task'[c] = q
BY DEF FInv, Shapes, TaskFrame, TaskSame

(* What a fork with a child has *)
LEMMA HasChild ==
    ASSUME FInv, NEW c \in Tasks, Phase(call[c]) # "none"
    PROVE  /\ Child(c) \in Tasks /\ Child(c) # c /\ Fits(call[c], task[Child(c)])
           /\ call[c].op = "fork" /\ task[c].st = "awake"
           /\ TaskShape(task[c]) /\ TaskShape(task[Child(c)]) /\ CallShape(call[c])
           /\ \A d \in Tasks \ {c} : call[d].child # Child(c)
<1>1. Child(c) \in Tasks \ {c} /\ Fits(call[c], task[Child(c)])
  BY DEF FInv, Child
<1>2. call[c].op = "fork"
  BY DEF Phase
<1>3. \A d \in Tasks \ {c} : call[d].child # Child(c)
  BY <1>1, KernelForkAssumption DEF FInv, Child
<1> QED
  BY <1>1, <1>2, <1>3 DEF FInv, Runs, Shapes

LEMMA AttachStep == ASSUME FInv, NEW c \in Tasks, Attach(c) PROVE FInv'
<1> DEFINE p == Child(c)
<1>1. call[c].op = "fork" /\ call[c].pc = "attach" /\ Phase(call[c]) = "building"
  BY DEF Attach, At, Phase
<1>2. /\ p \in Tasks /\ p # c /\ Fits(call[c], task[p]) /\ task[c].st = "awake"
      /\ TaskShape(task[c]) /\ TaskShape(task[p]) /\ CallShape(call[c])
      /\ \A d \in Tasks \ {c} : call[d].child # p
  BY <1>1, HasChild
<1>3. task[p].st = "embryo" /\ task[p].made = NoneMade /\ task[p].usage = 1 /\ call[p].op = "none"
  BY <1>1, <1>2 DEF Fits, FInv, Runs
<1>4. PICK par, h, g :
         task' = [task EXCEPT ![p].st = "new", ![p].parent = par, ![p].held = h,
                              ![p].tgid = g, ![c].made = Creates(c)]
  BY Zenon DEF Attach
<1> DEFINE s == [task[p] EXCEPT !.st = "new", !.parent = par, !.held = h, !.tgid = g]
           m == Creates(c)
           q == [task[c] EXCEPT !.made = m]
           r == [call[c] EXCEPT !.pc = "finish", !.node = FALSE]
<1>5. task' = [[task EXCEPT ![p] = s] EXCEPT ![c] = q]
  BY <1>2, <1>4 DEF FInv, Shapes
<1> HIDE DEF m
<1>6. TaskShape(s) /\ s.st = "new" /\ s.made = NoneMade /\ s.usage = 1
  BY <1>2, <1>3 DEF TaskShape, TaskFields
<1>7. /\ TaskShape(q) /\ q.st = "awake" /\ q.made = m
      /\ q.fork_count = task[c].fork_count /\ q.usage = task[c].usage
  BY <1>2 DEF TaskShape, TaskFields
<1>8. call' = [call EXCEPT ![c] = r]
  BY Zenon DEF Attach, FInv, Shapes
<1>9. CallShape(r) /\ r.op = "fork" /\ r.pc = "finish" /\ r.child = p
  BY <1>1, <1>2 DEF CallShape, CallFields, Child
<1> HIDE DEF p, q, r, s
<1>10. Phase(r) = "finish"
  BY <1>9 DEF Phase
<1>11. TaskFrame({c, p}) /\ task'[p] = s /\ task'[c] = q
  <2>1. task' = [t \in Tasks |-> IF t = c THEN q ELSE IF t = p THEN s ELSE task[t]]
    BY <1>2, <1>5 DEF FInv, Shapes
  <2> QED
    BY <1>2, <1>6, <1>7, <2>1, TwoTasksWritten
<1>12. CallFrame(c) /\ call'[c] = r
  BY <1>8, <1>9, CallWritten
<1>13. Runs(r, q) /\ Counted(r, q)
  <2>1. task[c].made \in Made /\ task[c].fork_count = Created(task[c].made) - 0
    BY <1>1, <1>2 DEF FInv, Counted
  <2>2. m \in Made /\ Created(m) = Created(task[c].made) + 1
    BY <2>1, CreatesFacts DEF m
  <2> QED
    BY <1>7, <1>9, <1>10, <2>1, <2>2, MadeFacts DEF Runs, Counted
<1>14. Runs(call[p], s) /\ Counted(call[p], s)
  BY <1>2, <1>3, <1>6 DEF FInv, Runs, Counted
<1>15. Fits(r, s)
  BY <1>6, <1>10 DEF Fits
<1> QED
  BY <1>2, <1>7, <1>9, <1>10, <1>11, <1>12, <1>13, <1>14, <1>15, OthersKeep

LEMMA FinishForkStep == ASSUME FInv, NEW c \in Tasks, FinishFork(c) PROVE FInv'
<1> DEFINE p == Child(c)
<1>1. call[c].op = "fork" /\ call[c].pc = "finish" /\ Phase(call[c]) = "finish"
  BY DEF FinishFork, At, Phase
<1>2. /\ p \in Tasks /\ p # c /\ Fits(call[c], task[p]) /\ task[c].st = "awake"
      /\ TaskShape(task[c]) /\ TaskShape(task[p]) /\ CallShape(call[c])
      /\ \A d \in Tasks \ {c} : call[d].child # p
  BY <1>1, HasChild
<1>3. task[p].st = "new" /\ task[p].made = NoneMade /\ task[p].usage = 1 /\ call[p].op = "none"
  BY <1>1, <1>2 DEF Fits, FInv, Runs
<1> DEFINE a == [task[p] EXCEPT !.fork_count = 0]
           q == [task[c] EXCEPT !.fork_count = task[c].fork_count + 1]
           mid == [[task EXCEPT ![p] = a] EXCEPT ![c] = q]
<1>4. mid = CountFork(c)
  BY <1>2 DEF CountFork, FInv, Shapes
<1>5. /\ TaskShape(a) /\ a.st = "new" /\ a.made = NoneMade /\ a.usage = 1 /\ a.fork_count = 0
  BY <1>2, <1>3 DEF TaskShape, TaskFields
<1>6. /\ TaskShape(q) /\ q.st = "awake" /\ q.made = task[c].made /\ q.usage = task[c].usage
      /\ q.fork_count = task[c].fork_count + 1
  BY <1>2 DEF TaskShape, TaskFields
<1>7. PICK h, v : task' = [CountFork(c) EXCEPT ![p].held = h, ![p].vfork_done = v,
                                                ![p].usage = @ + VforkRefs(c)]
  BY Zenon DEF FinishFork
<1> DEFINE s == [a EXCEPT !.held = h, !.vfork_done = v, !.usage = a.usage + VforkRefs(c)]
<1>8. task' = [[task EXCEPT ![p] = s] EXCEPT ![c] = q]
  <2>1. mid = [t \in Tasks |-> mid[t]] /\ mid[p] = a
    BY <1>2 DEF FInv, Shapes
  <2>2. task' = [mid EXCEPT ![p].held = h, ![p].vfork_done = v, ![p].usage = @ + VforkRefs(c)]
    BY <1>4, <1>7
  <2> HIDE DEF a, q, mid
  <2>3. task' = [mid EXCEPT ![p] = s]
    BY <1>2, <2>1, <2>2
  <2> HIDE DEF s
  <2> QED
    BY <1>2, <2>3 DEF mid, FInv, Shapes
<1>9. TaskShape(s) /\ s.st = "new" /\ s.made = NoneMade /\ s.fork_count = 0 /\ s.usage = 1 + VforkRefs(c)
  <2> HIDE DEF a
  <2> QED
    BY <1>5 DEF TaskShape, TaskFields
<1> DEFINE r == [call[c] EXCEPT !.pc = "wake"]
<1>10. call' = [call EXCEPT ![c] = r]
  BY DEF FinishFork, Step
<1>11. CallShape(r) /\ r.op = "fork" /\ r.pc = "wake" /\ r.child = p /\ r.flags = call[c].flags
  BY <1>1, <1>2 DEF CallShape, CallFields, Child
<1> HIDE DEF a, p, q, r, s, mid
<1>12. Phase(r) = "wake"
  BY <1>11 DEF Phase
<1>13. TaskFrame({c, p}) /\ task'[p] = s /\ task'[c] = q
  <2>1. task' = [t \in Tasks |-> IF t = c THEN q ELSE IF t = p THEN s ELSE task[t]]
    BY <1>2, <1>8 DEF FInv, Shapes
  <2> QED
    BY <1>2, <1>6, <1>9, <2>1, TwoTasksWritten
<1>14. CallFrame(c) /\ call'[c] = r
  BY Zenon, <1>10, <1>11, CallWritten
<1>15. Runs(r, q) /\ Counted(r, q)
  <2>1. task[c].made \in Made /\ task[c].fork_count = Created(task[c].made) - 1
    BY <1>1, <1>2 DEF FInv, Counted
  <2> QED
    BY <1>6, <1>11, <1>12, <2>1, MadeFacts DEF Runs, Counted
<1>16. Runs(call[p], s) /\ Counted(call[p], s)
  BY <1>2, <1>3, <1>9 DEF FInv, Runs, Counted
<1>17. Fits(r, s)
  BY <1>9, <1>11, <1>12 DEF Fits, VforkRefs, Has
<1> QED
  BY <1>2, <1>6, <1>11, <1>12, <1>13, <1>14, <1>15, <1>16, <1>17, OthersKeep

LEMMA WakeStep == ASSUME FInv, NEW c \in Tasks, wake_up_new_task(c) PROVE FInv'
<1> DEFINE p == Child(c)
<1>1. call[c].op = "fork" /\ call[c].pc = "wake" /\ Phase(call[c]) = "wake"
  BY DEF wake_up_new_task, At, Phase
<1>2. /\ p \in Tasks /\ p # c /\ Fits(call[c], task[p]) /\ task[c].st = "awake"
      /\ TaskShape(task[c]) /\ TaskShape(task[p]) /\ CallShape(call[c])
      /\ \A d \in Tasks \ {c} : call[d].child # p
  BY <1>1, HasChild
<1>3. /\ task[p].st = "new" /\ task[p].made = NoneMade /\ task[p].fork_count = 0
      /\ task[p].usage = IF Has(c, "VFORK") THEN 2 ELSE 1
      /\ call[p].op = "none"
  BY <1>1, <1>2 DEF Fits, FInv, Runs, Has
<1> DEFINE s == [task[p] EXCEPT !.st = "awake"]
           r == IF Has(c, "VFORK") THEN [call[c] EXCEPT !.pc = "wait"] ELSE NoCall
<1>4. task' = [task EXCEPT ![p] = s]
  BY DEF wake_up_new_task
<1>5. /\ TaskShape(s) /\ s.st = "awake" /\ s.made = NoneMade /\ s.fork_count = 0
      /\ s.usage = IF Has(c, "VFORK") THEN 2 ELSE 1
  BY <1>2, <1>3 DEF TaskShape, TaskFields
<1>6. call' = [call EXCEPT ![c] = r]
  BY Zenon DEF wake_up_new_task
<1>7. CallShape(r) /\ IF Has(c, "VFORK") THEN r.op = "fork" /\ r.pc = "wait" /\ r.child = p
                      ELSE r = NoCall
  <2>1. CASE Has(c, "VFORK")
    BY <1>1, <1>2, <2>1 DEF CallShape, CallFields, Child
  <2>2. CASE ~ Has(c, "VFORK")
    BY <2>2, NoCallFacts
  <2> QED
    BY <2>1, <2>2
<1> HIDE DEF p, r, s
<1>8. IF Has(c, "VFORK") THEN Phase(r) = "wait" ELSE Phase(r) = "none"
  BY <1>7, NoCallFacts DEF Phase
<1>9. TaskFrame({c, p}) /\ task'[p] = s /\ task'[c] = task[c]
  BY <1>2, <1>4, <1>5, OneTaskWritten
<1>10. CallFrame(c) /\ call'[c] = r
  BY Zenon, <1>6, <1>7, CallWritten
<1>11. Runs(r, task[c]) /\ Counted(r, task[c])
  <2>1. task[c].made \in Made /\ task[c].fork_count = Created(task[c].made) - 0
    BY <1>1, <1>2 DEF FInv, Counted
  <2>2. r.pc # "complete"
    BY <1>7, NoCallFacts
  <2> QED
    BY <1>2, <1>8, <2>1, <2>2 DEF Runs, Counted
<1>12. Runs(call[p], s) /\ Counted(call[p], s)
  <2>1. Phase(call[p]) = "none"
    BY <1>3 DEF Phase
  <2> QED
    BY <1>2, <1>3, <1>5, <2>1, MadeFacts DEF FInv, Runs, Counted
<1>13. IF Phase(r) = "none" THEN r.child = None ELSE r.child = p /\ Fits(r, s)
  <2>1. CASE Has(c, "VFORK")
    BY <1>5, <1>7, <1>8, <2>1 DEF Fits
  <2>2. CASE ~ Has(c, "VFORK")
    BY <1>7, <1>8, <2>2, NoCallFacts
  <2> QED
    BY <2>1, <2>2
<1>14. r.child = None \/ r.child = p
  BY <1>13
<1> QED
  BY <1>2, <1>9, <1>10, <1>11, <1>12, <1>13, <1>14, OthersKeep

(* The child is gone, or has one reference less, and the call has ended or *)
(* goes on without a child.                                                *)
LEMMA ChildDropped ==
    ASSUME FInv, NEW c \in Tasks, Phase(call[c]) \in {"building", "wait"},
           NEW s, TaskShape(s), task' = [task EXCEPT ![Child(c)] = s],
           s.st = task[Child(c)].st \/ (s.st = "free" /\ task[Child(c)].st \in {"embryo", "dead"}),
           s.made \in Made,
           s.st # "free" => s.made = task[Child(c)].made /\ s.fork_count = task[Child(c)].fork_count,
           NEW r, CallShape(r), call' = [call EXCEPT ![c] = r],
           Phase(r) = "none", r.child = None, r.pc # "complete"
    PROVE  FInv'
<1> DEFINE p == Child(c)
<1>1. /\ p \in Tasks /\ p # c /\ task[c].st = "awake"
      /\ \A d \in Tasks \ {c} : call[d].child # p
  BY HasChild
<1>2. TaskFrame({c, p}) /\ task'[p] = s /\ task'[c] = task[c]
  BY Zenon, <1>1, OneTaskWritten
<1>3. CallFrame(c) /\ call'[c] = r
  BY Zenon, CallWritten
<1>4. Runs(r, task[c]) /\ Counted(r, task[c])
  BY <1>1 DEF FInv, Runs, Counted
<1>5. Runs(call[p], s) /\ Counted(call[p], s)
  <2>1. Runs(call[p], task[p]) /\ Counted(call[p], task[p])
    BY <1>1 DEF FInv
  <2> QED
    BY <2>1 DEF Runs, Counted
<1> QED
  BY Zenon, <1>1, <1>2, <1>3, <1>4, <1>5, OthersKeep

LEMMA FreeTaskFacts == TaskShape(FreeTask) /\ FreeTask.st = "free" /\ FreeTask.made \in Made
BY MadeFacts DEF TaskShape, TaskFields, FreeTask

LEMMA UndoStep == ASSUME FInv, NEW c \in Tasks, Undo(c) PROVE FInv'
<1>1. call[c].op = "fork" /\ call[c].pc = "undo" /\ Phase(call[c]) = "building"
  BY Zenon DEF Undo, At, Phase
<1>2. Child(c) \in Tasks /\ Fits(call[c], task[Child(c)]) /\ CallShape(call[c]) /\ Shapes
  BY <1>1, HasChild DEF FInv
<1>3. CASE Labels[call[c].i] = "task"
  <2> DEFINE r == [call[c] EXCEPT !.pc = "out", !.child = None]
  <2>1. CallShape(r) /\ r.op = "fork" /\ r.pc = "out" /\ r.child = None
    BY <1>1, <1>2 DEF CallShape, CallFields
  <2>2. call' = [call EXCEPT ![c] = r]
    BY <1>3 DEF Undo, FInv, Shapes
  <2> HIDE DEF r
  <2>3. Phase(r) = "none"
    BY <2>1 DEF Phase
  <2>4. task' = [task EXCEPT ![Child(c)] = FreeTask]
    BY <1>3 DEF Undo
  <2>5. task[Child(c)].st = "embryo"
    BY <1>1, <1>2 DEF Fits
  <2>6. r.pc # "complete"
    BY <2>1
  <2> QED
    BY <1>1, <2>1, <2>2, <2>3, <2>4, <2>5, <2>6, FreeTaskFacts, ChildDropped
<1>4. CASE Labels[call[c].i] # "task"
  <2>1. PICK h : task' = [task EXCEPT ![Child(c)].held = h]
    BY Zenon, <1>4 DEF Undo
  <2>2. TaskQuiet
    BY <1>2, <2>1, FieldsQuiet
  <2>3. PICK w : call' = [call EXCEPT ![c].i = w]
    BY Zenon, <1>4 DEF Undo
  <2> QED
    BY <1>1, <2>2, <2>3, IndexMoves DEF Building
<1> QED
  BY <1>3, <1>4

LEMMA PutChildStep == ASSUME FInv, NEW c \in Tasks, PutChild(c) PROVE FInv'
<1> DEFINE p == Child(c)
<1>1. call[c].op = "fork" /\ call[c].pc = "put" /\ Phase(call[c]) = "wait"
  BY DEF PutChild, At, Phase
<1>2. p \in Tasks /\ Fits(call[c], task[p]) /\ TaskShape(task[p]) /\ task[p].made \in Made
  BY <1>1, HasChild DEF FInv, Counted
<1>3. call' = [call EXCEPT ![c] = NoCall]
  BY DEF PutChild
<1>4. CASE task[p].usage > 1
  <2> DEFINE s == [task[p] EXCEPT !.usage = task[p].usage - 1]
  <2>1. task' = [task EXCEPT ![p] = s]
    BY <1>4 DEF PutChild, PutTask
  <2>2. /\ TaskShape(s) /\ s.st = task[p].st /\ s.made = task[p].made
        /\ s.fork_count = task[p].fork_count
    BY <1>2 DEF TaskShape, TaskFields
  <2> HIDE DEF s
  <2> QED
    BY <1>1, <1>2, <1>3, <2>1, <2>2, NoCallFacts, ChildDropped
<1>5. CASE ~ (task[p].usage > 1)
  <2>1. task' = [task EXCEPT ![p] = FreeTask]
    BY <1>5 DEF PutChild, PutTask
  <2>2. task[p].st = "dead"
    BY <1>1, <1>2, <1>5 DEF Fits
  <2> QED
    BY Zenon, <1>1, <1>3, <2>1, <2>2, FreeTaskFacts, NoCallFacts, ChildDropped
<1> QED
  BY <1>4, <1>5

(* The end of one task, whom a vfork may still wait for. *)
LEMMA TaskEnds ==
    ASSUME FInv, NEW t \in Tasks, TaskFrame({t}), CallFrame(t),
           Phase(call[t]) = "none", Phase(call'[t]) = "none", call'[t].child = None,
           Runs(call'[t], task'[t]), Counted(call'[t], task'[t]),
           \A d \in Tasks : Phase(call[d]) # "none" /\ call[d].child = t
                            => Fits(call[d], task'[t])
    PROVE  FInv'
<1>1. Shapes'
  BY DEF TaskFrame, CallFrame, Shapes
<1>2. ASSUME NEW x \in Tasks PROVE Runs(call'[x], task'[x]) /\ Counted(call'[x], task'[x])
  <2>1. CASE x = t
    BY <2>1
  <2>2. CASE x # t
    <3>1. CallSame(x) /\ Phase(call'[x]) = Phase(call[x]) /\ TaskSame(x)
      BY <2>2, SamePhase DEF CallFrame, TaskFrame
    <3> QED
      BY <3>1 DEF TaskSame, CallSame, FInv, Runs, Counted
  <2> QED
    BY <2>1, <2>2
<1>3. ASSUME NEW d \in Tasks
      PROVE  IF Phase(call'[d]) = "none" THEN call'[d].child = None
             ELSE call'[d].child \in Tasks \ {d} /\ Fits(call'[d], task'[call'[d].child])
  <2>1. CASE d = t
    BY <2>1
  <2>2. CASE d # t
    <3>1. CallSame(d) /\ Phase(call'[d]) = Phase(call[d])
      BY <2>2, SamePhase DEF CallFrame
    <3>2. CASE Phase(call[d]) = "none"
      BY <3>1, <3>2 DEF FInv, CallSame
    <3>3. CASE Phase(call[d]) # "none"
      <4> DEFINE q == call[d].child
      <4>1. q \in Tasks \ {d} /\ Fits(call[d], task[q])
        BY <3>3 DEF FInv
      <4>2. Fits(call[d], task'[q])
        <5>1. CASE q = t
          BY <3>3, <5>1
        <5>2. CASE q # t
          <6>1. TaskSame(q)
            BY <4>1, <5>2 DEF TaskFrame
          <6> QED
            BY Zenon, <4>1, <6>1 DEF Fits, TaskSame
        <5> QED
          BY <5>1, <5>2
      <4>3. Fits(call'[d], task'[q])
        BY <3>1, <4>2 DEF Fits, CallSame
      <4> QED
        BY <3>1, <3>3, <4>1, <4>3 DEF CallSame
    <3> QED
      BY <3>2, <3>3
  <2> QED
    BY <2>1, <2>2
<1>4. ASSUME NEW d \in Tasks, NEW e \in Tasks,
             call'[d].child = call'[e].child, call'[d].child # None
      PROVE  d = e
  BY <1>4 DEF FInv, CallFrame, CallSame
<1> QED
  BY <1>1, <1>2, <1>3, <1>4 DEF FInv

(* A fork that has created nothing returns; it may be noted as failed. *)
LEMMA ForkOutStep == ASSUME FInv, NEW c \in Tasks, fork_out(c) PROVE FInv'
<1>1. call[c].op = "fork" /\ Phase(call[c]) = "none" /\ call' = [call EXCEPT ![c] = NoCall]
  BY DEF fork_out, At, Phase
<1>2. /\ task[c].st = "awake" /\ TaskShape(task[c]) /\ task[c].made \in Made
      /\ task[c].fork_count = Created(task[c].made) - 0
  BY <1>1 DEF FInv, Shapes, Runs, Counted
<1> DEFINE m == CreatesNone(c)
           s == [task[c] EXCEPT !.made = m]
<1>3. m \in Made /\ Created(m) = Created(task[c].made)
  BY <1>2, CreatesFacts
<1>4. task' = [task EXCEPT ![c] = s]
  BY DEF fork_out
<1> HIDE DEF m
<1>5. /\ TaskShape(s) /\ s.st = "awake" /\ s.made = m
      /\ s.fork_count = task[c].fork_count /\ s.usage = task[c].usage
  BY <1>2 DEF TaskShape, TaskFields
<1> HIDE DEF s
<1>6. TaskFrame({c}) /\ task'[c] = s
  BY <1>4, <1>5, OneTaskWritten
<1>7. CallFrame(c) /\ call'[c] = NoCall
  BY <1>1, NoCallFacts, CallWritten
<1>8. Runs(call'[c], task'[c]) /\ Counted(call'[c], task'[c])
  BY <1>2, <1>3, <1>5, <1>6, <1>7, NoCallFacts DEF Runs, Counted
<1>9. ASSUME NEW d \in Tasks, Phase(call[d]) # "none", call[d].child = c
      PROVE  Fits(call[d], task'[c])
  <2>1. Fits(call[d], task[c])
    BY <1>9 DEF FInv
  <2> QED
    BY <1>2, <1>5, <1>6, <2>1 DEF Fits
<1> QED
  BY <1>1, <1>6, <1>7, <1>8, <1>9, NoCallFacts, TaskEnds

LEMMA ParentWritten ==
    ASSUME NEW r, TaskShape(r), NEW v
    PROVE  LikeTask([r EXCEPT !.parent = v], r)
BY DEF TaskShape, TaskFields, LikeTask

LEMMA ZombieWritten ==
    ASSUME NEW t, TaskShape(task[t])
    PROVE  /\ TaskShape(Zombie(t)) /\ Zombie(t).st = "zombie"
           /\ Zombie(t).made = task[t].made /\ Zombie(t).usage = task[t].usage
BY DEF Zombie, TaskShape, TaskFields

LEMMA FinishExitStep == ASSUME FInv, NEW t \in Tasks, FinishExit(t) PROVE FInv'
<1>1. call[t].op = "exit" /\ Phase(call[t]) = "none"
  BY DEF FinishExit, At, Phase
<1>2. task[t].st = "awake" /\ TaskShape(task[t]) /\ task[t].made \in Made
  BY <1>1 DEF FInv, Shapes, Runs, Counted
<1>3. PICK reaper : task' = [x \in Tasks |->
                  IF x = t THEN Zombie(t)
                  ELSE IF task[x].parent = t /\ Attached(x)
                       THEN [task[x] EXCEPT !.parent = reaper]
                  ELSE task[x]]
  BY DEF FinishExit
<1>4. /\ TaskShape(task'[t]) /\ task'[t].st = "zombie" /\ task'[t].made = task[t].made
      /\ task'[t].usage = task[t].usage
  <2>1. task'[t] = Zombie(t)
    BY <1>3
  <2> QED
    BY <1>2, <2>1, ZombieWritten
<1>5. ASSUME NEW x \in Tasks \ {t} PROVE TaskShape(task'[x]) /\ TaskSame(x)
  <2> DEFINE s == [task[x] EXCEPT !.parent = reaper]
  <2>1. TaskShape(task[x])
    BY DEF FInv, Shapes
  <2>2. LikeTask(s, task[x])
    BY <2>1, ParentWritten
  <2>3. task'[x] = s \/ task'[x] = task[x]
    BY <1>3
  <2> HIDE DEF s
  <2> QED
    BY <2>1, <2>2, <2>3 DEF LikeTask, TaskSame
<1>6. task' = [x \in Tasks |-> task'[x]]
  BY <1>3
<1>7. TaskFrame({t})
  BY <1>4, <1>5, <1>6 DEF TaskFrame
<1>8. CallFrame(t) /\ call'[t] = NoCall
  BY NoCallFacts, CallWritten DEF FinishExit
<1>9. Runs(call'[t], task'[t]) /\ Counted(call'[t], task'[t])
  BY <1>2, <1>4, <1>8, NoCallFacts DEF Runs, Counted
<1>10. ASSUME NEW d \in Tasks, Phase(call[d]) # "none", call[d].child = t
       PROVE  Fits(call[d], task'[t])
  <2>1. Fits(call[d], task[t])
    BY <1>10 DEF FInv
  <2> QED
    BY <1>2, <1>4, <2>1 DEF Fits
<1> QED
  BY <1>1, <1>7, <1>8, <1>9, <1>10, NoCallFacts, TaskEnds

LEMMA DeadWritten ==
    ASSUME NEW t, TaskShape(task[t])
    PROVE  /\ TaskShape(Dead(t)) /\ Dead(t).st = "dead"
           /\ Dead(t).made = task[t].made /\ Dead(t).usage = task[t].usage - 1
BY Zenon DEF Dead, TaskShape, TaskFields

LEMMA ReleaseStep == ASSUME FInv, NEW t \in Tasks, release_task(t) PROVE FInv'
<1>1. task[t].st = "zombie" /\ call[t].op = "none" /\ UNCHANGED call
  BY DEF release_task, FInv, Runs
<1>2. Phase(call[t]) = "none" /\ call[t].child = None /\ call[t].pc # "complete"
  BY <1>1 DEF FInv, Phase, Runs
<1>3. CallFrame(t)
  BY <1>1 DEF FInv, Shapes, CallFrame, CallSame
<1>4. TaskShape(task[t]) /\ task[t].made \in Made
  BY DEF FInv, Shapes, Counted
<1>5. ASSUME NEW d \in Tasks, Phase(call[d]) # "none", call[d].child = t
      PROVE  Phase(call[d]) = "wait" /\ task[t].usage = 2
  <2>1. Fits(call[d], task[t])
    BY <1>5 DEF FInv
  <2> QED
    BY <1>1, <1>5, <2>1 DEF Fits, Phase
<1>6. CASE task[t].usage = 1
  <2>1. task' = [task EXCEPT ![t] = FreeTask]
    BY <1>6 DEF release_task
  <2>2. TaskFrame({t}) /\ task'[t] = FreeTask
    BY <2>1, FreeTaskFacts, OneTaskWritten
  <2>3. Runs(call'[t], task'[t]) /\ Counted(call'[t], task'[t])
    BY <1>1, <1>2, <2>2, FreeTaskFacts DEF Runs, Counted
  <2> QED
    BY <1>1, <1>2, <1>3, <1>5, <1>6, <2>2, <2>3, TaskEnds
<1>7. CASE task[t].usage # 1
  <2>1. task' = [task EXCEPT ![t] = Dead(t)]
    BY <1>7 DEF release_task
  <2>2. /\ TaskShape(Dead(t)) /\ Dead(t).st = "dead"
        /\ Dead(t).made = task[t].made /\ Dead(t).usage = task[t].usage - 1
    BY <1>4, DeadWritten
  <2>4. TaskFrame({t}) /\ task'[t] = Dead(t)
    BY <2>1, <2>2, OneTaskWritten
  <2>5. Runs(call'[t], task'[t]) /\ Counted(call'[t], task'[t])
    BY <1>1, <1>2, <1>4, <2>2, <2>4 DEF Runs, Counted
  <2>6. ASSUME NEW d \in Tasks, Phase(call[d]) # "none", call[d].child = t
        PROVE  Fits(call[d], task'[t])
    BY <1>5, <2>2, <2>4, <2>6 DEF Fits
  <2> QED
    BY <1>1, <1>2, <1>3, <2>4, <2>5, <2>6, TaskEnds
<1> QED
  BY <1>6, <1>7

-----------------------------------------------------------------------------
LEMMA NextFInv == FInv /\ [Next]_vars => FInv'
<1> SUFFICES ASSUME FInv, [Next]_vars PROVE FInv'
  OBVIOUS
<1>1. ASSUME NEW t \in Tasks, ForkStep(t) PROVE FInv'
  BY <1>1, CollectSignalsStep, SignalPendingStep, DupStep, CheckNprocStep, CopyCredsStep,
     CheckLimitStep, CopyStepStep, AttachStep, AttachFailsStep, FinishForkStep, UndoStep, ForkOutStep,
     WakeStep, WaitStep, ClearVforkStep, PutChildStep
     DEF ForkStep
<1>2. ASSUME NEW t \in Tasks, ExitStep(t) PROVE FInv'
  BY <1>2, CompleteStep, FinishExecStep, FinishExitStep, ReleaseStep DEF ExitStep
<1>3. ASSUME NEW t \in Tasks,
             _do_fork(t) \/ CopyFails(t) \/ do_exec(t) \/ do_exit(t)
      PROVE  FInv'
  BY <1>3, DoForkStep, CopyFailsStep, ExecStep, DoExitStep
<1>4. ASSUME NEW t \in Tasks, ksys_unshare(t) \/ UnshareStep(t) \/ UnshareFails(t)
      PROVE  FInv'
  BY <1>4, UnshareBegins, UnshareSteps
<1>5. CASE KillGroup \/ sysctl_max_threads \/ (\E t \in Tasks : Kill(t) \/ Deliver(t))
           \/ UNCHANGED vars
  BY <1>5, SignalSteps
<1> QED
  BY <1>1, <1>2, <1>3, <1>4, <1>5 DEF Next

LEMMA AlwaysFInv == Spec => []FInv
BY InitFInv, NextFInv, PTL DEF Spec

(* fork_count, which copy_process adds to the task_struct, counts the tasks *)
(* that a running task has created, by fork() or otherwise, for every      *)
(* number of tasks and however forks fail, are interrupted, or overlap     *)
(* with exec, exit and unshare.  It is the number of its calls of fork()   *)
(* just if as many calls of fork() failed as tasks were created otherwise. *)
THEOREM ForksCounted == Spec => []ForkCounted
<1>1. FInv => ForkCounted
  <2> SUFFICES ASSUME FInv, NEW t \in Tasks, task[t].st = "awake"
               PROVE  LET made == task[t].made
                      IN  IF call[t].op = "fork" /\ call[t].pc = "finish"
                          THEN task[t].fork_count = made.fork + made.other - 1
                          ELSE /\ task[t].fork_count = made.fork + made.other
                               /\ task[t].fork_count = made.fork + made.failed
                                     <=> made.other = made.failed
    BY DEF ForkCounted
  <2>1. Counted(call[t], task[t])
    BY DEF FInv
  <2>2. Phase(call[t]) = "finish" <=> call[t].op = "fork" /\ call[t].pc = "finish"
    BY DEF Phase
  <2> QED
    BY <2>1, <2>2 DEF Counted, Created, Made
<1> QED
  BY <1>1, AlwaysFInv, PTL

(* The task_struct of the child outlives every use _do_fork makes of it,   *)
(* by the reference that get_task_struct takes for a vfork: the child may  *)
(* run, exit and be released by its parent before the vfork is told.       *)
THEOREM ChildStays == Spec => []ChildHeld
<1>1. FInv => ChildHeld
  <2> SUFFICES ASSUME FInv, NEW c \in Tasks, Child(c) # None, ~ Forking(c)
               PROVE  task[Child(c)].st # "free" /\ task[Child(c)].usage > 0
    BY DEF ChildHeld
  <2>1. Phase(call[c]) # "none"
    BY DEF FInv, Child
  <2>2. Fits(call[c], task[Child(c)])
    BY <2>1, HasChild
  <2> QED
    BY <2>1, <2>2 DEF Fits, Phase
<1> QED
  BY <1>1, AlwaysFInv, PTL
=============================================================================
