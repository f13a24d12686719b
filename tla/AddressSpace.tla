---------------------------- MODULE AddressSpace ----------------------------
(***************************************************************************)
(* The life of a struct mm_struct: dup_mm with dup_mmap, get_task_mm,      *)
(* mmput, mmdrop and exe_file (Assignment2-1/fork.c), together with        *)
(* file_varea (Assignment3-1/file_varea.c), which walks the areas of       *)
(* another process.  mmap, munmap, exec, exit and the out-of-memory killer *)
(* are external.                                                           *)
(*                                                                         *)
(* mm_users counts the users of the areas, mm_count the users of the       *)
(* structure itself; all the users together have one of the latter.        *)
(***************************************************************************)
EXTENDS Integers, Sequences, FiniteSets, SequencesExt, FiniteSetsExt

CONSTANTS
    Procs,      \* the task_structs
    First,      \* the processes at the start: they share FirstMm
    FirstMm,
    Mms,        \* the mm_structs
    None,
    Tracer,     \* a caller of file_varea, mm_access or get_task_exe_file
    Layout,     \* the areas at the start
    Extra,      \* an area that mmap adds
    Limit,      \* pages that may be committed
    MaxCalls,   \* bound: calls of fork, exec, mmap and munmap
    MaxTraces,  \* bound: calls by Tracer
    MaxEvents   \* bound: failures, fatal signals and victims of the OOM killer

Actors == Procs \cup {Tracer}

(* VM_ACCOUNT, VM_DONTCOPY and vm_file of an area. *)
Area == [start : Nat, pages : Nat, account : BOOLEAN, dontcopy : BOOLEAN, file : BOOLEAN]

(* What is counted globally, and how much of it an area has. *)
Resources == {"charge", "area", "policy", "file", "module"}

OfArea(x) ==
    [charge |-> IF x.account THEN x.pages ELSE 0, area |-> 1, policy |-> 1,
     file |-> IF x.file THEN 1 ELSE 0, module |-> 0]

SumOver(list, f(_)) == MapThenSumSet(LAMBDA i : f(list[i]), DOMAIN list)
Pages(list) == SumOver(list, LAMBDA x : x.pages)

Mm == [live : BOOLEAN, users : Nat, count : Nat, list : Seq(Area), total : Int,
       writer : Actors \cup {None}, readers : SUBSET Actors,
       exe : BOOLEAN, binfmt : BOOLEAN]

NoMm == [live |-> FALSE, users |-> 0, count |-> 0, list |-> <<>>, total |-> 0,
         writer |-> None, readers |-> {}, exe |-> FALSE, binfmt |-> FALSE]

(* oom is signal->oom_mm. *)
Task == [st : {"free", "alive", "zombie"}, mm : Mms \cup {None}, oom : Mms \cup {None}]

Ops == {"none", "fork", "exec", "exit", "varea", "access", "exe"}

Pcs == {"idle", "lock", "copy", "dup", "anon", "policy", "nomem", "unlock", "module",
        "free_pt", "swap", "getmm", "read", "walk", "upread", "put",
        "exit_mmap", "lazy", "signal", "fput"}

(* new: the mm a call builds.  cur: the mm whose reference it has.  snap:  *)
(* the list when the lock was taken.  ok: retval is 0.  out: the areas     *)
(* that file_varea has printed.  whole: it did not break off.              *)
Call == [op : Ops, pc : Pcs, new : Mms \cup {None}, cur : Mms \cup {None},
         task : Procs \cup {None}, vma : Area \cup {None}, snap : Seq(Area),
         held : SUBSET Resources, ok : BOOLEAN, out : Seq(Area), whole : BOOLEAN]

NoCall == [op |-> "none", pc |-> "idle", new |-> None, cur |-> None, task |-> None,
           vma |-> None, snap |-> <<>>, held |-> {}, ok |-> TRUE, out |-> <<>>,
           whole |-> TRUE]

VARIABLES
    mm, task, call,
    used,       \* what is allocated of each resource
    work,       \* async_put_work: <<function, mm>>
    left

vars == <<mm, task, call, used, work, left>>

ASSUME AddressSpaceAssumption ==
    /\ First \subseteq Procs /\ First # {} /\ FirstMm \in Mms
    /\ Layout \in Seq(Area) /\ Extra \in Area
    /\ Limit \in Nat /\ MaxCalls \in Nat /\ MaxTraces \in Nat /\ MaxEvents \in Nat

Init ==
    /\ mm = [m \in Mms |-> IF m # FirstMm THEN NoMm ELSE
              [NoMm EXCEPT !.live = TRUE, !.users = Cardinality(First), !.count = 1,
                           !.list = Layout, !.total = Pages(Layout),
                           !.exe = TRUE, !.binfmt = TRUE]]
    /\ task = [p \in Procs |-> [st |-> IF p \in First THEN "alive" ELSE "free",
                                mm |-> IF p \in First THEN FirstMm ELSE None,
                                oom |-> None]]
    /\ call = [a \in Actors |-> NoCall]
    /\ used = [r \in Resources |-> SumOver(Layout, LAMBDA x : OfArea(x)[r])
                                   + IF r \in {"file", "module"} THEN 1 ELSE 0]
    /\ work = {}
    /\ left = [calls |-> MaxCalls, traces |-> MaxTraces, events |-> MaxEvents]

-----------------------------------------------------------------------------
At(a, op, pc) == call[a].op = op /\ call[a].pc = pc
Step(a, pc) == call' = [call EXCEPT ![a].pc = pc]
Return(a) == call' = [call EXCEPT ![a] = NoCall]
AfterPut(a) == IF call[a].op = "exit" THEN Step(a, "lazy") ELSE Return(a)
Idle(p) == task[p].st = "alive" /\ call[p].op = "none"

Event == left.events > 0 /\ left' = [left EXCEPT !.events = @ - 1]
Begin == left.calls > 0 /\ left' = [left EXCEPT !.calls = @ - 1]

Take(r, n) == [used EXCEPT ![r] = @ + n]
Bit(b) == IF b THEN 1 ELSE 0

(* down_write and down_read of mmap_sem. *)
CanWrite(m) == mm[m].writer = None /\ mm[m].readers = {}
CanRead(m) == mm[m].writer = None

-----------------------------------------------------------------------------
(***************************************************************************)
(* mmput, mmput_async, mmdrop and mmdrop_async.                            *)
(***************************************************************************)
mmput(a) ==
    LET m == call[a].cur
    IN  /\ call[a].pc = "put"
        /\ mm' = [mm EXCEPT ![m].users = @ - 1]
        /\ IF mm[m].users = 1 THEN Step(a, "exit_mmap") ELSE AfterPut(a)
        /\ UNCHANGED <<task, used, work, left>>

(* A caller of mm_access that may not sleep (external). *)
mmput_async(a) ==
    LET m == call[a].cur
    IN  /\ At(a, "access", "put")
        /\ mm' = [mm EXCEPT ![m].users = @ - 1]
        /\ work' = IF mm[m].users = 1 THEN work \cup {<<"mmput", m>>} ELSE work
        /\ Return(a)
        /\ UNCHANGED <<task, used, left>>

(* mmdrop: the last one frees the structure. *)
mmdrop(m, rec) == IF rec.count = 1 THEN [mm EXCEPT ![m] = NoMm]
                  ELSE [mm EXCEPT ![m] = [rec EXCEPT !.count = @ - 1]]

(* exit_mmap, set_mm_exe_file(NULL), module_put and mmdrop. *)
__mmput(m) ==
    /\ used' = [r \in Resources |->
                  used[r] - SumOver(mm[m].list, LAMBDA x : OfArea(x)[r])
                          - Bit(r = "file" /\ mm[m].exe)
                          - Bit(r = "module" /\ mm[m].binfmt)]
    /\ mm' = mmdrop(m, [mm[m] EXCEPT !.list = <<>>, !.exe = FALSE, !.binfmt = FALSE])

LastPut(a) ==
    /\ call[a].pc = "exit_mmap"
    /\ __mmput(call[a].cur)
    /\ AfterPut(a)
    /\ UNCHANGED <<task, work, left>>

(* mmput_async_fn and mmdrop_async_fn, in a kworker. *)
DoWork ==
    /\ \E w \in work :
          /\ work' = work \ {w}
          /\ IF w[1] = "mmput" THEN __mmput(w[2])
             ELSE mm' = [mm EXCEPT ![w[2]] = NoMm] /\ UNCHANGED used
    /\ UNCHANGED <<task, call, left>>

-----------------------------------------------------------------------------
(***************************************************************************)
(* fork: copy_mm, dup_mm and dup_mmap.                                     *)
(***************************************************************************)
FreeProc == {c \in Procs : task[c].st = "free" /\ \A p \in Procs : call[p].task # c}

(* Mutant: no mmget. *)
SharedUncounted(m) == mm

SharedMm(m) == [mm EXCEPT ![m].users = @ + 1]

(* CLONE_VM. *)
ShareMm(p) ==
    LET m == task[p].mm
    IN  /\ Idle(p) /\ m # None /\ Begin
        /\ \E c \in FreeProc :
              task' = [task EXCEPT ![c] = [st |-> "alive", mm |-> m, oom |-> None]]
        /\ mm' = SharedMm(m)
        /\ UNCHANGED <<call, used, work>>

(* allocate_mm, the memcpy and mm_init; when they fail nothing is left. *)
dup_mm(p) ==
    /\ Idle(p) /\ task[p].mm # None /\ Begin
    /\ \E c \in FreeProc, m \in {x \in Mms : ~ mm[x].live} :
          /\ mm' = [mm EXCEPT ![m] = [mm[task[p].mm] EXCEPT !.users = 1, !.count = 1,
                        !.list = <<>>, !.writer = None, !.readers = {}, !.exe = FALSE]]
          /\ call' = [call EXCEPT ![p] = [NoCall EXCEPT !.op = "fork", !.pc = "lock",
                                                        !.new = m, !.task = c]]
    /\ UNCHANGED <<task, used, work>>

(* Mutant: readers are not waited for. *)
DupLockShared(m) == mm[m].writer = None

DupLock(m) == CanWrite(m)

(* The position of an area in the list after x; None at the end. *)
Follow(list, x) ==
    LET after == {i \in DOMAIN list : i > 1 /\ list[i - 1] = x}
    IN  IF after = {} THEN None ELSE list[CHOOSE i \in after : TRUE]
Front0(list) == IF list = <<>> THEN None ELSE list[1]

(* down_write_killable succeeds or is interrupted; ksm_fork and            *)
(* khugepaged_fork may fail.                                               *)
LockBoth(p) ==
    LET o == task[p].mm
        n == call[p].new
    IN  /\ At(p, "fork", "lock")
        /\ \/ /\ DupLock(o)
              /\ mm' = [mm EXCEPT ![o].writer = p, ![n].writer = p, ![n].exe = mm[o].exe,
                                  ![n].total = mm[o].total]
              /\ used' = Take("file", Bit(mm[o].exe))
              /\ \/ /\ call' = [call EXCEPT ![p].pc = "copy", ![p].snap = mm[o].list,
                                            ![p].vma = Front0(mm[o].list)]
                    /\ UNCHANGED left
                 \/ /\ Event
                    /\ call' = [call EXCEPT ![p].pc = "unlock", ![p].ok = FALSE]
           \/ /\ Event /\ Step(p, "free_pt")
              /\ UNCHANGED <<mm, used>>
        /\ UNCHANGED <<task, work>>

(* Mutant: the pages of the area stay in total_vm. *)
SkippedPagesKept(x) == 0

SkippedPages(x) == x.pages

(* One round of the loop, to vm_area_dup. *)
CopyArea(p) ==
    LET x == call[p].vma
        n == call[p].new
    IN  /\ At(p, "fork", "copy")
        /\ \/ /\ x = None
              /\ \/ Step(p, "unlock") /\ UNCHANGED left
                 \/ Event /\ call' = [call EXCEPT ![p].pc = "unlock", ![p].ok = FALSE]
              /\ UNCHANGED <<mm, used>>
           \/ /\ x # None /\ x.dontcopy
              /\ mm' = [mm EXCEPT ![n].total = @ - SkippedPages(x)]
              /\ call' = [call EXCEPT ![p].vma = Follow(mm[task[p].mm].list, x)]
              /\ UNCHANGED <<used, left>>
           \/ /\ x # None /\ ~ x.dontcopy
              /\ Event
              /\ call' = [call EXCEPT ![p].pc = "unlock", ![p].ok = FALSE]
              /\ UNCHANGED <<mm, used>>
           \/ /\ x # None /\ ~ x.dontcopy
              /\ LET len == OfArea(x).charge
                 IN  IF used["charge"] + len > Limit /\ len > 0
                     THEN /\ call' = [call EXCEPT ![p].pc = "nomem", ![p].ok = FALSE]
                          /\ UNCHANGED used
                     ELSE /\ call' = [call EXCEPT ![p].pc = "dup",
                                                  ![p].held = IF len > 0 THEN {"charge"} ELSE {}]
                          /\ used' = Take("charge", len)
              /\ UNCHANGED <<mm, left>>
        /\ UNCHANGED <<task, work>>

(* vm_area_dup, the policy and the anon_vma; the file, and the link into   *)
(* the new list; copy_page_range, which may fail when all that is done.    *)
DupArea(p) ==
    LET x == call[p].vma
        n == call[p].new
    IN  /\ At(p, "fork", "dup")
        /\ used' = [used EXCEPT !["area"] = @ + 1, !["policy"] = @ + 1,
                                !["file"] = @ + OfArea(x).file]
        /\ mm' = [mm EXCEPT ![n].list = Append(@, x)]
        /\ \/ /\ call' = [call EXCEPT ![p].pc = "copy", ![p].held = {},
                                      ![p].vma = Follow(mm[task[p].mm].list, x)]
              /\ UNCHANGED left
           \/ /\ Event
              /\ call' = [call EXCEPT ![p].pc = "unlock", ![p].held = {}, ![p].ok = FALSE]
        /\ UNCHANGED <<task, work>>

(* Each failure with what is held then, and its label. *)
DupFails(p) ==
    /\ At(p, "fork", "dup") /\ Event
    /\ \E f \in {[label |-> "nomem", got |-> {}],
                 [label |-> "policy", got |-> {"area"}],
                 [label |-> "anon", got |-> {"area", "policy"}]} :
          /\ used' = [r \in Resources |-> used[r] + Bit(r \in f.got)]
          /\ call' = [call EXCEPT ![p].pc = f.label, ![p].held = @ \cup f.got, ![p].ok = FALSE]
    /\ UNCHANGED <<mm, task, work>>

(* Mutant: the charge is kept. *)
UnchargeNothing(p) == 0

(* vm_unacct_memory(charge) *)
Uncharge(p) == IF "charge" \in call[p].held THEN OfArea(call[p].vma).charge ELSE 0

(* fail_nomem_anon_vma_fork, fail_nomem_policy and fail_nomem. *)
DupUnwind(p) ==
    /\ \/ /\ At(p, "fork", "anon")
          /\ used' = Take("policy", -1)
          /\ call' = [call EXCEPT ![p].pc = "policy", ![p].held = @ \ {"policy"}]
       \/ /\ At(p, "fork", "policy")
          /\ used' = Take("area", -1)
          /\ call' = [call EXCEPT ![p].pc = "nomem", ![p].held = @ \ {"area"}]
       \/ /\ At(p, "fork", "nomem")
          /\ used' = Take("charge", - Uncharge(p))
          /\ call' = [call EXCEPT ![p].pc = "unlock", ![p].held = {}]
    /\ UNCHANGED <<mm, task, work, left>>

UnlockBoth(p) ==
    /\ At(p, "fork", "unlock")
    /\ mm' = [mm EXCEPT ![task[p].mm].writer = None, ![call[p].new].writer = None]
    /\ Step(p, IF call[p].ok THEN "module" ELSE "free_pt")
    /\ UNCHANGED <<task, used, work, left>>

(* try_module_get fails when the module is being unloaded.  With copy_mm,  *)
(* which gives the mm to the child.                                        *)
FinishDup(p) ==
    LET n == call[p].new
    IN  /\ At(p, "fork", "module")
        /\ \/ /\ mm[n].binfmt /\ Event /\ Step(p, "free_pt")
              /\ UNCHANGED <<task, used>>
           \/ /\ task' = [task EXCEPT ![call[p].task] = [st |-> "alive", mm |-> n, oom |-> None]]
              /\ used' = Take("module", Bit(mm[n].binfmt))
              /\ Return(p)
              /\ UNCHANGED left
        /\ UNCHANGED <<mm, work>>

(* Mutant: what memcpy copied stays. *)
KeepBinfmt(m) == mm[m].binfmt

ClearBinfmt(m) == FALSE

(* "don't put binfmt in mmput, we haven't got module yet" *)
FreePt(p) ==
    /\ At(p, "fork", "free_pt")
    /\ mm' = [mm EXCEPT ![call[p].new].binfmt = ClearBinfmt(call[p].new)]
    /\ call' = [call EXCEPT ![p].pc = "put", ![p].cur = call[p].new, ![p].new = None]
    /\ UNCHANGED <<task, used, work, left>>

-----------------------------------------------------------------------------
(***************************************************************************)
(* The rest of the kernel (external).                                      *)
(***************************************************************************)

(* mmap and munmap, with mmap_sem held for writing. *)
MapArea(p) ==
    LET m == task[p].mm
    IN  /\ Idle(p) /\ m # None /\ Begin
        /\ CanWrite(m) /\ Extra \notin Range(mm[m].list)
        /\ used["charge"] + OfArea(Extra).charge <= Limit
        /\ mm' = [mm EXCEPT ![m].list = Append(@, Extra), ![m].total = @ + Extra.pages]
        /\ used' = [r \in Resources |-> used[r] + OfArea(Extra)[r]]
        /\ UNCHANGED <<task, call, work>>

UnmapArea(p) ==
    LET m == task[p].mm
    IN  /\ Idle(p) /\ m # None /\ Begin
        /\ CanWrite(m)
        /\ \E x \in Range(mm[m].list) :
              /\ mm' = [mm EXCEPT ![m].list = SelectSeq(@, LAMBDA y : y # x),
                                  ![m].total = @ - x.pages]
              /\ used' = [r \in Resources |-> used[r] - OfArea(x)[r]]
        /\ UNCHANGED <<task, call, work>>

(* exec: mm_alloc and set_mm_exe_file, then the exchange under task_lock   *)
(* and set_binfmt.                                                         *)
mm_alloc(p) ==
    /\ Idle(p) /\ task[p].mm # None /\ Begin
    /\ \E m \in {x \in Mms : ~ mm[x].live} :
          /\ mm' = [mm EXCEPT ![m] = [NoMm EXCEPT !.live = TRUE, !.users = 1, !.count = 1,
                                                  !.exe = TRUE]]
          /\ call' = [call EXCEPT ![p] = [NoCall EXCEPT !.op = "exec", !.pc = "swap", !.new = m]]
    /\ used' = Take("file", 1)
    /\ UNCHANGED <<task, work>>

ExecSwap(p) ==
    /\ At(p, "exec", "swap")
    /\ task' = [task EXCEPT ![p].mm = call[p].new]
    /\ mm' = [mm EXCEPT ![call[p].new].binfmt = TRUE]
    /\ used' = Take("module", 1)
    /\ call' = [call EXCEPT ![p].pc = "put", ![p].cur = task[p].mm, ![p].new = None]
    /\ UNCHANGED <<work, left>>

(* exit_mm: mmgrab for the lazy use, task->mm = NULL, mmput. *)
exit_mm(p) ==
    /\ Idle(p) /\ task[p].mm # None
    /\ task' = [task EXCEPT ![p].mm = None, ![p].st = "zombie"]
    /\ mm' = [mm EXCEPT ![task[p].mm].count = @ + 1]
    /\ call' = [call EXCEPT ![p] = [NoCall EXCEPT !.op = "exit", !.pc = "put",
                                                  !.cur = task[p].mm]]
    /\ UNCHANGED <<used, work, left>>

(* mark_oom_victim keeps the mm_struct until the signal_struct is freed. *)
MarkVictim(p) ==
    LET m == task[p].mm
    IN  /\ task[p].st = "alive" /\ m # None /\ task[p].oom = None /\ Event
        /\ task' = [task EXCEPT ![p].oom = m]
        /\ mm' = [mm EXCEPT ![m].count = @ + 1]
        /\ UNCHANGED <<call, used, work>>

(* finish_task_switch: mmdrop, and the last reference to the task. *)
FreeTask(p) == task' = [task EXCEPT ![p] = [st |-> "free", mm |-> None, oom |-> None]]

EndLazy(p) ==
    /\ At(p, "exit", "lazy")
    /\ mm' = mmdrop(call[p].cur, mm[call[p].cur])
    /\ IF task[p].oom = None THEN FreeTask(p) /\ Return(p)
       ELSE UNCHANGED task /\ call' = [call EXCEPT ![p].pc = "signal", ![p].cur = None]
    /\ UNCHANGED <<used, work, left>>

(* With mmdrop_async. *)
free_signal_struct(p) ==
    LET m == task[p].oom
    IN  /\ At(p, "exit", "signal")
        /\ mm' = [mm EXCEPT ![m].count = @ - 1]
        /\ work' = IF mm[m].count = 1 THEN work \cup {<<"mmdrop", m>>} ELSE work
        /\ FreeTask(p) /\ Return(p)
        /\ UNCHANGED <<used, left>>

-----------------------------------------------------------------------------
(***************************************************************************)
(* file_varea, and the other users of get_task_mm.                         *)
(***************************************************************************)

(* pid_task.  The task is not held, by a reference or by an RCU lock: it   *)
(* may exit, and its structure may be used for another task, before the    *)
(* next step.  The kernel is not preemptible, so that the memory of the    *)
(* structure is not given to anything else meanwhile.                      *)
pid_task ==
    /\ call[Tracer].op = "none" /\ left.traces > 0
    /\ \E p \in Procs, op \in {"varea", "access", "exe"} :
          /\ task[p].st # "free"
          /\ call' = [call EXCEPT ![Tracer] = [NoCall EXCEPT !.op = op, !.pc = "getmm",
                                                             !.task = p]]
    /\ left' = [left EXCEPT !.traces = @ - 1]
    /\ UNCHANGED <<mm, task, used, work>>

(* Mutant: the mm is only looked at. *)
GotUncounted(m) == mm

GotMm(m) == [mm EXCEPT ![m].users = @ + 1]

(* mm_access puts the mm when ptrace_may_access says no, or its caller     *)
(* does after use.                                                         *)
get_task_mm ==
    LET m == task[call[Tracer].task].mm
    IN  /\ call[Tracer].pc = "getmm" /\ call[Tracer].op # "exe"
        /\ IF m = None THEN Return(Tracer) /\ UNCHANGED mm
           ELSE /\ mm' = GotMm(m)
                /\ call' = [call EXCEPT ![Tracer].cur = m, ![Tracer].pc =
                                IF call[Tracer].op = "varea" THEN "read" ELSE "put"]
        /\ UNCHANGED <<task, used, work, left>>

get_task_exe_file ==
    LET m == task[call[Tracer].task].mm
    IN  /\ At(Tracer, "exe", "getmm")
        /\ IF m # None /\ mm[m].exe
           THEN Step(Tracer, "fput") /\ used' = Take("file", 1)
           ELSE Return(Tracer) /\ UNCHANGED used
        /\ UNCHANGED <<mm, task, work, left>>

fput ==
    /\ At(Tracer, "exe", "fput")
    /\ used' = Take("file", -1)
    /\ Return(Tracer)
    /\ UNCHANGED <<mm, task, work, left>>

(* Mutant: the list is walked without the lock. *)
ReadUnlocked(m) == mm

ReadLocked(m) == [mm EXCEPT ![m].readers = @ \cup {Tracer}]

DownRead ==
    LET m == call[Tracer].cur
    IN  /\ At(Tracer, "varea", "read") /\ CanRead(m)
        /\ mm' = ReadLocked(m)
        /\ call' = [call EXCEPT ![Tracer].pc = "walk", ![Tracer].snap = mm[m].list,
                                ![Tracer].vma = Front0(mm[m].list)]
        /\ UNCHANGED <<task, used, work, left>>

(* Mutant: a return in the place of the break. *)
BreakReturns == "put"

BreakTo == "upread"

(* An area with a file is printed; without memory for its path the walk    *)
(* ends.                                                                   *)
Walk ==
    LET x == call[Tracer].vma
        next == Follow(mm[call[Tracer].cur].list, x)
    IN  /\ At(Tracer, "varea", "walk")
        /\ \/ /\ x = None /\ Step(Tracer, "upread")
              /\ UNCHANGED left
           \/ /\ x # None
              /\ call' = [call EXCEPT ![Tracer].vma = next,
                                      ![Tracer].out = IF x.file THEN Append(@, x) ELSE @]
              /\ UNCHANGED left
           \/ /\ x # None /\ x.file /\ Event
              /\ call' = [call EXCEPT ![Tracer].pc = BreakTo, ![Tracer].whole = FALSE]
        /\ UNCHANGED <<mm, task, used, work>>

UpRead ==
    /\ At(Tracer, "varea", "upread")
    /\ mm' = [mm EXCEPT ![call[Tracer].cur].readers = @ \ {Tracer}]
    /\ Step(Tracer, "put")
    /\ UNCHANGED <<task, used, work, left>>

-----------------------------------------------------------------------------
Put(a) == mmput(a) \/ mmput_async(a) \/ LastPut(a)

ForkStep(p) ==
    \/ LockBoth(p) \/ CopyArea(p) \/ DupArea(p) \/ DupFails(p) \/ DupUnwind(p)
    \/ UnlockBoth(p) \/ FinishDup(p) \/ FreePt(p)

TracerStep == \/ get_task_mm \/ get_task_exe_file \/ fput \/ DownRead \/ Walk \/ UpRead

ProcNext(p) ==
    \/ ShareMm(p) \/ dup_mm(p) \/ ForkStep(p) \/ MapArea(p) \/ UnmapArea(p)
    \/ mm_alloc(p) \/ ExecSwap(p) \/ exit_mm(p) \/ EndLazy(p) \/ MarkVictim(p)
    \/ free_signal_struct(p)

Next ==
    \/ \E p \in Procs : ProcNext(p)
    \/ \E a \in Actors : Put(a)
    \/ pid_task \/ TracerStep \/ DoWork

Spec == Init /\ [][Next]_vars

(* A call that can go on does; nobody has to make one. *)
FairSpec ==
    /\ Spec
    /\ \A a \in Actors : WF_vars(Put(a))
    /\ \A p \in Procs : WF_vars(ForkStep(p) \/ ExecSwap(p) \/ EndLazy(p) \/ free_signal_struct(p))
    /\ WF_vars(TracerStep) /\ WF_vars(DoWork)

-----------------------------------------------------------------------------
(***************************************************************************)
(* Properties.                                                             *)
(***************************************************************************)

(* The state is well-formed: no count goes below zero. *)
TypeOK ==
    /\ mm \in [Mms -> Mm] /\ task \in [Procs -> Task] /\ call \in [Actors -> Call]
    /\ used \in [Resources -> Nat]
    /\ work \subseteq {"mmput", "mmdrop"} \X Mms

(* The calls that have a reference to the areas of m: to the mm they       *)
(* build, or to the one they took and have not put.                        *)
Users(m) == {a \in Actors : \/ call[a].new = m
                            \/ /\ call[a].cur = m
                               /\ call[a].pc \notin {"exit_mmap", "lazy"}}
Ending(m) == \/ <<"mmput", m>> \in work
             \/ \E a \in Actors : call[a].cur = m /\ call[a].pc = "exit_mmap"

(* What the areas, the mms and the calls under way have of a resource. *)
HeldBy(a, r) ==
    IF r \notin call[a].held THEN 0
    ELSE IF r = "charge" THEN OfArea(call[a].vma).charge ELSE 1
Owned(r) ==
    MapThenSumSet(LAMBDA m : SumOver(mm[m].list, LAMBDA x : OfArea(x)[r])
                             + Bit(r = "file" /\ mm[m].exe) + Bit(r = "module" /\ mm[m].binfmt),
                  Mms)
    + MapThenSumSet(LAMBDA a : HeldBy(a, r) + Bit(r = "file" /\ call[a].pc = "fput"), Actors)

(* dup_mm holds a copy of binfmt before it has the module. *)
Borrowed(r) ==
    Cardinality({p \in Procs : /\ r = "module" /\ call[p].op = "fork" /\ call[p].new # None
                               /\ mm[call[p].new].binfmt})

(* mm_users and mm_count are the numbers of references, whatever forks     *)
(* fail and whoever puts last; the structure is freed with the last one.   *)
(* Committed pages, vm_area_structs, policies, files and the binfmt module *)
(* are accounted for exactly at every step, on the paths through           *)
(* fail_nomem*, out and free_pt too: nothing leaks and nothing is put      *)
(* twice.                                                                  *)
CountsExact ==
    /\ TypeOK
    /\ \A m \in Mms :
          /\ mm[m].users = Cardinality({p \in Procs : task[p].mm = m}) + Cardinality(Users(m))
          /\ mm[m].count = Bit(mm[m].users > 0 \/ Ending(m))
                           + Cardinality({a \in Actors : call[a].op = "exit" /\ call[a].cur = m})
                           + Cardinality({p \in Procs : task[p].oom = m})
          /\ mm[m].live <=> mm[m].count > 0 \/ <<"mmdrop", m>> \in work
    /\ \A r \in Resources : used[r] = Owned(r) - Borrowed(r)

(* The child has the areas that the parent had when the lock was taken,    *)
(* but not those with VM_DONTCOPY, and total_vm is their size, whatever    *)
(* other threads map or unmap meanwhile.                                   *)
ForkCopies ==
    \A p \in Procs : At(p, "fork", "module") =>
        LET n == mm[call[p].new]
        IN  /\ n.list = SelectSeq(call[p].snap, LAMBDA x : ~ x.dontcopy)
            /\ n.total = Pages(n.list)

(* The area that dup_mmap or file_varea looks at is in the list of an mm   *)
(* that has users: it cannot have been unmapped or freed.  mmap_sem keeps  *)
(* the two apart.  file_varea prints the files of one state of the list,   *)
(* in order; when it breaks off, those at its beginning.                   *)
WalkSnapshot ==
    /\ \A m \in Mms : mm[m].writer # None => mm[m].readers = {}
    /\ \A a \in Actors : call[a].vma # None /\ call[a].pc # "put" =>
          LET m == IF a = Tracer THEN call[a].cur ELSE task[a].mm
          IN  call[a].pc \in {"copy", "dup", "anon", "policy", "nomem", "walk"} =>
                  m # None /\ mm[m].users > 0 /\ call[a].vma \in Range(mm[m].list)
    /\ At(Tracer, "varea", "upread") =>
          LET all == SelectSeq(call[Tracer].snap, LAMBDA x : x.file)
          IN  IF call[Tracer].whole THEN call[Tracer].out = all
              ELSE IsPrefix(call[Tracer].out, all)

(* Every call of fork, exec, exit and file_varea returns, and the work     *)
(* that was put off is done: nobody waits for mmap_sem for ever.           *)
CallsReturn == []<>(work = {} /\ \A a \in Actors : call[a].op = "none")

=============================================================================
