----------------------------- MODULE KernelFork -----------------------------
(***************************************************************************)
(* Assignment2/Assignment2-1/fork.c, the kernel's process creation with    *)
(* the counter fork_count: fork, vfork, clone, clone3 and unshare, run by  *)
(* several tasks at once, with every failure path of copy_process, signals *)
(* that arrive during a fork, exec, exit and the freeing of tasks.         *)
(*                                                                         *)
(* A task owns resources.  Five of them are objects with a reference       *)
(* count, which tasks share (Kinds); the others belong to one task.  What  *)
(* fork.c calls in other files of the kernel is external, and so are exec, *)
(* exit and signal delivery; they are modelled as fork.c relies on them.   *)
(***************************************************************************)
EXTENDS Integers, Sequences, FiniteSets

CONSTANTS
    Tasks,      \* the task_structs
    Root, User, \* pid 1, and a process or thread it has started
    Starts,     \* how it begins, with the bounds: records of Beginnings
    None,
    Unshares,   \* the arguments of unshare
    Nproc,      \* RLIMIT_NPROC
    Limits      \* values of max_threads, set through sysctl_max_threads

Flags == {"VM", "FS", "FILES", "SIGHAND", "THREAD", "VFORK", "PARENT", "PIDFD",
          "DETACHED", "PARENT_SETTID", "NEWNS", "NEWUSER", "NEWPID", "UNTRACED"}

Entries == {"fork", "vfork", "clone", "clone3", "kernel_thread"}

(* wellFormed: clone3 could read the structure, and the size, the signal   *)
(* number and the stack in it are valid.                                   *)
ForkCalls == [entry : Entries, flags : SUBSET Flags, exit_signal : BOOLEAN,
              wellFormed : BOOLEAN]

Kinds == {"files", "fs", "sighand", "signal", "mm"}

(* What Root and User share at first; and bounds: the calls of _do_fork    *)
(* that may be made, the number of calls of _do_fork and ksys_unshare, and *)
(* of failures, signals, calls of exec and writes to the sysctl.           *)
Beginnings == [shared : SUBSET Kinds, forks : SUBSET ForkCalls, calls : Nat, events : Nat]

Objs == 1 .. Cardinality(Tasks) + 1

(* What copy_process acquires after the checks, in its order. *)
Order == <<"policy", "perf", "audit", "security", "semundo", "files", "fs", "sighand",
           "signal", "mm", "namespaces", "io", "thread", "pid", "pidfd",
           "threadgroup", "cgroup">>

(* The labels bad_fork_*, in the order they are passed through, each named *)
(* for what it releases.                                                   *)
Labels == <<"cgroup", "threadgroup", "pidfd", "pid", "thread", "io", "namespaces",
            "mm", "signal", "sighand", "fs", "files", "semundo", "security",
            "audit", "perf", "policy", "delayacct", "count", "task">>

(* Mutant: what could not be had is released. *)
FailLabelOwn == [r \in {Order[i] : i \in DOMAIN Order} |-> r]

(* The label that each failure jumps to. *)
FailLabel ==
    [policy |-> "delayacct", perf |-> "policy", audit |-> "perf", security |-> "audit",
     semundo |-> "security", files |-> "semundo", fs |-> "files", sighand |-> "fs",
     signal |-> "sighand", mm |-> "signal", namespaces |-> "mm", io |-> "namespaces",
     thread |-> "io", pid |-> "thread", pidfd |-> "pid", threadgroup |-> "pidfd",
     cgroup |-> "threadgroup"]

Resources == {Labels[i] : i \in DOMAIN Labels} \cup {"stack"}

(* The signals: one that a process handles to a process group, and   *)
(* SIGKILL to a process.                                             *)
Signals == {"TERM", "KILL"}

ASSUME KernelForkAssumption ==
    /\ IsFiniteSet(Tasks) /\ {Root, User} \subseteq Tasks /\ Root # User /\ None \notin Tasks
    /\ Starts \subseteq Beginnings
    /\ \A s \in Starts : /\ "signal" \in s.shared => "sighand" \in s.shared
                         /\ "sighand" \in s.shared => "mm" \in s.shared
    /\ Unshares \subseteq SUBSET Flags
    /\ Nproc \in Nat /\ Limits \subseteq Nat \ {0} /\ Limits # {}

VARIABLES
    task,       \* the task_structs
    call,       \* what each task does in the kernel
    count,      \* the reference counts of the objects, 0 when free
    sigq,       \* shared_pending of each signal_struct
    nr_threads, process_counts, max_threads,
    processes,  \* of the user
    left        \* the bounds: which forks, and how often each thing, may still happen

vars == <<task, call, count, sigq, nr_threads, process_counts, max_threads,
          processes, left>>
counters == <<nr_threads, process_counts, max_threads, processes>>

Stages == {"free", "embryo", "new", "awake", "zombie", "dead"}

(* History: the tasks that its calls of fork() have created, those that    *)
(* vfork, clone, clone3 and kernel_thread have, and its calls of fork()    *)
(* that created none.                                                      *)
Made == [fork : Nat, other : Nat, failed : Nat]
NoneMade == [fork |-> 0, other |-> 0, failed |-> 0]

(* held: the resources it has a reference to. *)
Task == [st : Stages, res : [Kinds -> Objs \cup {0}], held : SUBSET Resources,
         usage : Nat, rcu_users : 0 .. 2, parent : Tasks \cup {None},
         tgid : Tasks \cup {None}, vfork_done : Tasks \cup {None},
         fork_count : Nat, made : Made]

Pcs == {"none", "collect", "pending", "dup", "nproc", "creds", "limit", "copy", "attach",
        "finish", "wake", "wait", "killed", "put", "undo", "out",
        "complete", "drop", "ufs", "ufd", "swap"}

(* plain: the call is fork(); i: the position in Order or Labels; node:    *)
(* delayed is in signal->multiprocess; done: the completion on the stack   *)
(* of _do_fork; new: the objects unshare or exec has made; hit: history, a *)
(* group signal was sent during the fork.                                  *)
Call == [op : {"none", "fork", "exec", "exit", "unshare"}, pc : Pcs,
         flags : SUBSET Flags, plain : BOOLEAN, child : Tasks \cup {None}, i : Nat,
         node : BOOLEAN, delayed : SUBSET Signals, done : BOOLEAN, hit : BOOLEAN,
         new : [Kinds -> Objs \cup {0}]]

NoObjs == [k \in Kinds |-> 0]
NoCall == [op |-> "none", pc |-> "none", flags |-> {}, plain |-> FALSE, child |-> None, i |-> 0,
           node |-> FALSE, delayed |-> {}, done |-> FALSE, hit |-> FALSE,
           new |-> NoObjs]
FreeTask == [st |-> "free", res |-> NoObjs, held |-> {}, usage |-> 0, rcu_users |-> 0,
             parent |-> None, tgid |-> None, vfork_done |-> None, fork_count |-> 0,
             made |-> NoneMade]

Attached(t) == task[t].st \in {"new", "awake", "zombie"}

(* A running task of process g with these objects. *)
Running(g, res) ==
    [FreeTask EXCEPT !.st = "awake", !.res = res,
                     !.held = Resources \ {"task", "pidfd", "threadgroup"},
                     !.usage = 1, !.rcu_users = 2, !.parent = Root, !.tgid = g]

(* Root has cloned User, which shares s with it. *)
Start(s) ==
    LET root == [Running(Root, [k \in Kinds |-> 1]) EXCEPT !.fork_count = 1, !.made.other = 1]
        user == Running(IF "signal" \in s THEN Root ELSE User,
                        [k \in Kinds |-> IF k \in s THEN 1 ELSE 2])
    IN  /\ task = [t \in Tasks |-> IF t = Root THEN root ELSE IF t = User THEN user ELSE FreeTask]
        /\ count = [k \in Kinds |-> [o \in Objs |->
                       Cardinality({t \in {Root, User} : task[t].res[k] = o})]]
        /\ process_counts = IF "signal" \in s THEN 1 ELSE 2

Init ==
    /\ \E s \in Starts : /\ Start(s.shared)
                         /\ left = [forks |-> s.forks, calls |-> s.calls, events |-> s.events]
    /\ call = [t \in Tasks |-> NoCall]
    /\ sigq = [o \in Objs |-> {}]
    /\ nr_threads = 2 /\ processes = 2
    /\ max_threads \in Limits

-----------------------------------------------------------------------------
At(c, op, pc) == call[c].op = op /\ call[c].pc = pc
Step(c, pc) == call' = [call EXCEPT ![c].pc = pc]
Child(c) == call[c].child
Has(c, f) == f \in call[c].flags

Fatal(t) == "KILL" \in sigq[task[t].res["signal"]]
Pending(t) == sigq[task[t].res["signal"]] # {}

FreeObjs(k) == {o \in Objs : count[k][o] = 0}
NewObj(k) == CHOOSE o \in FreeObjs(k) : \A q \in FreeObjs(k) : o <= q

Event ==
    /\ left.events > 0
    /\ left' = [left EXCEPT !.events = @ - 1]

Begin ==
    /\ left.calls > 0
    /\ left' = [left EXCEPT !.calls = @ - 1]

LabelIndex(l) == CHOOSE i \in DOMAIN Labels : Labels[i] = l
GotoLabel(c, l) == call' = [call EXCEPT ![c].pc = "undo", ![c].i = LabelIndex(l)]

-----------------------------------------------------------------------------
(***************************************************************************)
(* The system calls.  A call with arguments that are not valid returns     *)
(* -EINVAL with nothing changed: it is no step.                            *)
(***************************************************************************)
legacy_clone_args_valid(flags) == ~ {"PIDFD", "PARENT_SETTID"} \subseteq flags

clone3_args_valid(x) ==
    /\ x.wellFormed
    /\ "DETACHED" \notin x.flags
    /\ x.flags \cap {"THREAD", "PARENT"} # {} => ~ x.exit_signal

EntryValid(x) ==
    CASE x.entry = "clone" -> legacy_clone_args_valid(x.flags)
      [] x.entry = "clone3" -> clone3_args_valid(x)
      [] OTHER -> TRUE

KernelFlags(x) ==
    CASE x.entry = "fork" -> {}
      [] x.entry = "vfork" -> {"VFORK", "VM"}
      [] x.entry = "kernel_thread" -> x.flags \cup {"VM", "UNTRACED"}
      [] OTHER -> x.flags

(* Mutant: handlers may be shared without the memory. *)
FlagsValidNoVm(c, flags) ==
    "THREAD" \in flags => "SIGHAND" \in flags

FlagsValid(c, flags) ==
    /\ ~ {"NEWNS", "FS"} \subseteq flags
    /\ ~ {"NEWUSER", "FS"} \subseteq flags
    /\ "THREAD" \in flags => "SIGHAND" \in flags
    /\ "SIGHAND" \in flags => "VM" \in flags
    /\ "PARENT" \in flags => task[c].res["signal"] # task[Root].res["signal"]
    /\ "THREAD" \in flags => flags \cap {"NEWUSER", "NEWPID"} = {}
    /\ "PIDFD" \in flags => flags \cap {"DETACHED", "THREAD"} = {}

_do_fork(c) ==
    /\ task[c].st = "awake" /\ call[c].op = "none" /\ ~ Fatal(c)
    /\ Begin
    /\ \E x \in left.forks :
          /\ EntryValid(x) /\ FlagsValid(c, KernelFlags(x))
          /\ call' = [call EXCEPT ![c] = [NoCall EXCEPT !.op = "fork", !.pc = "collect",
                                                        !.flags = KernelFlags(x),
                                                        !.plain = x.entry = "fork"]]
    /\ UNCHANGED <<task, count, sigq, counters>>

-----------------------------------------------------------------------------
(***************************************************************************)
(* copy_process, to the end of its checks.                                 *)
(***************************************************************************)

(* Mutant: the list is only for threads. *)
DelaysThreads(c) == Has(c, "THREAD")

Delays(c) == ~ Has(c, "THREAD")

CollectSignals(c) ==
    /\ At(c, "fork", "collect")
    /\ call' = [call EXCEPT ![c].pc = "pending", ![c].node = Delays(c)]
    /\ UNCHANGED <<task, count, sigq, counters, left>>

SignalPending(c) ==
    /\ At(c, "fork", "pending")
    /\ Step(c, IF Pending(c) THEN "out" ELSE "dup")
    /\ UNCHANGED <<task, count, sigq, counters, left>>

dup_task_struct(c) ==
    /\ At(c, "fork", "dup")
    /\ \/ /\ Event /\ Step(c, "out") /\ UNCHANGED task
       \/ \E p \in Tasks :
            /\ task[p].st = "free"
            /\ task' = [task EXCEPT ![p] = [task[c] EXCEPT !.st = "embryo", !.held = {"stack"},
                                               !.usage = 1, !.rcu_users = 2, !.made = NoneMade]]
            /\ call' = [call EXCEPT ![c].pc = "nproc", ![c].child = p]
            /\ UNCHANGED left
    /\ UNCHANGED <<count, sigq, counters>>

(* Root has CAP_SYS_RESOURCE. *)
CheckNproc(c) ==
    /\ At(c, "fork", "nproc")
    /\ IF processes >= Nproc /\ c # Root THEN GotoLabel(c, "task") ELSE Step(c, "creds")
    /\ UNCHANGED <<task, count, sigq, counters, left>>

copy_creds(c) ==
    /\ At(c, "fork", "creds")
    /\ \/ /\ Event
          /\ GotoLabel(c, "task")
          /\ UNCHANGED <<task, processes>>
       \/ /\ processes' = processes + 1
          /\ task' = [task EXCEPT ![Child(c)].held = @ \cup {"count"}]
          /\ Step(c, "limit")
          /\ UNCHANGED left
    /\ UNCHANGED <<count, sigq, nr_threads, process_counts, max_threads>>

LimitReached == nr_threads >= max_threads

(* Mutant: the process of the user stays counted. *)
LimitLabelFree == "task"

LimitLabel == "count"

CheckLimit(c) ==
    /\ At(c, "fork", "limit")
    /\ IF LimitReached
       THEN GotoLabel(c, LimitLabel) /\ UNCHANGED task
       ELSE /\ call' = [call EXCEPT ![c].pc = "copy", ![c].i = 1]
            /\ task' = [task EXCEPT ![Child(c)].held = @ \cup {"delayacct"},
                                    ![Child(c)].vfork_done = None]
    /\ UNCHANGED <<count, sigq, counters, left>>

-----------------------------------------------------------------------------
(***************************************************************************)
(* copy_process, what the child gets: its own, or a reference to the       *)
(* parent's.                                                               *)
(***************************************************************************)
Copying(c, r) == At(c, "fork", "copy") /\ Order[call[c].i] = r

(* Goes on with the position i of Order. *)
CopyFrom(c, i) ==
    call' = IF i <= Len(Order) THEN [call EXCEPT ![c].i = i]
            ELSE [call EXCEPT ![c].pc = "attach"]

NextCopy(c) == CopyFrom(c, call[c].i + 1)

(* The positions of s from i on, up to the next resource that other tasks  *)
(* see.  What is acquired or released there concerns only the new task, so *)
(* it is one step.                                                         *)
OwnRun(s, i) ==
    {j \in i .. Len(s) : \A m \in i .. j : s[m] \notin Kinds \cup {"count", "task"}}

(* Mutant: the reference is not counted. *)
ShareUncounted(c, k) ==
    /\ UNCHANGED count
    /\ task' = [task EXCEPT ![Child(c)].held = @ \cup {k}]

Share(c, k) ==
    /\ count' = [count EXCEPT ![k][task[c].res[k]] = @ + 1]
    /\ task' = [task EXCEPT ![Child(c)].held = @ \cup {k}]

Duplicate(c, k) ==
    /\ FreeObjs(k) # {}
    /\ count' = [count EXCEPT ![k][NewObj(k)] = 1]
    /\ task' = [task EXCEPT ![Child(c)].held = @ \cup {k},
                            ![Child(c)].res[k] = NewObj(k)]

copy_files(c) ==
    /\ Copying(c, "files")
    /\ IF Has(c, "FILES") THEN Share(c, "files") ELSE Duplicate(c, "files")
    /\ NextCopy(c)
    /\ UNCHANGED <<sigq, counters, left>>

copy_fs(c) ==
    /\ Copying(c, "fs")
    /\ IF Has(c, "FS") THEN Share(c, "fs") ELSE Duplicate(c, "fs")
    /\ NextCopy(c)
    /\ UNCHANGED <<sigq, counters, left>>

copy_sighand(c) ==
    /\ Copying(c, "sighand")
    /\ IF Has(c, "SIGHAND") THEN Share(c, "sighand") ELSE Duplicate(c, "sighand")
    /\ NextCopy(c)
    /\ UNCHANGED <<sigq, counters, left>>

(* A thread is counted in its signal_struct when it is attached. *)
copy_signal(c) ==
    /\ Copying(c, "signal")
    /\ IF Has(c, "THREAD")
       THEN UNCHANGED <<task, count, sigq>>
       ELSE /\ Duplicate(c, "signal")
            /\ sigq' = [sigq EXCEPT ![NewObj("signal")] = {}]
    /\ NextCopy(c)
    /\ UNCHANGED <<counters, left>>

copy_mm(c) ==
    /\ Copying(c, "mm")
    /\ IF Has(c, "VM") THEN Share(c, "mm") ELSE Duplicate(c, "mm")
    /\ NextCopy(c)
    /\ UNCHANGED <<sigq, counters, left>>

(* mpol_dup, sched_fork and perf_event_init_task, audit_alloc ...          *)
(* cgroup_can_fork: what is not counted.                                   *)
Acquired(c, js) == {Order[j] : j \in js} \ (IF Has(c, "PIDFD") THEN {} ELSE {"pidfd"})

CopyOwn(c) ==
    LET js == OwnRun(Order, call[c].i)
    IN  /\ At(c, "fork", "copy") /\ js # {}
        /\ task' = [task EXCEPT ![Child(c)].held = @ \cup Acquired(c, js)]
        /\ CopyFrom(c, call[c].i + Cardinality(js))
        /\ UNCHANGED <<count, sigq, counters, left>>

(* A shared fs_struct may be in exec; other references are always given. *)
CanFail(c, r) ==
    CASE r = "files" -> ~ Has(c, "FILES")
      [] r = "sighand" -> ~ Has(c, "SIGHAND")
      [] r = "signal" -> ~ Has(c, "THREAD")
      [] r = "mm" -> ~ Has(c, "VM")
      [] r = "pidfd" -> Has(c, "PIDFD")
      [] r = "threadgroup" -> FALSE
      [] OTHER -> TRUE

(* The resource at j cannot be had: what the step acquired before it stays *)
(* with the child, and with the descriptor also itself when put_user       *)
(* fails.                                                                  *)
CopyFails(c) ==
    /\ At(c, "fork", "copy")
    /\ \E j \in OwnRun(Order, call[c].i) \cup {call[c].i} :
          LET before == Acquired(c, call[c].i .. j - 1)
          IN  /\ CanFail(c, Order[j])
              /\ \/ /\ task' = [task EXCEPT ![Child(c)].held = @ \cup before]
                    /\ GotoLabel(c, FailLabel[Order[j]])
                 \/ /\ Order[j] = "pidfd"
                    /\ task' = [task EXCEPT ![Child(c)].held = @ \cup before \cup {"pidfd"}]
                    /\ GotoLabel(c, "pidfd")
    /\ Event
    /\ UNCHANGED <<count, sigq, counters>>

-----------------------------------------------------------------------------
(***************************************************************************)
(* copy_process under tasklist_lock, and its failure labels.               *)
(***************************************************************************)

(* Mutant: a clone with CLONE_PARENT keeps the parent that                 *)
(* dup_task_struct copied.                                                 *)
StaleParent(c) == IF call[c].flags \cap {"PARENT", "THREAD"} # {}
                  THEN task[Child(c)].parent ELSE c

RealParent(c) == IF call[c].flags \cap {"PARENT", "THREAD"} # {}
                 THEN task[c].parent ELSE c

(* History: call c has created a task, or has come to its end without one. *)
Creates(c) == IF call[c].plain THEN [task[c].made EXCEPT !.fork = @ + 1]
              ELSE [task[c].made EXCEPT !.other = @ + 1]
CreatesNone(c) == IF call[c].plain THEN [task[c].made EXCEPT !.failed = @ + 1]
                  ELSE task[c].made

Attach(c) ==
    LET p == Child(c)
        thread == Has(c, "THREAD")
    IN  /\ At(c, "fork", "attach") /\ ~ Fatal(c)
        /\ task' = [task EXCEPT ![p].st = "new", ![p].parent = RealParent(c),
                                ![p].held = @ \cup {"signal"},
                                ![p].tgid = IF thread THEN task[c].tgid ELSE p,
                                ![c].made = Creates(c)]
        /\ count' = IF thread THEN [count EXCEPT !["signal"][task[p].res["signal"]] = @ + 1]
                    ELSE count
        /\ sigq' = IF thread THEN sigq
                   ELSE [sigq EXCEPT ![task[p].res["signal"]] = call[c].delayed]
        /\ nr_threads' = nr_threads + 1
        /\ process_counts' = IF thread THEN process_counts ELSE process_counts + 1
        /\ call' = [call EXCEPT ![c].pc = "finish", ![c].node = FALSE]
        /\ UNCHANGED <<max_threads, processes, left>>

(* A fatal signal is pending, or the pid namespace is dying. *)
AttachFails(c) ==
    /\ At(c, "fork", "attach")
    /\ \/ Fatal(c) /\ UNCHANGED left
       \/ Event
    /\ GotoLabel(c, "cgroup")
    /\ UNCHANGED <<task, count, sigq, counters>>

(* Mutant: the signal_struct of a thread is freed like that of a process. *)
FreesAnySignal(c) == TRUE

FreesSignal(c) == ~ Has(c, "THREAD")

Undo(c) ==
    LET p == Child(c)
        l == Labels[call[c].i]
        js == OwnRun(Labels, call[c].i)
    IN  /\ At(c, "fork", "undo")
        /\ task' = IF l = "task" THEN [task EXCEPT ![p] = FreeTask]
                   ELSE [task EXCEPT ![p].held = @ \ ({l} \cup {Labels[j] : j \in js})]
        /\ count' = IF l = "signal" /\ FreesSignal(c)
                    THEN [count EXCEPT !["signal"][task[p].res["signal"]] = 0]
                    ELSE IF l \in Kinds \ {"signal"}
                    THEN [count EXCEPT ![l][task[p].res[l]] = @ - 1]
                    ELSE count
        /\ processes' = IF l = "count" THEN processes - 1 ELSE processes
        /\ call' = IF l = "task" THEN [call EXCEPT ![c].pc = "out", ![c].child = None]
                   ELSE [call EXCEPT ![c].i = @ + (IF js = {} THEN 1 ELSE Cardinality(js))]
        /\ UNCHANGED <<sigq, nr_threads, process_counts, max_threads, left>>

fork_out(c) ==
    /\ At(c, "fork", "out")
    /\ task' = [task EXCEPT ![c].made = CreatesNone(c)]
    /\ call' = [call EXCEPT ![c] = NoCall]
    /\ UNCHANGED <<count, sigq, counters, left>>

-----------------------------------------------------------------------------
(***************************************************************************)
(* The end of copy_process, and _do_fork after it.                         *)
(***************************************************************************)
(* Mutant: the child keeps the number of its parent. *)
CountParentOnly(c) == [task EXCEPT ![c].fork_count = @ + 1]

CountFork(c) == [task EXCEPT ![Child(c)].fork_count = 0, ![c].fork_count = @ + 1]

(* Mutant: no get_task_struct. *)
VforkNoRefs(c) == 0

VforkRefs(c) == IF Has(c, "VFORK") THEN 1 ELSE 0

(* fd_install, and cgroup_threadgroup_change_end. *)
GivenUp == {"pidfd", "threadgroup"}

(* The end of copy_process; the fork is counted; a vfork refers to the     *)
(* child, which does not run yet.                                          *)
FinishFork(c) ==
    /\ At(c, "fork", "finish")
    /\ task' = [CountFork(c) EXCEPT
                  ![Child(c)].held = @ \ GivenUp,
                  ![Child(c)].vfork_done = IF Has(c, "VFORK") THEN c ELSE @,
                  ![Child(c)].usage = @ + VforkRefs(c)]
    /\ Step(c, "wake")
    /\ UNCHANGED <<count, sigq, counters, left>>

wake_up_new_task(c) ==
    /\ At(c, "fork", "wake")
    /\ task' = [task EXCEPT ![Child(c)].st = "awake"]
    /\ call' = IF Has(c, "VFORK") THEN [call EXCEPT ![c].pc = "wait"]
               ELSE [call EXCEPT ![c] = NoCall]
    /\ UNCHANGED <<count, sigq, counters, left>>

(* put_task_struct, with __put_task_struct and free_task on the last one. *)
PutTask(t) ==
    IF task[t].usage > 1
    THEN /\ task' = [task EXCEPT ![t].usage = @ - 1]
         /\ UNCHANGED count
    ELSE /\ task' = [task EXCEPT ![t] = FreeTask]
         /\ count' = [count EXCEPT !["signal"][task[t].res["signal"]] = @ - 1]

VforkDone(c) == call[c].done

wait_for_vfork_done(c) ==
    /\ At(c, "fork", "wait")
    /\ \/ VforkDone(c) /\ Step(c, "put")
       \/ ~ VforkDone(c) /\ Fatal(c) /\ Step(c, "killed")
    /\ UNCHANGED <<task, count, sigq, counters, left>>

(* Mutant: the child keeps the pointer. *)
ForgetNothing(c) == task

ForgetVfork(c) == [task EXCEPT ![Child(c)].vfork_done = None]

ClearVfork(c) ==
    /\ At(c, "fork", "killed")
    /\ task' = ForgetVfork(c)
    /\ Step(c, "put")
    /\ UNCHANGED <<count, sigq, counters, left>>

PutChild(c) ==
    /\ At(c, "fork", "put")
    /\ PutTask(Child(c))
    /\ call' = [call EXCEPT ![c] = NoCall]
    /\ UNCHANGED <<sigq, counters, left>>

-----------------------------------------------------------------------------
(***************************************************************************)
(* exec and exit (external), which call mm_release, mm_alloc and           *)
(* unshare_files of fork.c.                                                *)
(***************************************************************************)
Idle(t) == task[t].st = "awake" /\ call[t].op = "none"
Alone(t) == \A x \in Tasks \ {t} : Attached(x) => task[x].tgid # task[t].tgid
Shared(t, k) == count[k][task[t].res[k]] > 1

(* Mutant: the parent is not told. *)
MmReleaseSilent(t) == "drop"

(* vfork_done is read without the lock, and again by complete_vfork_done. *)
mm_release(t) == IF task[t].vfork_done # None THEN "complete" ELSE "drop"

(* The new memory, and a file table of its own; the old one is kept. *)
do_exec(t) ==
    LET m == NewObj("mm")
        f == IF Shared(t, "files") THEN NewObj("files") ELSE 0
    IN  /\ Idle(t) /\ Alone(t) /\ ~ Fatal(t) /\ Event
        /\ FreeObjs("mm") # {} /\ FreeObjs("files") # {}
        /\ count' = [count EXCEPT !["mm"][m] = 1,
                                  !["files"] = [o \in Objs |-> IF o = f THEN 1 ELSE @[o]]]
        /\ task' = IF f = 0 THEN task ELSE [task EXCEPT ![t].res["files"] = f]
        /\ call' = [call EXCEPT ![t] = [NoCall EXCEPT !.op = "exec", !.pc = mm_release(t),
                !.new = [NoObjs EXCEPT !["mm"] = m,
                                       !["files"] = IF f = 0 THEN 0 ELSE task[t].res["files"]]]]
        /\ UNCHANGED <<sigq, counters>>

do_exit(t) ==
    /\ Idle(t) /\ t # Root
    /\ call' = [call EXCEPT ![t] = [NoCall EXCEPT !.op = "exit", !.pc = mm_release(t)]]
    /\ UNCHANGED <<task, count, sigq, counters, left>>

complete_vfork_done(t) ==
    LET q == task[t].vfork_done
    IN  /\ call[t].pc = "complete"
        /\ task' = [task EXCEPT ![t].vfork_done = None]
        /\ call' = IF q = None THEN [call EXCEPT ![t].pc = "drop"]
                   ELSE [call EXCEPT ![t].pc = "drop", ![q].done = TRUE]
        /\ UNCHANGED <<count, sigq, counters, left>>

(* The old memory and file table go; handlers that are shared are copied. *)
FinishExec(t) ==
    LET new == call[t].new
        old == task[t].res["sighand"]
        h == IF Shared(t, "sighand") THEN NewObj("sighand") ELSE 0
    IN  /\ At(t, "exec", "drop")
        /\ task' = [task EXCEPT ![t].res["mm"] = new["mm"],
                                ![t].res["sighand"] = IF h = 0 THEN @ ELSE h]
        /\ count' = [count EXCEPT
                !["mm"][task[t].res["mm"]] = @ - 1,
                !["files"] = [o \in Objs |-> IF o = new["files"] THEN @[o] - 1 ELSE @[o]],
                !["sighand"] = [o \in Objs |-> IF o = h THEN 1
                                               ELSE IF h # 0 /\ o = old THEN @[o] - 1
                                               ELSE @[o]]]
        /\ call' = [call EXCEPT ![t] = NoCall]
        /\ UNCHANGED <<sigq, counters, left>>

(* exit_notify, and finish_task_switch after it: the children go to a      *)
(* thread that is not exiting, or to Root.                                 *)
Reapers(t) ==
    LET alive == {x \in Tasks \ {t} : /\ task[x].st = "awake" /\ call[x].op # "exit"
                                      /\ task[x].tgid = task[t].tgid}
    IN  IF alive = {} THEN {Root} ELSE alive

Zombie(t) == [task[t] EXCEPT !.st = "zombie", !.rcu_users = @ - 1,
                             !.held = {"signal", "sighand", "pid", "count",
                                       "security", "delayacct"}]

FinishExit(t) ==
    /\ At(t, "exit", "drop")
    /\ \E reaper \in Reapers(t) : task' = [x \in Tasks |->
                  IF x = t THEN Zombie(t)
                  ELSE IF task[x].parent = t /\ Attached(x)
                       THEN [task[x] EXCEPT !.parent = reaper]
                  ELSE task[x]]
    /\ count' = [k \in Kinds |-> IF k \in {"mm", "files", "fs"}
                                 THEN [count[k] EXCEPT ![task[t].res[k]] = @ - 1]
                                 ELSE count[k]]
    /\ call' = [call EXCEPT ![t] = NoCall]
    /\ UNCHANGED <<sigq, counters, left>>

(* Only its task_struct is left, for whoever refers to it. *)
Dead(t) == [task[t] EXCEPT !.st = "dead", !.usage = @ - 1, !.rcu_users = @ - 1,
                           !.held = @ \ {"sighand", "pid", "count"}]

(* release_task and, at the end of the grace period, the last              *)
(* put_task_struct_rcu_user.                                               *)
release_task(t) ==
    /\ task[t].st = "zombie"
    /\ task[t].tgid = t => Alone(t)
    /\ LET gone == task[t].usage = 1
       IN  /\ task' = [task EXCEPT ![t] = IF gone THEN FreeTask ELSE Dead(t)]
           /\ count' = [count EXCEPT !["sighand"][task[t].res["sighand"]] = @ - 1,
                          !["signal"][task[t].res["signal"]] = IF gone THEN @ - 1 ELSE @]
    /\ nr_threads' = nr_threads - 1 /\ processes' = processes - 1
    /\ process_counts' = IF task[t].tgid = t THEN process_counts - 1 ELSE process_counts
    /\ UNCHANGED <<call, sigq, max_threads, left>>

-----------------------------------------------------------------------------
(***************************************************************************)
(* unshare, and the limit of threads.                                      *)
(***************************************************************************)

(* What unsharing one thing implies. *)
Implied(flags) ==
    LET f1 == IF "NEWUSER" \in flags THEN flags \cup {"THREAD", "FS"} ELSE flags
        f2 == IF "VM" \in f1 THEN f1 \cup {"SIGHAND"} ELSE f1
        f3 == IF "SIGHAND" \in f2 THEN f2 \cup {"THREAD"} ELSE f2
    IN  IF "NEWNS" \in f3 THEN f3 \cup {"FS"} ELSE f3

check_unshare_flags(t, flags) ==
    /\ flags \cap {"VFORK", "PARENT", "PIDFD", "DETACHED", "PARENT_SETTID", "UNTRACED"} = {}
    /\ flags \cap {"THREAD", "SIGHAND", "VM"} # {} => Alone(t)
    /\ flags \cap {"SIGHAND", "VM"} # {} => ~ Shared(t, "sighand")
    /\ "VM" \in flags => ~ Shared(t, "mm")

ksys_unshare(t) ==
    /\ Idle(t) /\ ~ Fatal(t) /\ Begin
    /\ \E u \in Unshares :
          /\ check_unshare_flags(t, Implied(u))
          /\ call' = [call EXCEPT ![t] = [NoCall EXCEPT !.op = "unshare", !.pc = "ufs",
                                                        !.flags = Implied(u)]]
    /\ UNCHANGED <<task, count, sigq, counters>>

(* Mutant: a copy is made only when three share. *)
UnsharesFew(t, k) == count[k][task[t].res[k]] > 2

UnsharesObj(t, k) == count[k][task[t].res[k]] > 1

(* unshare_fs and unshare_fd: a copy when there is another user. *)
UnshareCopy(t, k, flag, pc) ==
    IF Has(t, flag) /\ UnsharesObj(t, k)
    THEN /\ FreeObjs(k) # {}
         /\ count' = [count EXCEPT ![k][NewObj(k)] = 1]
         /\ call' = [call EXCEPT ![t].pc = pc, ![t].new[k] = NewObj(k)]
    ELSE Step(t, pc) /\ UNCHANGED count

unshare_fs(t) ==
    /\ At(t, "unshare", "ufs")
    /\ UnshareCopy(t, "fs", "FS", "ufd")
    /\ UNCHANGED <<task, sigq, counters, left>>

unshare_fd(t) ==
    /\ At(t, "unshare", "ufd")
    /\ UnshareCopy(t, "files", "FILES", "swap")
    /\ UNCHANGED <<task, sigq, counters, left>>

(* What was copied is freed: bad_unshare_cleanup_fd and _fs.  The step     *)
(* that fails is unshare_fs, unshare_fd, unshare_userns or                 *)
(* unshare_nsproxy_namespaces.                                             *)
UnshareFails(t) ==
    /\ \/ At(t, "unshare", "ufs") /\ Has(t, "FS")
       \/ At(t, "unshare", "ufd") /\ Has(t, "FILES")
       \/ At(t, "unshare", "swap") /\ call[t].flags \cap {"NEWUSER", "NEWNS", "NEWPID"} # {}
    /\ Event
    /\ count' = [k \in Kinds |-> IF call[t].new[k] = 0 THEN count[k]
                                 ELSE [count[k] EXCEPT ![call[t].new[k]] = 0]]
    /\ call' = [call EXCEPT ![t] = NoCall]
    /\ UNCHANGED <<task, sigq, counters>>

UnshareSwap(t) ==
    LET new == call[t].new
    IN  /\ At(t, "unshare", "swap")
        /\ task' = [task EXCEPT ![t].res = [k \in Kinds |-> IF new[k] = 0 THEN @[k] ELSE new[k]]]
        /\ count' = [k \in Kinds |-> IF new[k] = 0 THEN count[k]
                                     ELSE [count[k] EXCEPT ![task[t].res[k]] = @ - 1]]
        /\ call' = [call EXCEPT ![t] = NoCall]
        /\ UNCHANGED <<sigq, counters, left>>

sysctl_max_threads ==
    /\ Event
    /\ max_threads' \in Limits \ {max_threads}
    /\ UNCHANGED <<task, call, count, sigq, nr_threads, process_counts, processes>>

-----------------------------------------------------------------------------
(***************************************************************************)
(* Signals (external): SIGTERM to the process group, SIGKILL to a process. *)
(***************************************************************************)
Forking(c) == call[c].op = "fork" /\ call[c].pc \in {"collect", "pending", "dup", "nproc",
                                                    "creds", "limit", "copy", "attach"}

KillGroup ==
    /\ Event
    /\ sigq' = [o \in Objs |-> IF \E t \in Tasks : Attached(t) /\ task[t].res["signal"] = o
                               THEN sigq[o] \cup {"TERM"} ELSE sigq[o]]
    /\ call' = [c \in Tasks |->
                  [call[c] EXCEPT !.delayed = IF call[c].node THEN @ \cup {"TERM"} ELSE @,
                                  !.hit = \/ @
                                          \/ /\ Forking(c) /\ call[c].pc # "collect"
                                             /\ ~ Has(c, "THREAD")]]
    /\ UNCHANGED <<task, count, counters>>

Kill(t) ==
    /\ Event /\ t # Root /\ task[t].st = "awake"
    /\ task[t].tgid # Root
    /\ sigq' = [sigq EXCEPT ![task[t].res["signal"]] = @ \cup {"KILL"}]
    /\ UNCHANGED <<task, call, count, counters>>

Deliver(t) ==
    /\ Idle(t) /\ ~ Fatal(t) /\ "TERM" \in sigq[task[t].res["signal"]]
    /\ sigq' = [sigq EXCEPT ![task[t].res["signal"]] = {}]
    /\ UNCHANGED <<task, call, count, counters, left>>

-----------------------------------------------------------------------------
CopyStep(c) == \/ copy_files(c) \/ copy_fs(c) \/ copy_sighand(c) \/ copy_signal(c)
               \/ copy_mm(c) \/ CopyOwn(c)

ForkStep(c) ==
    \/ CollectSignals(c) \/ SignalPending(c) \/ dup_task_struct(c) \/ CheckNproc(c)
    \/ copy_creds(c) \/ CheckLimit(c) \/ CopyStep(c) \/ Attach(c) \/ AttachFails(c) \/ Undo(c) \/ fork_out(c)
    \/ FinishFork(c) \/ wake_up_new_task(c) \/ wait_for_vfork_done(c) \/ ClearVfork(c) \/ PutChild(c)

ExitStep(t) ==
    \/ complete_vfork_done(t) \/ FinishExec(t) \/ FinishExit(t) \/ release_task(t)

UnshareStep(t) == unshare_fs(t) \/ unshare_fd(t) \/ UnshareSwap(t)

Next ==
    \/ \E t \in Tasks :
          \/ _do_fork(t) \/ ForkStep(t) \/ CopyFails(t)
          \/ do_exec(t) \/ do_exit(t) \/ ExitStep(t)
          \/ ksys_unshare(t) \/ UnshareStep(t) \/ UnshareFails(t)
          \/ Kill(t) \/ Deliver(t)
    \/ KillGroup \/ sysctl_max_threads

Spec == Init /\ [][Next]_vars

-----------------------------------------------------------------------------
(***************************************************************************)
(* Properties.                                                             *)
(***************************************************************************)

(* The state is well-formed: no reference count goes below zero. *)
TypeOK ==
    /\ task \in [Tasks -> Task] /\ call \in [Tasks -> Call]
    /\ count \in [Kinds -> [Objs -> Nat]] /\ sigq \in [Objs -> SUBSET Signals]
    /\ nr_threads \in Nat /\ process_counts \in Nat /\ processes \in Nat
    /\ max_threads \in Limits

(* The tasks that have a reference to an object of a kind, and the calls   *)
(* that have made it or displaced it and not yet installed or put it.      *)
Holders(k, o) == {t \in Tasks : k \in task[t].held /\ task[t].res[k] = o}
Makers(k, o) == {t \in Tasks : call[t].new[k] = o}

(* On every path through copy_process, its failure labels, exec, exit and  *)
(* unshare, each count is the number of references: no object is freed     *)
(* while a task uses it, and none is leaked when a fork fails half-way.    *)
(* nr_threads, process_counts and the processes of the user agree with the *)
(* tasks that exist, whatever forks fail or exits are under way.           *)
CountsExact ==
    /\ TypeOK
    /\ \A k \in Kinds, o \in Objs :
          count[k][o] = Cardinality(Holders(k, o)) + Cardinality(Makers(k, o))
    /\ nr_threads = Cardinality({t \in Tasks : Attached(t)})
    /\ process_counts = Cardinality({t \in Tasks : Attached(t) /\ task[t].tgid = t})
    /\ processes = Cardinality({t \in Tasks : "count" \in task[t].held})

(* While a failed fork runs through the labels bad_fork_*, the child holds *)
(* exactly what the labels still ahead release: every goto of copy_process *)
(* enters at the right one, and nothing is released twice.                 *)
UnwindExact ==
    \A c \in Tasks : At(c, "fork", "undo") =>
        task[Child(c)].held \ {"stack"} =
            {Labels[i] : i \in call[c].i .. Len(Labels)}
            \ (   {"task"}
               \cup (IF Has(c, "THREAD") THEN {"signal"} ELSE {})
               \cup (IF Has(c, "PIDFD") THEN {} ELSE {"pidfd"}))

(* The tasks stay related as copy_process relates them.  "Shared signal    *)
(* handlers imply shared VM": tasks with one signal_struct have one        *)
(* sighand_struct, and tasks with one sighand_struct one memory, as long   *)
(* as they have any; exec and unshare keep it so.  The parent of a task is *)
(* a task that has not exited, also when it exits while one of its         *)
(* children is in clone with CLONE_PARENT.                                 *)
RelationsKept ==
    /\ \A t \in Tasks : Attached(t) => task[task[t].parent].st = "awake"
    /\ \A t, u \in {x \in Tasks : task[x].st \in {"new", "awake"}} :
          /\ task[t].tgid = task[u].tgid <=> task[t].res["signal"] = task[u].res["signal"]
          /\ task[t].res["signal"] = task[u].res["signal"]
                => task[t].res["sighand"] = task[u].res["sighand"]
          /\ task[t].res["sighand"] = task[u].res["sighand"]
                => task[t].res["mm"] = task[u].res["mm"]

(* The task_struct of the child is not freed while _do_fork refers to it,  *)
(* after copy_process too, when the child runs and may exit at any time.   *)
ChildHeld ==
    \A c \in Tasks : Child(c) # None /\ ~ Forking(c) =>
        task[Child(c)].st # "free" /\ task[Child(c)].usage > 0

(* vfork_done points into the stack of _do_fork: whoever exits, execs or   *)
(* is killed first, the pointer is cleared before that call returns.  No   *)
(* wake-up is lost: while vfork waits and is not told yet, its child has   *)
(* the pointer and has not passed mm_release.  Once it is told, the child  *)
(* no longer runs in the shared memory.  And ChildHeld.                    *)
VforkSound ==
    /\ \A t \in Tasks : task[t].st # "embryo" /\ task[t].vfork_done # None =>
          LET c == call[task[t].vfork_done]
          IN  c.op = "fork" /\ c.child = t /\ c.pc \in {"wake", "wait", "killed"}
    /\ \A c \in Tasks : At(c, "fork", "wait") =>
          IF call[c].done
          THEN ~ (Idle(Child(c)) /\ task[Child(c)].res["mm"] = task[c].res["mm"])
          ELSE /\ task[Child(c)].vfork_done = c
               /\ task[Child(c)].st = "awake" /\ call[Child(c)].pc # "drop"
    /\ ChildHeld

(* fork_count of a running task is the number of tasks it has created, by  *)
(* fork() or by vfork, clone and clone3, threads included, whatever other  *)
(* calls failed or ran meanwhile; one that was created from a task that    *)
(* had created others starts with 0.  Process_tracer.c:118 prints it as    *)
(* the "Number of calling fork()", and README.MD:96 of Assignment2 says    *)
(* (in Korean) that it grows by one whenever fork() is called.  It is the  *)
(* number of calls of fork() just if as many tasks were created otherwise  *)
(* as calls of fork() failed.                                              *)
ForkCounted ==
    \A t \in Tasks : task[t].st = "awake" =>
        LET made == task[t].made
        IN  IF call[t].op = "fork" /\ call[t].pc = "finish"
            THEN task[t].fork_count = made.fork + made.other - 1
            ELSE /\ task[t].fork_count = made.fork + made.other
                 /\ task[t].fork_count = made.fork + made.failed <=> made.other = made.failed

(* A signal sent to the process group once copy_process collects signals   *)
(* ("delay them so that they appear to happen after the fork") makes the   *)
(* fork start again, or also reaches the child.                            *)
GroupSignalReachesChild ==
    [][\A c \in Tasks : call[c].hit /\ At(c, "fork", "attach") /\ call'[c].pc = "finish" =>
         "TERM" \in sigq'[task[Child(c)].res["signal"]]]_vars

(* After unshare no other task has the file system information or the file *)
(* table that was to be unshared, whatever the others unshared meanwhile,  *)
(* the very same objects too, and whoever exits or forks.                  *)
UnsharePrivate ==
    [][\A t \in Tasks : At(t, "unshare", "swap") /\ UnshareSwap(t) =>
         /\ Has(t, "FS") => \A x \in Tasks \ {t} :
               "fs" \in task'[x].held => task'[x].res["fs"] # task'[t].res["fs"]
         /\ Has(t, "FILES") => \A x \in Tasks \ {t} :
               "files" \in task'[x].held => task'[x].res["files"] # task'[t].res["files"]]_vars

=============================================================================
