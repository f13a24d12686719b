------------------------------ MODULE IoTrace ------------------------------
(***************************************************************************)
(* Assignment1/Assignment 1-3: the kernel modules iotracehooking.c, which  *)
(* replaces the entries of the I/O calls in the system call table while a  *)
(* process is traced, and ftracehooking.c, which starts and stops it from  *)
(* the system call os_ftrace.                                              *)
(*                                                                         *)
(* Nothing is locked: tracers, which call os_ftrace, an administrator, who *)
(* loads and unloads the modules, and workers, which do I/O, take steps in *)
(* any order.  A step is one access to shared memory.                      *)
(***************************************************************************)
EXTENDS Integers, SequencesExt

CONSTANTS
    Workers,        \* the processes that do I/O, each named by its pid
    NoPid,          \* the pid 0
    Tracers,        \* the threads that call os_ftrace
    Admin,          \* the thread that runs insmod and rmmod
    Files, NoFile,  \* file names, and the empty one
    Budgets,        \* bounds: see Budget
    MaxDepth        \* bound: nested calls of a hook on the kernel stack

Calls == {"openat", "read", "write", "lseek", "close"}
Modules == {"iotrace", "ftrace"}
Threads == Tracers \cup {Admin}

(* What is looked at: the entries of the table, of the five and in their   *)
(* order; and what may still happen: the pids passed to os_ftrace, the I/O *)
(* calls of each worker, the calls of os_ftrace of each tracer, how often  *)
(* a module is loaded and unloaded.                                        *)
Budget == [slots : Seq(Calls), args : SUBSET (Workers \cup {NoPid}),
           calls : [Workers -> Nat], traces : [Tracers -> Nat],
           loads : Nat, unloads : Nat]

ASSUME IoTraceAssumption ==
    /\ Admin \notin Tracers
    /\ NoPid \notin Workers
    /\ NoFile \notin Files /\ Files # {}
    /\ Budgets \subseteq Budget
    /\ \A b \in Budgets : b.slots # << >> /\ IsInjective(b.slots)
    /\ MaxDepth \in Nat \ {0}

VARIABLES
    table,      \* sys_call_table: the function of each I/O call
    os_ftrace,  \* its entry 336
    writable,   \* _PAGE_RW of its page
    real,       \* real_openat ... real_close
    real_os_ftrace,
    found,      \* syscall_table # NULL in iotracehooking.c
    traced_pid,
    stats,
    mods,       \* the modules that are loaded
    tr,         \* the tracers and the administrator
    wk,         \* the workers
    budget,     \* see Budget
    log,        \* history: see Log
    deviations  \* history: see Events

Slots == budget.slots
Hooked == ToSet(Slots)

entry336 == <<os_ftrace, real_os_ftrace>>
trace == <<table, real, found, traced_pid, stats>>
shared == <<trace, entry336, writable, mods>>
history == <<log, deviations>>
vars == <<shared, tr, wk, budget, history>>

Function == {"null", "kernel", "hook"}

Stats == [count : [Hooked -> Nat], bytes : [Hooked -> Nat], filename : Files \cup {NoFile}]

TracerPc == {"idle", "check", "start", "save", "install", "lock",
             "stop", "restore", "relock", "clear", "oops", "gone"}

AdminPc == {"idle", "hook_rw", "hook_store", "hook_ro", "unhook_rw",
            "unhook_store", "unhook_ro", "stop", "restore", "relock", "free", "oops"}

(* orphan: ftracehooking.c was unloaded, and will not be there to return to. *)
Thread == [pc : TracerPc \cup AdminPc, arg : Workers \cup {NoPid}, i : 1 .. Len(Slots), orphan : BOOLEAN]

WorkerPc == {"idle", "load", "store", "loadb", "storeb", "name", "forward",
             "kernel", "overflow", "gone"}

(* reg: the counter it has loaded; served: how often the kernel has done   *)
(* this call (a worker starts as after a call); failed: whether the hook   *)
(* answered -ENOENT.                                                       *)
Worker == [pc : WorkerPc, call : Hooked, file : Files, reg : Nat,
           depth : 0 .. MaxDepth, served : Nat, failed : BOOLEAN]

(* What was not one after the other: a start while hooks are in the table  *)
(* or on their way there (again), two calls of os_ftrace at once (calls),  *)
(* a module loaded or unloaded during a call of os_ftrace (unload).        *)
Events == {"again", "calls", "unload"}

(* own, others: calls of each hook by the traced process and by others;    *)
(* got: the bytes the kernel moved in them; overlap: the calls of which    *)
(* two workers held a counter in a register at once.                       *)
Log == [own : [Hooked -> Nat], others : [Hooked -> Nat], got : [Hooked -> Nat],
        overlap : SUBSET Hooked]

None == [c \in Hooked |-> 0]

NoStats == [count |-> None, bytes |-> None, filename |-> NoFile]

NoLog == [own |-> None, others |-> None, got |-> None, overlap |-> {}]

Init ==
    /\ budget \in Budgets
    /\ table = [c \in Hooked |-> "kernel"] /\ os_ftrace = "kernel"
    /\ writable = FALSE
    /\ real = [c \in Hooked |-> "null"] /\ real_os_ftrace = "null"
    /\ found = FALSE /\ traced_pid = NoPid /\ stats = NoStats
    /\ mods = {}
    /\ tr = [t \in Threads |-> [pc |-> "idle", arg |-> NoPid,
                                i |-> 1, orphan |-> FALSE]]
    /\ wk = [w \in Workers |-> [pc |-> "idle", call |-> Slots[1],
                                file |-> CHOOSE f \in Files : TRUE, reg |-> 0,
                                depth |-> 0, served |-> 1, failed |-> FALSE]]
    /\ log = NoLog /\ deviations = {}

(* An event after which not every promise holds. *)
Note(event, happened) ==
    deviations' = IF happened THEN deviations \cup {event} ELSE deviations

-----------------------------------------------------------------------------
(***************************************************************************)
(* os_ftrace, hooked: my_ftrace with start_io_trace and stop_io_trace.     *)
(***************************************************************************)
Goto(t, pc) == tr' = [tr EXCEPT ![t].pc = pc]

(* The loop over the slots: on to the next one, or to pc after the last. *)
Advance(t, pc) ==
    tr' = IF tr[t].i < Len(Slots)
          THEN [tr EXCEPT ![t].i = @ + 1]
          ELSE [tr EXCEPT ![t].i = 1, ![t].pc = pc]

(* Threads that are in os_ftrace, or in the module's functions below it. *)
Tracing == {t \in Tracers : tr[t].pc \notin {"idle", "gone", "oops"}}

(* The call takes my_ftrace from the table. *)
my_ftrace(t) ==
    /\ tr[t].pc = "idle" /\ os_ftrace = "hook"
    /\ budget.traces[t] > 0 /\ budget' = [budget EXCEPT !.traces[t] = @ - 1]
    /\ \E a \in budget.args : tr' = [tr EXCEPT ![t].pc = "check", ![t].arg = a]
    /\ deviations' = deviations
          \cup {e \in {"calls"} : Tracing # {}}
          \cup {e \in {"unload"} : tr[Admin].pc # "idle"}
    /\ UNCHANGED <<shared, wk, log>>

Check(t) ==
    /\ tr[t].pc = "check"
    /\ Goto(t, IF traced_pid # NoPid /\ tr[t].arg = traced_pid THEN "stop"
               ELSE IF tr[t].arg # NoPid THEN "start"
               ELSE "idle")
    /\ UNCHANGED <<shared, wk, budget, history>>

make_rw == writable' = TRUE
make_ro == writable' = FALSE

(* A hook is in the table, or a thread other than t is about to store one. *)
Hooks(t) ==
    \/ \E c \in Hooked : table[c] = "hook"
    \/ \E v \in Threads \ {t} : tr[v].pc \in {"save", "install"}

(* Mutant: the functions are not saved. *)
StartUnsaved(t) ==
    /\ tr[t].pc = "start"
    /\ traced_pid' = tr[t].arg
    /\ found' = TRUE
    /\ make_rw
    /\ Goto(t, "install")
    /\ Note("again", Hooks(t))
    /\ UNCHANGED <<table, real, stats, entry336, mods, wk, budget, log>>

(* Mutant: the page is not made writable. *)
StartLocked(t) ==
    /\ tr[t].pc = "start"
    /\ traced_pid' = tr[t].arg
    /\ found' = TRUE
    /\ Goto(t, "save")
    /\ Note("again", Hooks(t))
    /\ UNCHANGED <<table, real, stats, entry336, writable, mods, wk, budget, log>>

(* start_io_trace does not ask whether a trace is on. *)
Start(t) ==
    /\ tr[t].pc = "start"
    /\ traced_pid' = tr[t].arg
    /\ found' = TRUE
    /\ make_rw
    /\ Goto(t, "save")
    /\ Note("again", Hooks(t))
    /\ UNCHANGED <<table, real, stats, entry336, mods, wk, budget, log>>

Save(t) ==
    /\ tr[t].pc = "save"
    /\ LET c == Slots[tr[t].i] IN real' = [real EXCEPT ![c] = table[c]]
    /\ Advance(t, "install")
    /\ UNCHANGED <<table, found, traced_pid, stats, entry336, writable, mods,
                   wk, budget, history>>

(* A store to the table faults unless its page is writable. *)
Store(t, c, function, pc) ==
    IF writable
    THEN table' = [table EXCEPT ![c] = function] /\ Advance(t, pc)
    ELSE table' = table /\ Goto(t, "oops")

Install(t) ==
    /\ tr[t].pc = "install"
    /\ Store(t, Slots[tr[t].i], "hook", "lock")
    /\ UNCHANGED <<real, found, traced_pid, stats, entry336, writable, mods,
                   wk, budget, history>>

(* The return to my_ftrace, and from it. *)
Lock(t) ==
    /\ tr[t].pc = "lock"
    /\ make_ro
    /\ Goto(t, IF tr[t].orphan THEN "gone" ELSE "idle")
    /\ UNCHANGED <<trace, entry336, mods, wk, budget, history>>

(* stop_io_trace, called from my_ftrace and from iotrace_exit. *)
Stopped(t) == CASE t = Admin -> "free" [] tr[t].orphan -> "gone" [] OTHER -> "clear"

Stop(t) ==
    /\ tr[t].pc = "stop"
    /\ IF found THEN make_rw /\ Goto(t, "restore")
                ELSE writable' = writable /\ Goto(t, Stopped(t))
    /\ UNCHANGED <<trace, entry336, mods, wk, budget, history>>

(* Mutant: the entry of the first call is forgotten. *)
RestoreNotFirst(t) ==
    LET c == Slots[tr[t].i]
    IN  /\ tr[t].pc = "restore"
        /\ IF real[c] # "null" /\ tr[t].i > 1
           THEN Store(t, c, real[c], "relock")
           ELSE table' = table /\ Advance(t, "relock")
        /\ UNCHANGED <<real, found, traced_pid, stats, entry336, writable, mods,
                       wk, budget, history>>

Restore(t) ==
    LET c == Slots[tr[t].i]
    IN  /\ tr[t].pc = "restore"
        /\ IF real[c] # "null"
           THEN Store(t, c, real[c], "relock")
           ELSE table' = table /\ Advance(t, "relock")
        /\ UNCHANGED <<real, found, traced_pid, stats, entry336, writable, mods,
                       wk, budget, history>>

Relock(t) ==
    /\ tr[t].pc = "relock"
    /\ make_ro
    /\ Goto(t, Stopped(t))
    /\ UNCHANGED <<trace, entry336, mods, wk, budget, history>>

(* my_ftrace forgets the pid. *)
Clear(t) ==
    /\ tr[t].pc = "clear"
    /\ traced_pid' = NoPid
    /\ Goto(t, "idle")
    /\ UNCHANGED <<table, real, found, stats, entry336, writable, mods,
                   wk, budget, history>>

-----------------------------------------------------------------------------
(***************************************************************************)
(* Loading and unloading, by one administrator.  ftracehooking.c uses      *)
(* symbols of iotracehooking.c: it is loaded after it and unloaded before  *)
(* it.  Nothing keeps a module from being unloaded while its functions     *)
(* run.  kallsyms_lookup_name finds the table: a kernel that has no such   *)
(* symbol refuses the module before it does anything.                      *)
(***************************************************************************)

(* A module that is loaded again starts with its variables cleared. *)
iotrace_init ==
    /\ tr[Admin].pc = "idle" /\ mods = {}
    /\ budget.loads > 0 /\ budget' = [budget EXCEPT !.loads = @ - 1]
    /\ mods' = {"iotrace"}
    /\ real' = [c \in Hooked |-> "null"]
    /\ found' = FALSE /\ traced_pid' = NoPid
    /\ stats' = NoStats /\ log' = NoLog
    /\ UNCHANGED <<table, entry336, writable, tr, wk, deviations>>

(* hook_init of ftracehooking.c backs up the entry, ... *)
hook_init ==
    /\ tr[Admin].pc = "idle" /\ mods = {"iotrace"}
    /\ budget.loads > 0 /\ budget' = [budget EXCEPT !.loads = @ - 1]
    /\ mods' = Modules
    /\ real_os_ftrace' = os_ftrace
    /\ Goto(Admin, "hook_rw")
    /\ Note("unload", Tracing # {})
    /\ UNCHANGED <<trace, os_ftrace, writable, wk, log>>

hook_exit ==
    /\ tr[Admin].pc = "idle" /\ "ftrace" \in mods
    /\ budget.unloads > 0 /\ budget' = [budget EXCEPT !.unloads = @ - 1]
    /\ Goto(Admin, "unhook_rw")
    /\ Note("unload", Tracing # {})
    /\ UNCHANGED <<shared, wk, log>>

(* ... makes the table writable, ... *)
HookRw ==
    /\ tr[Admin].pc \in {"hook_rw", "unhook_rw"}
    /\ make_rw
    /\ Goto(Admin, IF tr[Admin].pc = "hook_rw" THEN "hook_store" ELSE "unhook_store")
    /\ UNCHANGED <<trace, entry336, mods, wk, budget, history>>

(* ... stores my_ftrace, or what was there before, ... *)
HookStore ==
    LET hooking == tr[Admin].pc = "hook_store"
    IN  /\ tr[Admin].pc \in {"hook_store", "unhook_store"}
        /\ IF writable
           THEN /\ os_ftrace' = IF hooking THEN "hook" ELSE real_os_ftrace
                /\ Goto(Admin, IF hooking THEN "hook_ro" ELSE "unhook_ro")
           ELSE os_ftrace' = os_ftrace /\ Goto(Admin, "oops")
        /\ UNCHANGED <<trace, real_os_ftrace, writable, mods, wk, budget, history>>

(* ... and protects the table.  After hook_exit the module is freed, with  *)
(* the code of my_ftrace under any thread that is still in it.             *)
HookRo ==
    /\ tr[Admin].pc \in {"hook_ro", "unhook_ro"}
    /\ make_ro
    /\ IF tr[Admin].pc = "hook_ro"
       THEN Goto(Admin, "idle") /\ mods' = mods
       ELSE /\ mods' = mods \ {"ftrace"}
            /\ tr' = [t \in Threads |->
                  CASE t = Admin -> [tr[t] EXCEPT !.pc = "idle"]
                    [] tr[t].pc \in {"check", "clear"} -> [tr[t] EXCEPT !.pc = "gone"]
                    [] OTHER -> [tr[t] EXCEPT !.orphan = t \in Tracing]]
    /\ UNCHANGED <<trace, entry336, wk, budget, history>>

(* iotrace_exit runs stop_io_trace ... *)
iotrace_exit ==
    /\ tr[Admin].pc = "idle" /\ mods = {"iotrace"}
    /\ budget.unloads > 0 /\ budget' = [budget EXCEPT !.unloads = @ - 1]
    /\ Goto(Admin, "stop")
    /\ Note("unload", Tracing # {})
    /\ UNCHANGED <<shared, wk, log>>

(* ... and the module is freed, with the code of its hooks under any       *)
(* worker that is still in one, and of start and stop under a tracer.      *)
Free ==
    /\ tr[Admin].pc = "free"
    /\ mods' = {}
    /\ wk' = [w \in Workers |-> IF wk[w].depth > 0 THEN [wk[w] EXCEPT !.pc = "gone"]
                                ELSE wk[w]]
    /\ tr' = [t \in Threads |->
                 CASE t = Admin -> [tr[t] EXCEPT !.pc = "idle"]
                   [] t \in Tracing -> [tr[t] EXCEPT !.pc = "gone"]
                   [] OTHER -> tr[t]]
    /\ UNCHANGED <<trace, entry336, writable, budget, history>>

-----------------------------------------------------------------------------
(***************************************************************************)
(* The I/O calls.                                                          *)
(***************************************************************************)
At(w, pc) == wk[w].pc = pc
Step(w, pc) == wk' = [wk EXCEPT ![w].pc = pc]

(* Worker w enters the hook of call c, another time if depth is not 0. *)
Enter(w, c, f, depth, served) ==
    /\ wk' = [wk EXCEPT ![w] = [pc |-> "load", call |-> c, file |-> f, reg |-> 0,
                                depth |-> depth, served |-> served,
                                failed |-> FALSE]]
    /\ log' = IF w = traced_pid THEN [log EXCEPT !.own[c] = @ + 1]
              ELSE [log EXCEPT !.others[c] = @ + 1]

(* The kernel takes the function of the call from the table; a hook that   *)
(* was left there when its module was freed is no code any more.           *)
SystemCall(w) ==
    /\ At(w, "idle")
    /\ budget.calls[w] > 0 /\ budget' = [budget EXCEPT !.calls[w] = @ - 1]
    /\ \E c \in Hooked, f \in Files :
         /\ c # "openat" => f = CHOOSE g \in Files : TRUE
         /\ IF table[c] = "hook" /\ "iotrace" \in mods
            THEN Enter(w, c, f, 1, 0)
            ELSE /\ wk' = [wk EXCEPT ![w].pc = IF table[c] = "hook" THEN "gone" ELSE "kernel",
                                     ![w].call = c, ![w].file = f, ![w].depth = 0,
                                     ![w].served = 0, ![w].failed = FALSE]
                 /\ log' = log
    /\ UNCHANGED <<shared, tr, deviations>>

(* Worker w loads a counter while another one that holds it, at pc, has    *)
(* not stored it yet.                                                      *)
Overlapping(w, pc) ==
    {wk[v].call : v \in {u \in Workers \ {w} : At(u, pc) /\ wk[u].call = wk[w].call}}

(* stats.x_count++ is a load and a store. *)
LoadCount(w) ==
    /\ At(w, "load")
    /\ wk' = [wk EXCEPT ![w].reg = stats.count[wk[w].call], ![w].pc = "store"]
    /\ log' = [log EXCEPT !.overlap = @ \cup Overlapping(w, "store")]
    /\ UNCHANGED <<shared, tr, budget, deviations>>

(* Mutant: bytes are not added up. *)
StoreCountOnly(w) ==
    /\ At(w, "store")
    /\ stats' = [stats EXCEPT !.count[wk[w].call] = wk[w].reg + 1]
    /\ Step(w, "forward")
    /\ UNCHANGED <<table, real, found, traced_pid, entry336, writable, mods,
                   tr, budget, history>>

StoreCount(w) ==
    LET c == wk[w].call
    IN  /\ At(w, "store")
        /\ stats' = [stats EXCEPT !.count[c] = wk[w].reg + 1]
        /\ Step(w, CASE c = "openat" -> "name"
                     [] c \in {"read", "write"} -> "loadb"
                     [] OTHER -> "forward")
        /\ UNCHANGED <<table, real, found, traced_pid, entry336, writable, mods,
                       tr, budget, history>>

(* stats.x_bytes += count, for calls that ask for one byte. *)
LoadBytes(w) ==
    /\ At(w, "loadb")
    /\ wk' = [wk EXCEPT ![w].reg = stats.bytes[wk[w].call], ![w].pc = "storeb"]
    /\ log' = [log EXCEPT !.overlap = @ \cup Overlapping(w, "storeb")]
    /\ UNCHANGED <<shared, tr, budget, deviations>>

StoreBytes(w) ==
    /\ At(w, "storeb")
    /\ stats' = [stats EXCEPT !.bytes[wk[w].call] = wk[w].reg + 1]
    /\ Step(w, "forward")
    /\ UNCHANGED <<table, real, found, traced_pid, entry336, writable, mods,
                   tr, budget, history>>

(* The name is copied only if there is none yet; the copy may fail. *)
SetFilename(w) ==
    /\ At(w, "name")
    /\ \/ /\ stats.filename = NoFile
          /\ stats' = [stats EXCEPT !.filename = wk[w].file]
       \/ stats' = stats
    /\ Step(w, "forward")
    /\ UNCHANGED <<table, real, found, traced_pid, entry336, writable, mods,
                   tr, budget, history>>

(* Worker w, in a hook, calls the hook again, as far as the stack goes. *)
Recurse(w) ==
    IF wk[w].depth < MaxDepth
    THEN Enter(w, wk[w].call, wk[w].file, wk[w].depth + 1, wk[w].served)
    ELSE Step(w, "overflow") /\ log' = log

(* Mutant: the function in the table is called, not the saved one. *)
ForwardTable(w) ==
    /\ At(w, "forward")
    /\ IF table[wk[w].call] = "kernel" THEN Step(w, "kernel") /\ log' = log
       ELSE Recurse(w)
    /\ UNCHANGED <<shared, tr, budget, deviations>>

(* real_x ? real_x(regs) : -ENOENT *)
Forward(w) ==
    LET function == real[wk[w].call]
    IN  /\ At(w, "forward")
        /\ \/ /\ function = "null"
              /\ wk' = [wk EXCEPT ![w].pc = "idle", ![w].depth = 0, ![w].failed = TRUE]
              /\ log' = log
           \/ function = "kernel" /\ Step(w, "kernel") /\ log' = log
           \/ function = "hook" /\ Recurse(w)
        /\ UNCHANGED <<shared, tr, budget, deviations>>

(* The kernel does the call, moves the byte asked for or none, and returns *)
(* through the hook, if there is one.                                      *)
Kernel(w) ==
    LET c == wk[w].call
    IN  /\ At(w, "kernel")
        /\ wk' = [wk EXCEPT ![w].pc = "idle", ![w].served = @ + 1, ![w].depth = 0]
        /\ \E n \in IF c \in {"read", "write"} /\ wk[w].depth > 0 THEN 0 .. 1 ELSE {0} :
              log' = [log EXCEPT !.got[c] = @ + n]
        /\ UNCHANGED <<shared, tr, budget, deviations>>

-----------------------------------------------------------------------------
TracerStep(t) == Check(t) \/ Start(t) \/ Save(t) \/ Install(t) \/ Lock(t) \/ Clear(t)

StopStep(t) == Stop(t) \/ Restore(t) \/ Relock(t)

AdminStep == HookRw \/ HookStore \/ HookRo \/ Free

WorkerStep(w) ==
    \/ LoadCount(w) \/ StoreCount(w) \/ LoadBytes(w) \/ StoreBytes(w)
    \/ SetFilename(w) \/ Forward(w) \/ Kernel(w)

Next ==
    \/ \E t \in Tracers : my_ftrace(t) \/ TracerStep(t)
    \/ \E t \in Threads : StopStep(t)
    \/ iotrace_init \/ hook_init \/ hook_exit \/ iotrace_exit
    \/ AdminStep
    \/ \E w \in Workers : SystemCall(w) \/ WorkerStep(w)

Spec == Init /\ [][Next]_vars

(* A thread in the kernel runs on. *)
FairSpec ==
    /\ Spec
    /\ \A t \in Tracers : WF_vars(TracerStep(t) \/ StopStep(t))
    /\ WF_vars(AdminStep \/ StopStep(Admin))
    /\ \A w \in Workers : WF_vars(WorkerStep(w))

-----------------------------------------------------------------------------
TypeOK ==
    /\ table \in [Hooked -> {"kernel", "hook"}] /\ os_ftrace \in {"kernel", "hook"}
    /\ writable \in BOOLEAN /\ found \in BOOLEAN
    /\ real \in [Hooked -> Function] /\ real_os_ftrace \in Function
    /\ traced_pid \in Workers \cup {NoPid}
    /\ stats \in Stats
    /\ mods \in {{}, {"iotrace"}, Modules}
    /\ tr \in [Threads -> Thread]
    /\ wk \in [Workers -> Worker]
    /\ budget \in Budget
    /\ log \in Log /\ deviations \subseteq Events

(* As long as no trace was started on top of another and no module was     *)
(* loaded or unloaded during os_ftrace, tracing is transparent: whatever   *)
(* starts, stops, loads and unloads happened during a call, also by two    *)
(* calls of os_ftrace at once, the kernel has done it exactly once when it *)
(* returns and no hook answered -ENOENT for it; no hook is entered twice   *)
(* for a call; and the saved functions are the original ones, as           *)
(* iotracehooking.c:15 says.  start_io_trace does not ask whether a trace  *)
(* is on: a second start is the one way to a hook that calls itself.       *)
Transparent ==
    /\ deviations \cap {"again", "unload"} = {} =>
          /\ \A c \in Hooked : real[c] # "hook"
          /\ \A w \in Workers :
               /\ wk[w].depth <= 1
               /\ wk[w].pc = "idle" => wk[w].served = 1 /\ ~ wk[w].failed
    /\ (\E w \in Workers : wk[w].pc = "overflow") => "again" \in deviations

(* No thread is in os_ftrace, an insmod or an rmmod. *)
Quiet == Tracing = {} /\ tr[Admin].pc = "idle"

(* If os_ftrace, loads and unloads come one after the other and no trace   *)
(* is started while another is on: every store to the table finds its page *)
(* writable; between them the table is protected, and hooked as a whole    *)
(* exactly while a pid is traced; once the modules are unloaded nothing of *)
(* them is left in it.                                                     *)
HooksMatchTrace ==
    /\ TypeOK
    /\ deviations = {} =>
          /\ \A t \in Threads : tr[t].pc \notin {"oops", "gone"}
          /\ Quiet =>
                /\ ~ writable
                /\ os_ftrace = "hook" <=> "ftrace" \in mods
                /\ \A c \in Hooked :
                     table[c] = "hook" <=> "iotrace" \in mods /\ traced_pid # NoPid

(* What the counters hold since the module was loaded, when no worker is   *)
(* in a hook.  ftracehooking.h:54 and :83 say the operations of the traced *)
(* process, :96 the bytes read.  The hooks look neither at traced_pid nor  *)
(* at the result: they add up the calls of all processes, so that a        *)
(* counter is what the header says only if nobody else made the call, and  *)
(* the bytes asked for, which are never less than those moved.  Updates    *)
(* are lost only if two of the same counter overlapped, and not all of     *)
(* them.                                                                   *)
CountsExact ==
    "iotrace" \in mods /\ (\A w \in Workers : wk[w].pc \in {"idle", "kernel", "gone"}) =>
        \A c \in Hooked :
            LET all == log.own[c] + log.others[c]
            IN  /\ stats.count[c] <= all /\ (all > 0 => stats.count[c] > 0)
                /\ c \notin log.overlap =>
                      /\ stats.count[c] = all
                      /\ (stats.count[c] = log.own[c]) <=> (log.others[c] = 0)
                      /\ stats.bytes[c] >= log.got[c]
                      /\ stats.bytes[c] = IF c \in {"read", "write"} THEN all ELSE 0

(* Every I/O call returns, unless the module is unloaded under it or a     *)
(* second start has made the hooks call themselves; and every call of      *)
(* os_ftrace, insmod and rmmod, unless they were not one after the other.  *)
CallsReturn ==
    /\ \A w \in Workers : wk[w].pc # "idle" ~>
          \/ wk[w].pc \in {"idle", "gone"}
          \/ wk[w].pc = "overflow" /\ "again" \in deviations
    /\ \A t \in Threads : tr[t].pc # "idle" ~>
          \/ tr[t].pc = "idle"
          \/ tr[t].pc \in {"gone", "oops"} /\ deviations \cap {"calls", "unload"} # {}

=============================================================================
