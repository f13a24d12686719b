---------------------------- MODULE SyscallHook -----------------------------
(***************************************************************************)
(* The modules that replace an entry of sys_call_table: os_ftracehooking   *)
(* (Assignment 1-2, entry 548), Process_tracer (Assignment2-1) and         *)
(* file_varea (Assignment3-1), which both replace entry 336.  Each has its *)
(* own insmod or rmmod under way while other processes make the calls.     *)
(*                                                                         *)
(* Nothing in the modules keeps two loads apart, keeps the order of the    *)
(* unloads, or waits for calls: what the administrator does is any of it,  *)
(* and deviations records what was not one at a time, not last in first    *)
(* out, or not without calls, and whether the kernel is one that has no    *)
(* symbol sys_call_table.  The whole table has one protection bit.         *)
(***************************************************************************)
EXTENDS Naturals, Sequences, SequencesExt

CONSTANTS
    Callers,    \* the processes that call
    Stack,      \* the calls of modules that fit on the kernel's stack
    MaxLoads,   \* bound: loads and unloads
    MaxCalls    \* bound: calls

Modules == {"os_ftracehooking", "Process_tracer", "file_varea"}
Slots == {336, 548}
Slot(m) == IF m = "os_ftracehooking" THEN 548 ELSE 336

(* The entry of the kernel: os_ftrace, or sys_ni_syscall. *)
Original == "original"
Functions == Modules \cup {Original}

(* Mutants: the entry is not saved; the table stays protected; the entry   *)
(* is saved when it is replaced already.                                   *)
InitUnsaved(m) == <<"rw", "store", "ro">>
InitProtected(m) == <<"save", "store", "ro">>
InitSavesLate(m) == <<"rw", "store", "save", "ro">>

(* hook_init and info_init, statement by statement. *)
InitSteps(m) == IF m = "file_varea" THEN <<"rw", "save", "store", "ro">>
                ELSE <<"save", "rw", "store", "ro">>

(* Mutant: the entry is left. *)
ExitKeepsHook(m) == <<"rw", "ro">>

(* hook_exit and info_exit. *)
ExitSteps(m) == <<"rw", "restore", "ro">>

(* st: "in" also while the steps of a load or an unload are left.          *)
Module == [st : {"out", "in", "fault"}, todo : Seq(STRING), leaving : BOOLEAN,
           saved : Functions \cup {"none"}]

(* at: the function that runs next, "return" after one has ended, "none"   *)
(* outside of calls.  frames: the modules below it.  done: what has run.   *)
(* want: what had to run when the call was made.                           *)
Call == [at : Functions \cup {"return", "none", "crash"}, frames : Seq(Modules),
         done : Seq(Functions), want : Seq(Functions)]
NoCall == [at |-> "none", frames |-> <<>>, done |-> <<>>, want |-> <<>>]

VARIABLES
    table, writable,
    mod, call,
    loaded,     \* the modules whose entry was stored, in that order
    deviations, left

vars == <<table, writable, mod, call, loaded, deviations, left>>

Init ==
    /\ table = [s \in Slots |-> Original]
    /\ writable = FALSE
    /\ mod = [m \in Modules |-> [st |-> "out", todo |-> <<>>, leaving |-> FALSE,
                                 saved |-> "none"]]
    /\ call = [c \in Callers |-> NoCall]
    /\ loaded = <<>>
    /\ deviations \in {{}, {"nosymbol"}}
    /\ left = [loads |-> MaxLoads, calls |-> MaxCalls]

-----------------------------------------------------------------------------
(***************************************************************************)
(* insmod and rmmod.                                                       *)
(***************************************************************************)
Busy(m) == mod[m].todo # <<>>
OfSlot(s) == SelectSeq(loaded, LAMBDA m : Slot(m) = s)
InUse(m) == \E c \in Callers : call[c].at = m \/ m \in Range(call[c].frames)

Deviate(set) == deviations' = deviations \cup set
OverlapNow(m) == IF \E x \in Modules \ {m} : Busy(x) THEN {"overlap"} ELSE {}

(* hook_init returns an error if kallsyms_lookup_name finds no table;      *)
(* info_init does not ask, and faults in make_rw.                          *)
insmod(m) ==
    /\ mod[m].st = "out" /\ left.loads > 0
    /\ mod' = IF "nosymbol" \notin deviations
              THEN [mod EXCEPT ![m] = [st |-> "in", todo |-> InitSteps(m), leaving |-> FALSE,
                                       saved |-> "none"]]
              ELSE IF m = "file_varea" THEN [mod EXCEPT ![m].st = "fault"]
              ELSE mod
    /\ Deviate(OverlapNow(m))
    /\ left' = [left EXCEPT !.loads = @ - 1]
    /\ UNCHANGED <<table, writable, call, loaded>>

(* That nothing was saved, when hook_exit returns at once, cannot be after *)
(* a load.                                                                 *)
rmmod(m) ==
    /\ mod[m].st = "in" /\ ~ Busy(m) /\ left.loads > 0
    /\ mod' = [mod EXCEPT ![m].leaving = TRUE,
                          ![m].todo = ExitSteps(m)]
    /\ Deviate(OverlapNow(m) \cup (IF Last(OfSlot(Slot(m))) = m THEN {} ELSE {"order"}))
    /\ left' = [left EXCEPT !.loads = @ - 1]
    /\ UNCHANGED <<table, writable, call, loaded>>

(* One statement of a module's init or exit function.  After the last one  *)
(* of exit the code is freed.                                              *)
Advance(m) ==
    LET rest == Tail(mod[m].todo)
    IN  IF mod[m].leaving /\ rest = <<>>
        THEN [mod EXCEPT ![m] = [st |-> "out", todo |-> <<>>, leaving |-> FALSE,
                                 saved |-> "none"]]
        ELSE [mod EXCEPT ![m].todo = rest]

Due(m, s) == Busy(m) /\ Head(mod[m].todo) = s

make_rw(m) ==
    /\ Due(m, "rw")
    /\ writable' = TRUE
    /\ mod' = Advance(m)
    /\ UNCHANGED <<table, call, loaded, deviations, left>>

make_ro(m) ==
    /\ Due(m, "ro")
    /\ writable' = FALSE
    /\ mod' = Advance(m)
    /\ Deviate(IF mod[m].leaving /\ InUse(m) THEN {"calls"} ELSE {})
    /\ UNCHANGED <<table, call, loaded, left>>

Save(m) ==
    /\ Due(m, "save")
    /\ mod' = [Advance(m) EXCEPT ![m].saved = table[Slot(m)]]
    /\ UNCHANGED <<table, writable, call, loaded, deviations, left>>

(* A store to a protected page faults. *)
Store(m, s, f, list) ==
    /\ Due(m, s)
    /\ IF writable
       THEN /\ table' = [table EXCEPT ![Slot(m)] = f]
            /\ mod' = Advance(m)
            /\ loaded' = list
       ELSE /\ mod' = [mod EXCEPT ![m].st = "fault", ![m].todo = <<>>]
            /\ UNCHANGED <<table, loaded>>
    /\ UNCHANGED <<writable, call, deviations, left>>

Install(m) == Store(m, "store", m, Append(loaded, m))
Restore(m) == Store(m, "restore", mod[m].saved, SelectSeq(loaded, LAMBDA x : x # m))

-----------------------------------------------------------------------------
(***************************************************************************)
(* The calls.                                                              *)
(***************************************************************************)

(* What a call of an entry runs, with the given modules on it: the last    *)
(* one loaded first.  my_ftrace logs and forwards, the trampoline forwards *)
(* and traces, file_varea does not forward.                                *)
Runs(s, list) ==
    IF s = 548 THEN (IF list = <<>> THEN <<Original>> ELSE <<"os_ftracehooking", Original>>)
    ELSE CASE list = <<>> -> <<Original>>
           [] list = <<"Process_tracer">> -> <<Original, "Process_tracer">>
           [] list = <<"file_varea", "Process_tracer">> -> <<"file_varea", "Process_tracer">>
           [] OTHER -> <<"file_varea">>

SystemCall(c) ==
    /\ call[c].at = "none" /\ left.calls > 0
    /\ \E s \in Slots :
          call' = [call EXCEPT ![c] = [NoCall EXCEPT !.at = table[s], !.want = Runs(s, OfSlot(s))]]
    /\ left' = [left EXCEPT !.calls = @ - 1]
    /\ UNCHANGED <<table, writable, mod, loaded, deviations>>

Others == <<table, writable, mod, loaded, deviations, left>>

os_ftrace(c) ==
    /\ call[c].at = Original
    /\ call' = [call EXCEPT ![c].at = "return", ![c].done = Append(@, Original)]
    /\ UNCHANGED Others

(* Mutant: the entry of the table in the place of the saved one. *)
ForwardTable(m) == table[Slot(m)]

Forward(m) == mod[m].saved

Enters(c, m) == call[c].at = m /\ mod[m].st # "out" /\ Len(call[c].frames) < Stack

(* my_ftrace of os_ftracehooking *)
my_ftrace(c) ==
    /\ Enters(c, "os_ftracehooking")
    /\ call' = [call EXCEPT ![c].at = Forward("os_ftracehooking"),
                            ![c].frames = Append(@, "os_ftracehooking"),
                            ![c].done = Append(@, "os_ftracehooking")]
    /\ UNCHANGED Others

(* The trampoline, to real_os_ftrace(regs). *)
os_ftrace_trampoline(c) ==
    /\ Enters(c, "Process_tracer")
    /\ call' = [call EXCEPT ![c].frames = Append(@, "Process_tracer"),
                            ![c].at = IF mod["Process_tracer"].saved = "none" THEN "return"
                                      ELSE Forward("Process_tracer")]
    /\ UNCHANGED Others

(* The walk of file_varea is in AddressSpace. *)
file_varea(c) ==
    /\ Enters(c, "file_varea")
    /\ call' = [call EXCEPT ![c].at = "return", ![c].done = Append(@, "file_varea")]
    /\ UNCHANGED Others

(* Back in the module below, which for Process_tracer goes on with         *)
(* process_tracer, or in the process.                                      *)
Return(c) ==
    LET below == Last(call[c].frames)
    IN  /\ call[c].at = "return" /\ call[c].frames # <<>>
        /\ mod[below].st # "out"
        /\ call' = [call EXCEPT ![c].frames = Front(@),
                        ![c].done = IF below = "Process_tracer" THEN Append(@, below) ELSE @]
        /\ UNCHANGED Others

Leave(c) ==
    /\ call[c].at = "return" /\ call[c].frames = <<>>
    /\ call' = [call EXCEPT ![c] = NoCall]
    /\ UNCHANGED Others

(* The code that would run is gone, or the stack is full. *)
Crash(c) ==
    /\ \/ call[c].at \in Modules /\ ~ Enters(c, call[c].at)
       \/ /\ call[c].at = "return" /\ call[c].frames # <<>>
          /\ mod[Last(call[c].frames)].st = "out"
    /\ call' = [call EXCEPT ![c] = [NoCall EXCEPT !.at = "crash"]]
    /\ UNCHANGED Others

-----------------------------------------------------------------------------
ModuleStep(m) == make_rw(m) \/ make_ro(m) \/ Save(m) \/ Install(m) \/ Restore(m)

CallStep(c) ==
    \/ os_ftrace(c) \/ my_ftrace(c) \/ os_ftrace_trampoline(c) \/ file_varea(c)
    \/ Return(c) \/ Leave(c) \/ Crash(c)

Next ==
    \/ \E m \in Modules : insmod(m) \/ rmmod(m) \/ ModuleStep(m)
    \/ \E c \in Callers : SystemCall(c) \/ CallStep(c)

Spec == Init /\ [][Next]_vars

(* A call or a load that has begun goes on. *)
FairSpec ==
    /\ Spec
    /\ \A m \in Modules : WF_vars(ModuleStep(m))
    /\ \A c \in Callers : WF_vars(CallStep(c))

-----------------------------------------------------------------------------
(***************************************************************************)
(* Properties.                                                             *)
(***************************************************************************)

(* The state is well-formed: nothing that was not saved is called. *)
TypeOK ==
    /\ table \in [Slots -> Functions] /\ writable \in BOOLEAN
    /\ mod \in [Modules -> Module] /\ call \in [Callers -> Call]
    /\ loaded \in Seq(Modules)
    /\ deviations \subseteq {"overlap", "order", "calls", "nosymbol"}

(* Loads and unloads one after the other, of whatever modules, never store *)
(* into the protected table and leave it protected; what faults is, at     *)
(* most, info_init in a kernel without the symbol.                         *)
StoresAllowed ==
    "overlap" \notin deviations =>
        /\ \A m \in Modules :
             mod[m].st = "fault" => m = "file_varea" /\ "nosymbol" \in deviations
        /\ (\A m \in Modules : ~ Busy(m)) => ~ writable

(* Every store finds the table writable, as StoresAllowed says.  If loads  *)
(* and unloads are, besides, last in first out, from each entry the saved  *)
(* functions lead through the modules loaded on it, the last one first, to *)
(* the function of the kernel; when all are unloaded the table is as it    *)
(* was.                                                                    *)
ChainExact ==
    /\ TypeOK
    /\ StoresAllowed
    /\ deviations \cap {"overlap", "order"} = {} =>
          \A s \in Slots :
              LET list == OfSlot(s)
              IN  /\ table[s] = IF list = <<>> THEN Original ELSE Last(list)
                  /\ \A i \in DOMAIN list :
                        mod[list[i]].saved = IF i = 1 THEN Original ELSE list[i - 1]

(* If, besides, no module is unloaded under a call, no call runs code that *)
(* is not there: it runs, once each and in order, the functions that were  *)
(* on its entry when it was made, whatever is loaded or unloaded           *)
(* meanwhile.                                                              *)
CallsForward ==
    deviations \subseteq {"nosymbol"} => \A c \in Callers :
        /\ call[c].at # "crash"
        /\ \A m \in Modules : call[c].at = m \/ m \in Range(call[c].frames) => mod[m].st = "in"
        /\ call[c].at = "return" /\ call[c].frames = <<>> => call[c].done = call[c].want

(* Such a call returns.  (A module unloaded below another one and loaded   *)
(* again after that one is gone, at the same address, forwards to itself.) *)
CallsReturn ==
    \A c \in Callers :
        call[c].at # "none" ~> (call[c].at = "none" \/ ~ (deviations \subseteq {"nosymbol"}))

=============================================================================
