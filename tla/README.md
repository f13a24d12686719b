# TLA+ models of the operating-system assignments

This directory holds TLA+ specifications of the programs in this repository,
the TLC configurations that check them on small instances, and TLAPS proofs of
their most important properties for every instance.  Paths below are relative
to `src/`.

## 1. The system and its parts

The repository is a set of programs, kernel modules and a patched kernel file,
one group per assignment.  The modules meet in the kernel: they replace entries
of one system call table, and they walk tasks and memory areas that the
kernel's `fork.c` makes.

| Part | Source | Modules here |
|---|---|---|
| FAT file system | `Assignment4/Assignment4-2/fat.c` | `FatFS`, abstract `FileStore` |
| Page replacement simulator | `Assignment3/Assignment3-2/page_replacement_simulator.c` | `PageReplacement` |
| CPU scheduling simulator | `Assignment2/Assignment2-3/cpu_scheduler.c` | `CpuScheduler` |
| I/O tracing | `Assignment1/Assignment 1-3/` | `IoTrace` |
| Process creation with `fork_count` | `Assignment2/Assignment2-1/fork.c`, `sched.h`, `init_task.c` | `KernelFork`; the address space in `AddressSpace` |
| Memory area tracer | `Assignment3/Assignment3-1/file_varea.c` | `AddressSpace` (the call), `SyscallHook` (the hook) |
| Process tracer | `Assignment2/Assignment2-1/Process_tracer.c` | `TaskLists` (the call), `SyscallHook` (the hook) |
| `os_ftrace` and its hook | `Assignment1/Assignment 1-1/`, `1-2/` | `SyscallHook` |
| `/proc` process table | `Assignment4/Assignment4-1/proc_info.c` | `TaskLists` |
| Sums by processes and threads | `Assignment2/Assignment2-2/` | `Sums`, abstract `SumSpec` |

Each has an `MC` module and configurations for TLC; proofs are in `FatFSProof`,
`FatFSChainsProof`, `SumsProof`, `SyscallHookProof` and `KernelForkProof`.
Definitions keep the names of the functions they model.  A definition whose
comment begins with "Mutant" is a plausible mistake in the definition after it; putting it in place
of that definition makes a property fail, which is how the properties were
tested.  Invariants that only say that the state is well-formed are conjuncts of
a deeper one (`CountsExact`, `ChainExact`, ...) except in `FatFS`.

What is hard about these parts, and what the properties are about:

- **FAT**: every invocation loads, changes and saves the whole file system, in
  place and without a lock; block 0 has the number that marks a free block; a
  full last block; a full disk in the middle of a write; kills.
- **Schedulers and page replacement**: arrivals within a context switch, idle
  gaps, ties; what each policy promises.
- **Hooks**: modules that save and restore the same entry in any order, calls
  in flight, counters updated by several CPUs.
- **fork**: twenty acquisitions, each of which may fail; `vfork` and its pointer
  into a stack; signals during a fork; references shared between tasks.
- **Walks**: over areas (with a lock and a reference) and over tasks (with
  neither), while everything changes.
- **Sums**: an exit status has eight bits; failures half-way.

## 2. FatFS

Module `FatFS` models `fat.c`.  A process is one invocation of `./fat`.

| Code | Model |
|---|---|
| `myfat` of a process | `mem[p]` |
| `fs_state.dat` | `disk` (no file, or an empty one, is `ZeroImage`) |
| where the process is, its locals | `pc[p]`, `loc[p]` |
| `main`, `load_file_system` | `Load`, `Exit` |
| `create_file` | `create_file` (`Created`) |
| `write_file` | `WriteOpen`, `WriteWalk`, `WriteSeek`, `WriteChunk`, `WriteDone` |
| `read_file` | `ReadOpen`, `ReadBlock`, `ReadDone` |
| `delete_file` | `DeleteOpen`, `DeleteBlock`, `DeleteDone` |
| `list_files`, usage errors | `Other` |
| `save_file_system` | `SaveOpen`, `SaveFails`, `SavePart`, `SaveLast` |
| a kill, a short `fwrite` | `Crash` |

Loops that follow a chain take one step per iteration, so that a chain that
never ends shows as a behaviour that never ends.  The loops over the directory
and the FAT take the smallest index that matches.  The save reaches the file
from its start in several writes; it may be interrupted after any part in
`Cuts` (the FAT fills exactly one page, then come the entries, then the
blocks).  A short file leaves the rest of the zero-initialised `myfat` zero.

Two history variables do not exist in the code: `files`, a field of an image
that says what the commands executed on it have stored under each name, and
`deviations`, the events after which a promise no longer holds:

- `zero_link`: a link to block 0 was made;
- `no_name`: write or delete was used with the empty name;
- `torn`: a process was killed while it saved, or a load or another save began
  while one saved;
- `full_append`: data was appended to a file whose last block is full;
- `overlap`: a process started while another one ran.

The early returns for block numbers out of range (`fat.c:138`, `159`, `231`)
and the test for `-1` (`fat.c:221`) have no action: `TypeOK` says that they are
never reached, and `TypeCorrect` proves it.

### Runs

| Run | Checks |
|---|---|
| `fat_core` | one process at a time with kills, 3 blocks of 2 bytes, 2 entries, data of one byte and of one and a half blocks. `FatStaysSound`: every chain ends and has as many blocks as the size says, and no two meet. `BlocksClaimedOnce`. `CommandsAtomic`: the refinement below |
| `fat_overlap` | two processes, 2 blocks, 1 entry that two names compete for. `ReadReturnsWritten`: an image, whoever saved it, reads back what was written to it |
| `fat_damage` | one process, 2 blocks, 2 entries, sizes up to 3 blocks, explored beyond all damage, with the empty name. `TypeOK`: no index leaves its range. `DeleteTerminates`, under weak fairness: `delete_file` ends as long as nothing is damaged |
| `fat_full_append` | refutes `WriteAppends`, see section 7 |

**Refinement.**  `FileStore` is what the commands promise: named sequences of
bytes, on which create, write and delete act at once.  `MCFatFS` maps to it the
files that the directory, the chains and the data area of the current image
describe (`Decoded`), where the current image is the one being saved or else
`fs_state.dat` (`Current`): a command takes effect when the save opens the file.
`CommandsAtomic` (`Files!StoreSpec`) says that all the steps of a command, its
loops and the several writes of its save included, make one step of the store,
and that loads and kills before the save make none, until an event of
`deviations` voids the promise (`Broken`).

Three blocks of two bytes are enough for a chain of three, for two files that
compete for blocks, for a full disk in the middle of a write, for the walk over
a full block and for the reuse of freed blocks in another order; two entries
for the reuse of an entry.  `MaxSize` bounds the size a write may lead to;
without it only the size of a file whose disk is full would grow no further,
but a write that overwrites its last block could grow it for ever.  In
`fat_core` and `fat_overlap` the search stops at a damaged state
(`BeforeDamage`), because no property checked there promises anything after it.
Names and processes are symmetric.

Fairness: a process that runs goes on running (`WF` of its steps, one condition
per process), as the scheduler of the operating system guarantees.  Nothing
forces an invocation to be started, and a kill is never forced.

### Proofs

`FatFSProof` proves `TypeCorrect` (`Spec => []TypeOK`).  `TypeOK` is not
inductive alone: `TypeInv` adds what a handler knows of its locals (`LocOK`:
the block a write is at is a block, the bytes written are not more than the
data).

`FatFSChainsProof` proves `ClaimsCorrect` (`Spec => []BlocksClaimedOnce`) and
`DeleteProgresses` (`Spec => []DeleteFreesUsedBlocks`).  The argument: as long
as there is no damage, each block in use can be given an owner (a directory
entry) and a place (the offset of its first byte in the file) such that the
first block of a file has place 0, a link leads to the next place of the same
owner, no two blocks have owner and place in common, and every block at a
positive place has a predecessor (`Placed`).  `ChainInv` says this of every
image, weakened for the handlers in the middle of their work (`Walking`,
`Appending`, `Freeing`), and that the file holds the first parts of the image
of the one process that saves (`DiskInv`).  There is one lemma per way in which
an operation changes the FAT.  In `WriteDone` the place argument shows why the
size and the chain agree.

The proofs use only the assumptions named in `FatFS`: sizes are positive, the
end mark is not a block number, the empty name is no name, and NUL is no
character of the data.

`BlocksClaimedOnce` is checked by `fat_core`.  `DeleteFreesUsedBlocks` is the
step behind `DeleteTerminates`: each iteration of the loop of `delete_file`
frees a block that was in use.

That chains are finite and followed to their end (`FatStaysSound`), what
`read_file` prints (`ReadReturnsWritten`), the refinement and liveness are
checked with TLC only: they need induction along the chain, or fairness.

## 3. The programs

### PageReplacement

Models `page_replacement_simulator.c`: `read_input`, then the four simulations
on the same input, one step per reference (Clock: per turn of the hand).  The
frames, the FIFO position, the times of LRU and the reference bits with the
hand are variables; `result` collects the faults.  `read_input` may leave the
frame count unassigned, which is a choice from `Garbage`; `main` goes on after
an error, as in the code.

| Run | Checks |
|---|---|
| `page_all` | every string of up to 8 references to 4 pages with 1 to 3 frames; strings of up to 6 with the mark -1 as a page; frame counts that are missing, 0, negative or too large; the test cases of the README. `OptIsOptimal`: no choice of victims gives fewer faults (against a recursive definition of the minimum). `FramesFollowPolicy`: FIFO holds the pages loaded last and LRU those used last, the hand of Clock passes each frame at most once, no index leaves its array |

Four pages and three frames are the smallest instance in which every policy
has to choose among several victims; eight references let a page be loaded,
replaced and loaded again after the frames are full.

### CpuScheduler

Models `cpu_scheduler.c`.  Times are integers whose unit is the context switch
of 0.1 ms (`MS` of them are a millisecond); the code's tolerance of 1e-9 makes
its floating-point times multiples of it.  A step is one iteration of the loop
of a simulation: `simulate_FCFS`, `simulate_SJF`, `simulate_SRTF`, and for RR
`RRIdle` and `RRTurn`, after `Start` filled its queue.  `Finish` is the end of
the loop, or the `break` of RR, and the printing.  A program may also stop
otherwise: SRTF and RR take the end of the chart from its last segment and crash
if there is none (`crash`), and the push after `MAX_TASKS` of them writes behind
the array of RR's queue (`overrun`).  The history variable `missed` holds the
processes that arrived within a context switch of RR.  Pids are distinct and
not negative, times not negative.

| Run | Checks |
|---|---|
| `sched_all` | all tables of up to 3 processes, arrivals 0 to 4 ms, bursts 0 to 3 ms, the four algorithms, quanta 1 and 2. `ChartAccounts`: the segments cover the time without gap or overlap, give each process what it was served, and show the CPU idle only when nobody waits. `AllComplete`: when the program prints, every process is served fully and shows in the printed chart, and one that RR missed was served fully or not at all; the program crashes exactly when the processes arrive at 0 with nothing to do. `NonPreemptiveOrder` (FCFS, SJF), `SrtfRunsShortest`, `RrQueueExact`: each policy; the last one also says that the array of the queue is overrun exactly when the turns need more places than it has. `Terminates` |

`MAX_TASKS` is 6 where the code has 1000: the tables need up to nine turns of
RR, and one more table has seven processes, more than are read.  `MS` is 2, so that two switches, not ten, lead to a whole millisecond and
arrivals coincide with the end of a switch.  Three processes are enough for a
preemption, a waiting third and an idle gap.

### Sums

Models `numgen.c`, `fork.c` and `thread.c` of Assignment 2-2, which a shell runs
one after the other in any order: `numgen`, then `read_input`, `Create`,
`StartWaiting`, the wait for one worker after the other, and `printf`, which
`fork` and `thread` have in common but for `waitpid` and `pthread_join`.
Children end in any order with `ChildExits` or are killed; `fork`,
`pthread_create`, `malloc` and `waitpid` may fail, and SIGCHLD may be ignored.
Children that nobody waits for go on.

| Run | Checks |
|---|---|
| `sums` | 1 to 3 processes, a file for 2 or 3, four programs. `SumsExact`: each part and the printed sum is right as long as the last part, 4n - 1, fits the exit status, that is for up to 64 processes. `ResultsCollected`: each worker is waited for once and its memory freed once. `SumsUp`: the refinement of `SumSpec`, in which a program reads the file and prints its sum in one step; where the sum of a pair does not fit, `fork` may print less. `ProgramsEnd` |

`Modulus` is 8 where the code has 256, so that three processes exceed it and two
do not.

## 4. The modules that hook and walk

### IoTrace

Models `iotracehooking.c` and `ftracehooking.c` of Assignment 1-3.  Tracers
call `os_ftrace` (`my_ftrace`, `Check`, then `Start` .. `Lock` for
`start_io_trace` or `Stop` .. `Clear` for `stop_io_trace`), one entry of the
table per step; workers make I/O calls, which take the function from the table
(`SystemCall`), update the counters in a load and a store each, and forward to
the saved function (`Forward`, `Kernel`).  An administrator loads and unloads the
two modules at any time, one access per step (`hook_init` and `hook_exit`, then
`HookRw` .. `HookRo`; `iotrace_init`; `iotrace_exit`, then `Stop` .. `Free`); a
thread that is in the code of a module when it is freed is `gone`.

Two variables are history.  `log` counts the calls of each hook by the traced
process and by others, the bytes the kernel moved in them, and the overlapping
updates.  `deviations` records a start on top of another trace (`again`), two
calls of `os_ftrace` at once (`calls`) and a module loaded or unloaded during one
(`unload`).

| Run | Checks |
|---|---|
| `io_trace` | two workers, two tracers, the administrator. `Transparent`: unless a trace was started on top of another, or a module unloaded under `os_ftrace`, every call is done exactly once by the kernel, whatever starts and stops during it; and only a second start makes a hook call itself. `HooksMatchTrace`: as long as there are no deviations, the table is stored to only while writable, agrees with `traced_pid` between calls, and keeps nothing after unloading. `CountsExact`: what the counters really hold: the calls of all processes and the bytes asked for, less only what overlapping updates lost. `CallsReturn` |

What may happen is one of six budgets (`Cases` in `MCIoTrace`), as all at once
would be too many states: all five hooked calls under two workers; a worker's
second call; a second start, or a stop, under two workers; three starts and
stops; two tracers; unloading and loading again.  A hook that calls itself does so
until the stack is full, `MaxDepth` calls.  A read or write asks for one byte and
moves one or none.

### SyscallHook

Models loading, unloading and calling the three modules that replace one entry
each: `os_ftracehooking` (548), `Process_tracer` and `file_varea` (both 336).
`insmod` and `rmmod` begin the init and exit functions, whose statements
(`make_rw`, `Save`, `Install`, `Restore`, `make_ro`) are one step each, in the
order of `InitSteps` and `ExitSteps`; `file_varea` makes the table writable
before it saves, the others after.  A call takes the entry (`SystemCall`) and
goes from hook to saved function (`my_ftrace`, `os_ftrace_trampoline`,
`file_varea`) to `os_ftrace`, and back.  The administrator is bound by nothing;
`deviations` records what was not one at a time (`overlap`), not last in first
out (`order`) or not without a call in the module (`calls`).  It also says
whether the kernel is one in which `kallsyms_lookup_name` finds no table
(`nosymbol`): two modules then refuse to load, `file_varea`, which does not ask,
faults.

| Run | Checks |
|---|---|
| `hooks` | three modules, 5 loads and unloads, 2 calls, a stack for 3 calls. `ChainExact`: one at a time is enough for every store to be allowed, and only `file_varea` without the symbol faults; with last in first out the saved functions form a chain to the kernel's. `CallsForward`: if besides nothing is unloaded under a call, each call runs what was on its entry, once and in order, and no code that is gone. `CallsReturn` |

Five loads and unloads are enough for both modules of entry 336 to be loaded,
one of them unloaded below the other and loaded again.  Simplifications: the
whole table has one protection bit; a module that is loaded again gets the
address it had.

**Proof.**  `SyscallHookProof` proves `StoresSafe` (`Spec => []StoresAllowed`,
the second conjunct of `ChainExact`) for any number of loads, unloads, callers
and calls: without overlap no store meets the protected table, and the table is
protected when no load or unload is under way.  `StoresAllowed` is not inductive;
`HookInv` adds that the statements left of a load or unload are a rest of one of
the three bodies, that at most one module has any left, and that the table is
writable exactly while they are a rest that begins behind `make_rw` (`Within`).

### TaskLists

Models the two walks over the kernel's lists of tasks: `oslab_read` of
`proc_info.c`, with `oslab_open`, `oslab_write` and loading and unloading, and
`process_tracer`, which finds a task and then, in later steps, lists its
siblings and children (`process_tracer`, `FirstSibling`, `ListSiblings`,
`ListChildren`).  The module's globals
`oslab_is_processed`, `filter_pid` and `write_flag` are shared by all users.
Meanwhile tasks are forked (`copy_process`), exit (`Exit`, which gives the
children to init) and are freed after a grace period.  A task taken out of the
task list still leads to the next one (`list_del_rcu`), one taken out of its
siblings to itself.

| Run | Checks |
|---|---|
| `task_lists` | two users, five tasks. `MemorySound`: no walk is at a freed task, no line is cut at the end of the buffer, buffers are leaked by failing copies only. `ReadExact`: a read lists every process that stays, none twice, the filter applies, and undisturbed sessions get the table once. `KinListed`: `process_tracer` lists the kin that stays, once each, unless the very task it is at is moved. `WalksEnd` |

There are three budgets: several calls of the file, few calls with forks and
exits, a trace with forks and exits; all at once would be too many states.
The buffer has room for 12 units, lines have 2 or 3, so that tables are cut and
not cut.  Simplifications: the kernel is built without `CONFIG_PREEMPT`, so that
a walk delays the end of the grace period although it takes no RCU lock; the
text written is shorter than its buffer; a `copy_from_user` that fails changes
nothing; `remove_proc_entry` waits for readers; exit and release of a task are
one step.

## 5. Process creation

`Assignment2-1/fork.c` is the kernel's own file with the counter `fork_count`
added.  Because the assignments rely on it, it is modelled in two modules: the
tasks in `KernelFork`, their memory in `AddressSpace`.  What it calls in other
files of the kernel, and exec, exit, signals, mmap and munmap, are external and
modelled as `fork.c` uses them.

### KernelFork

| Code | Model |
|---|---|
| the entries `fork`, `vfork`, `clone`, `clone3`, `kernel_thread`; the checks of flags | `_do_fork`, with `EntryValid`, `KernelFlags`, `FlagsValid` |
| `copy_process`, in its order | `CollectSignals`, `SignalPending`, `dup_task_struct`, `CheckNproc`, `copy_creds`, `CheckLimit`, `copy_files` .. `copy_mm`, `CopyOwn` (what one task owns alone), `Attach` (the part under `tasklist_lock`) |
| its failures and `bad_fork_*` | `CopyFails`, `AttachFails`, `FailLabel`; `Undo`, one label per step; `fork_out` |
| the rest of `_do_fork`, with `fork_count` | `FinishFork`, `wake_up_new_task`, `wait_for_vfork_done`, `ClearVfork`, `PutChild` |
| `mm_release`, `complete_vfork_done` | `mm_release`, `complete_vfork_done`, in exec and exit |
| `put_task_struct`, `__put_task_struct`, `free_task` | `PutTask`, `release_task` |
| `ksys_unshare` | `ksys_unshare`, `unshare_fs`, `unshare_fd`, `UnshareSwap`, `UnshareFails` |
| `sysctl_max_threads` | the action of this name |

A task holds resources; five kinds are objects with a reference count that tasks
share (`Kinds`), the others belong to one task.  The history field `made` of a
task counts the tasks it created by `fork()`, those it created otherwise, and its
calls of `fork()` that failed.

| Run | Checks |
|---|---|
| `kernel_fork` | four task_structs, two of them in use at first, 2 calls of fork or unshare. In the beginning (`Starts`) the two are processes that share nothing, with or without one failure, signal, exec or write to the sysctl; processes that share what `unshare` unshares; or threads of one process. `CountsExact`: every count is the number of references, and `nr_threads`, `process_counts` and the user's processes agree with the tasks. `UnwindExact`: every failure enters the labels at the right one. `RelationsKept`: shared signal handlers imply shared memory; no task has a parent that is gone. `VforkSound`: the pointer into the parent's stack is cleared in time, no wake-up is lost and (`ChildHeld`) the child's `task_struct` is not freed under `_do_fork`. `ForkCounted`: `fork_count` is the number of tasks created, by whatever call; it is the number of calls of `fork()` only if as many of them failed. `GroupSignalReachesChild`: a signal during a fork restarts it or reaches the child. `UnsharePrivate`: what a task unshared is its own, also if two unshare the same object at once |

The calls are `fork`, `vfork`, a thread as `pthread_create` makes it, `clone3` with
`CLONE_PARENT`, `CLONE_PIDFD` and `CLONE_FS`, and a `clone` whose flags are
refused.  With an event, plain `fork` is called alone, the others in twos: what it
copies they copy too.  One event is enough for every failure label, as a fork
fails once.  Two calls are enough for a fork by a task while its parent, its child or (from the
last beginning) its sibling thread forks, for two tasks that unshare the same
object (from the last but one), and for a limit reached by both.  Tasks that are free at
first are symmetric.

Simplifications: acquisitions between two counted ones that belong to the child
alone are one step; `release_task` and the end of the grace period are one step,
`finish_task_switch` is part of the exit; `total_forks`, pid namespaces,
`io_context`, seccomp and the cache of stacks are left out; signals are not
blocked; there is one user, and `Root` is privileged; a call refused for its
arguments makes no step.

**Proofs.**  `KernelForkProof` proves `ForksCounted` (`Spec => []ForkCounted`) and
`ChildStays` (`Spec => []ChildHeld`), for any number of tasks, calls and events.
Both rest on one inductive invariant, `FInv`.  It divides a fork into phases
(`Phase`): building an embryo, finishing, waking, waiting for a vfork.  It says
that a call has a child exactly in these phases, never itself, and that no two
calls have the same one; what the call knows of its child in each phase
(`Fits`: the child has created nothing before it runs, its `task_struct` has the
one reference of its life and, for a vfork, one more); and that only running
tasks are in a call (`Runs`).  That the child of a vfork may run, exit and be
released at any time is in `Fits`: it is then awake, a zombie or dead, and the
reference of the vfork is what is left.  `Counted` is `ForkCounted` with the
phase in place of the `pc`.  Most actions leave all this alone; there is a lemma
for each way in which the others change it (`Move`, `OthersKeep`, `ChildDropped`,
`TaskEnds`) and one per action.

### AddressSpace

| Code | Model |
|---|---|
| `copy_mm`, `dup_mm`, `mm_init` | `ShareMm`, `dup_mm`, `FinishDup`, `FreePt` |
| `dup_mmap`: locks, loop, `fail_nomem*`, `out` | `LockBoth`, `CopyArea`, `DupArea`, `DupFails`, `DupUnwind`, `UnlockBoth` |
| `mmput`, `mmput_async`, `__mmput`, `mmdrop` | the same names, `LastPut`, `DoWork` (the kworker) |
| `get_task_mm`, `mm_access`, `get_task_exe_file` | the same names, `fput` |
| `exit_mm`, `free_signal_struct` (with `oom_mm`) | `exit_mm`, `EndLazy`, `free_signal_struct` |
| `file_varea` | `pid_task`, `get_task_mm`, `DownRead`, `Walk`, `UpRead`, `Put` |

| Run | Checks |
|---|---|
| `address_space` | two processes that share an mm, a third that can be forked, a tracer; areas with a file, not to be copied, and a heap; 5 pages may be committed. `CountsExact`: `mm_users`, `mm_count`, committed pages, areas, policies, files and the binfmt module are exact at every step of every path. `ForkCopies`: the child has the areas the parent had under the lock. `WalkSnapshot`: `file_varea` and `dup_mmap` look at areas that exist, and the tracer prints one state of the list. `CallsReturn`: nobody waits for `mmap_sem` for ever |

Two mms are enough for a fork that copies and an exec that replaces; five pages
for a fork that succeeds and, after an mmap, one that has no memory.
Simplifications: no kernel threads; `exec_update_lock` is left out; mmap and
munmap are one step under the lock; a zombie is reaped at once.  `file_varea`
takes neither the RCU lock nor a reference between `pid_task` and `get_task_mm`
(`file_varea.c:53-57`); the model builds the kernel without `CONFIG_PREEMPT`,
where the task cannot be freed in between.

## 6. What is assumed, proved and only checked

**Fairness.**  Weak fairness of each process, thread or kworker that is in a
program or in the kernel: the scheduler runs them.  Nothing is forced to begin:
calls, loads, kills, failures and signals are not fair.  For `mmap_sem` the bound
on calls makes weak fairness enough: those who could overtake come to an end.
Simulators (`WF` of `Next`) are single processes that run on.  `KernelFork` and
`PageReplacement` are checked for safety only; that `vfork` is woken is stated
there as an invariant.

**Deadlock** is checked for `FatFS` and the simulators.  In the others the bounds
on calls end every behaviour, and liveness is stated instead.

**Proved with TLAPS, for all values of the constants.**

| Theorem | Module | Says | Inductive invariant |
|---|---|---|---|
| `TypeCorrect` | `FatFSProof` | `TypeOK`: no index of `fat.c` leaves its range | `TypeInv` |
| `ClaimsCorrect` | `FatFSChainsProof` | `BlocksClaimedOnce` | `ChainInv` |
| `DeleteProgresses` | `FatFSChainsProof` | `DeleteFreesUsedBlocks` | `ChainInv` |
| `SumsCorrect` | `SumsProof` | `SumsExact`, for every number of processes | `IInv`, `ISum` |
| `StoresSafe` | `SyscallHookProof` | `StoresAllowed`, for any number of loads and calls | `HookInv` |
| `ForksCounted` | `KernelForkProof` | `ForkCounted`: what `fork_count` counts, for any number of tasks, beginnings and forks | `FInv` |
| `ChildStays` | `KernelForkProof` | `ChildHeld`, the last conjunct of `VforkSound` | `FInv` |

`SumsCorrect` needs that the numbers in memory are 1, 2, .. as `numgen` writes
them, that there are enough of them as long as a child can still add up its own
(`IInv`), and that after i - 1 workers the total is (i - 1)(2i - 1) (`ISum`).  It
assumes `SumsAssumption` only: there is at least one process, and statuses have
some width.

**Only checked with TLC**: liveness, the two refinements, everything that needs
induction over data (the chains of `FatStaysSound`, the optimum of OPT, the
charts) or over the number of references (`CountsExact`), and the other
invariants of `KernelFork`, `AddressSpace`, `TaskLists`, `IoTrace` and the
simulators.

## 7. Differences between code and text

`fat_full_append` is a run that ends with a counterexample: a write to a file
that fills its last block overwrites that block from its start (`fat.c:152`),
while `fat.c:126` says that data is appended.

Others are part of the models, as an event, a history variable or a condition
that a property has to make:

| The code | Where in the models | The text |
|---|---|---|
| a link to block 0 leaves 0, the mark of a free block, in a chain | `zero_link` | `fat.c:25`, 0 means free |
| of two overlapping invocations the last to save undoes the other; a kill during a save loses earlier state | `overlap`, `torn` | `Assignment4/README.MD:95`, files are restored |
| the empty name matches unused directory entries | `no_name` | |
| RR never queues a process that arrives as a context switch ends | `missed` | `cpu_scheduler.c:12`, precise measurement |
| the queue of RR needs a place for every turn, and writes behind its end | `overrun`, `RrQueueExact` | `cpu_scheduler.c:465`, "Simple circular queue for RR" |
| SRTF and RR read the last of no segments | `crash`, `AllComplete` | |
| a second start saves the hooks as originals, which then call themselves | `again` in `Transparent` | `iotracehooking.c:15`, "Original syscall pointers" |
| the I/O hooks count the calls of every process, and the bytes asked for | `log.others` and `log.got` in `CountsExact` | `ftracehooking.h:54` and `:83`, the traced process; `:96`, "total bytes read" |
| a module unloaded below another and loaded again saves, and calls, itself | `order` | |
| `oslab_is_processed` is shared by all who open the file | `shared` in `ReadExact` | `proc_info.c:18`, `:97`, once per open session |
| a read with a short buffer loses the rest of the table; a failing copy leaks the buffer | `part`; `faults` in `MemorySound` | |
| `process_tracer` may walk for ever when the task it is at exits | `hit` | |
| `fork_count` counts what `vfork`, `clone`, `clone3` and threads create too, and no call that fails | `made` in `ForkCounted` | `Assignment2/README.MD:5`, "커널 소스코드를 수정하여 fork()를 호출한 횟수를 구현해야 한다" (the number of calls of fork()); `:96`, "fork()가 호출될 때마다 해당 변수의 값을 1씩 증가시킵니다" (plus 1 whenever fork() is called); `:144`, "(5) fork()를 호출한 횟수"; `Process_tracer.c:118`, "Number of calling fork()" |
| between `Attach` and `fork.c:2388` the child can be found with the parent's `fork_count` | `ForkCounted` is about running tasks | |
| sums are right for up to 64 processes | the condition of `SumsExact` | |

Seen while modelling, outside of what the properties say: the I/O hooks keep the
first file name and not the last (`ftracehooking.h:99`); `os_ftrace(0)` does nothing, while the test program ends with it
(`Assignment1/README.MD:581`); SRTF charges no context switch after a completion,
so that test case 02 does not come out as in `Assignment2/README.MD:322`;
`process_tracer` returns `-ESRCH` where its comment says -1
(`Process_tracer.c:102`); `cpu_scheduler.c` does not compile as it is (`eend` in
line 96, a stray `/` in line 311), and the intended text is modelled.

## 8. What is not modelled

- Of `fork.c`: the cache of kernel stacks, `pidfd_poll`, `copy_io`,
  `copy_seccomp`, `walk_process_tree`, the caches and limits set up at boot
  (each runs once, or is local to one task).  Of `sched.h` and `init_task.c`: all but the fields that
  the modelled functions use; the rest are declarations.
- The test programs, which only make the calls that the models make in any
  order.
- Formatting, log messages, percentages and averages, elapsed times.
- Failing allocations in the simulators, and errors on the command line after
  which a program stops at once.
- The calling convention of system calls: `my_ftrace` is given the argument it
  declares.
- A preemptible kernel under the walks of `TaskLists`, and CPUs that see stores
  in different orders: memory is sequentially consistent.
