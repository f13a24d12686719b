-------------------------------- MODULE Sums --------------------------------
(***************************************************************************)
(* The programs numgen, fork and thread of Assignment2-2, which a shell    *)
(* runs one after the other.  fork adds the numbers of the file with max   *)
(* child processes, which pass a sum on as their exit status; thread does  *)
(* it with max threads, which pass it on in memory.                        *)
(***************************************************************************)
EXTENDS Naturals, Sequences, FiniteSets

CONSTANTS
    Maxes,      \* MAX_PROCESSES that fork and thread are built with
    Gens,       \* MAX_PROCESSES that numgen is built with
    Modulus,    \* of an exit status: 256
    MaxRuns     \* bound: programs that are run

ASSUME SumsAssumption ==
    /\ Maxes \subseteq Nat \ {0} /\ Gens \subseteq Nat \ {0}
    /\ Modulus \in Nat \ {0} /\ MaxRuns \in Nat

Programs == {"fork", "thread"}

(* A child or a thread: ready and done while it exists.  killed: a signal  *)
(* has ended the child.  value: its exit status, or its result.            *)
States == {"none", "ready", "done", "killed", "joined"}
Worker == [st : States, value : Nat]
NoWorker == [st |-> "none", value |-> 0]

VARIABLES
    max, file, out,
    program,    \* the one that runs
    pc, i, total,
    nums,       \* what read_input has read
    worker,
    ignored,    \* SIGCHLD was ignored by the parent of fork
    heap,       \* results that are allocated
    runs

vars == <<max, file, out, program, pc, i, total, nums, worker, ignored, heap, runs>>

Workers == 1 .. max
NoWorkers == [k \in Workers |-> NoWorker]

Init ==
    /\ max \in Maxes
    /\ file = <<>> /\ out = [p \in Programs |-> [st |-> "none", sum |-> 0]]
    /\ program = "shell" /\ pc = "read" /\ i = 1 /\ total = 0 /\ nums = <<>>
    /\ worker = NoWorkers
    /\ ignored \in BOOLEAN
    /\ heap = 0 /\ runs = 0

-----------------------------------------------------------------------------
(***************************************************************************)
(* The shell and numgen.  (When numgen cannot open the file there is no    *)
(* change.)                                                                *)
(***************************************************************************)
numgen ==
    /\ program = "shell" /\ runs < MaxRuns
    /\ runs' = runs + 1
    /\ \E n \in Gens : file' = [k \in 1 .. 2 * n |-> k]
    /\ UNCHANGED <<max, out, program, pc, i, total, nums, worker, ignored, heap>>

(* The children of an earlier run that nobody has waited for are gone or   *)
(* are no longer of interest.                                              *)
Run(p) ==
    /\ program = "shell" /\ runs < MaxRuns
    /\ runs' = runs + 1
    /\ program' = p
    /\ pc' = "read" /\ i' = 1 /\ total' = 0 /\ nums' = <<>>
    /\ worker' = NoWorkers
    /\ UNCHANGED <<max, file, out, ignored, heap>>

(* main returns.  The memory of the process is given back. *)
Exit(result, sum) ==
    /\ out' = [out EXCEPT ![program] = [st |-> result, sum |-> sum]]
    /\ program' = "shell"
    /\ heap' = 0

(* return 1.  The threads end with main, the children do not. *)
Fails ==
    /\ Exit("failed", 0)
    /\ worker' = [k \in Workers |-> IF program = "thread" THEN NoWorker ELSE worker[k]]
    /\ UNCHANGED <<max, file, pc, i, total, nums, ignored, runs>>

-----------------------------------------------------------------------------
(***************************************************************************)
(* What fork and thread have in common.                                    *)
(***************************************************************************)

(* read_input finds 2 * max numbers. *)
Enough == Len(file) >= 2 * max

read_input ==
    /\ program \in Programs /\ pc = "read"
    /\ IF Enough
       THEN /\ nums' = file
            /\ pc' = "create"
            /\ UNCHANGED <<max, file, out, program, i, total, worker, ignored, heap, runs>>
       ELSE Fails

(* One round of the first loop, and its end. *)
Create ==
    /\ program \in Programs /\ pc = "create" /\ i <= max
    /\ worker' = [worker EXCEPT ![i] = [st |-> "ready", value |-> 0]]
    /\ i' = i + 1
    /\ UNCHANGED <<max, file, out, program, pc, total, nums, ignored, heap, runs>>

CreateFails == program \in Programs /\ pc = "create" /\ i <= max /\ Fails

StartWaiting ==
    /\ program \in Programs /\ pc = "create" /\ i > max
    /\ pc' = "wait" /\ i' = 1
    /\ UNCHANGED <<max, file, out, program, total, nums, worker, ignored, heap, runs>>

(* Mutant: the second number of the next pair. *)
PartNext(k) == nums[2 * k - 1] + nums[IF k < max THEN 2 * k + 2 ELSE 2 * k]

Part(k) == nums[2 * k - 1] + nums[2 * k]

Finish(k, value) == worker' = [worker EXCEPT ![k] = [st |-> "done", value |-> value]]

printf ==
    /\ program \in Programs /\ pc = "wait" /\ i > max
    /\ Exit("printed", total)
    /\ UNCHANGED <<max, file, pc, i, total, nums, worker, ignored, runs>>

-----------------------------------------------------------------------------
(***************************************************************************)
(* fork.                                                                   *)
(***************************************************************************)
Forked == program # "thread"

(* Mutant: one bit less. *)
StatusSigned(n) == n % (Modulus \div 2)

(* _exit(part_sum & 0xFF) *)
Status(n) == n % Modulus

(* The child, which goes on also when its parent is gone. *)
ChildExits(k) ==
    /\ Forked /\ k \in Workers /\ worker[k].st = "ready"
    /\ Finish(k, Status(Part(k)))
    /\ UNCHANGED <<max, file, out, program, pc, i, total, nums, ignored, heap, runs>>

Kill(k) ==
    /\ Forked /\ k \in Workers /\ worker[k].st = "ready"
    /\ worker' = [worker EXCEPT ![k].st = "killed"]
    /\ UNCHANGED <<max, file, out, program, pc, i, total, nums, ignored, heap, runs>>

(* Mutant: only an exit is waited for. *)
AbnormalNever(st) == FALSE

Abnormal(st) == st = "killed"

waitpid ==
    /\ program = "fork" /\ pc = "wait" /\ i <= max /\ ~ ignored
    /\ worker[i].st = "done"
    /\ total' = total + worker[i].value
    /\ worker' = [worker EXCEPT ![i].st = "joined"]
    /\ i' = i + 1
    /\ UNCHANGED <<max, file, out, program, pc, nums, ignored, heap, runs>>

ChildAbnormal ==
    /\ program = "fork" /\ pc = "wait" /\ i <= max /\ ~ ignored
    /\ Abnormal(worker[i].st)
    /\ Fails

(* Children of a process that ignores SIGCHLD cannot be waited for:        *)
(* waitpid fails when the last one is gone.                                *)
WaitFails ==
    /\ program = "fork" /\ pc = "wait" /\ i <= max /\ ignored
    /\ \A k \in Workers : worker[k].st # "ready"
    /\ Fails

-----------------------------------------------------------------------------
(***************************************************************************)
(* thread.                                                                 *)
(***************************************************************************)
Work(k) ==
    /\ program = "thread" /\ k \in Workers /\ worker[k].st = "ready"
    /\ Finish(k, Part(k))
    /\ heap' = heap + 1
    /\ UNCHANGED <<max, file, out, program, pc, i, total, nums, ignored, runs>>

(* malloc returns NULL, which is written to: the process is killed. *)
WorkerFaults(k) ==
    /\ program = "thread" /\ k \in Workers /\ worker[k].st = "ready"
    /\ Fails

(* Mutants: the result is kept; it is freed twice. *)
Kept(n) == n
FreedTwice(n) == n - 2

free(n) == n - 1

pthread_join ==
    /\ program = "thread" /\ pc = "wait" /\ i <= max
    /\ worker[i].st = "done"
    /\ total' = total + worker[i].value
    /\ worker' = [worker EXCEPT ![i].st = "joined"]
    /\ heap' = free(heap)
    /\ i' = i + 1
    /\ UNCHANGED <<max, file, out, program, pc, nums, ignored, runs>>

-----------------------------------------------------------------------------
WorkerStep(k) == ChildExits(k) \/ Work(k)

MainStep ==
    \/ read_input \/ Create \/ StartWaiting \/ printf
    \/ waitpid \/ ChildAbnormal \/ WaitFails \/ pthread_join

Next ==
    \/ numgen
    \/ \E p \in Programs : Run(p)
    \/ MainStep \/ CreateFails
    \/ \E k \in Workers : WorkerStep(k) \/ Kill(k) \/ WorkerFaults(k)

Spec == Init /\ [][Next]_vars

(* The program and its children or threads are scheduled.  Nothing is said *)
(* of failures.                                                            *)
FairSpec ==
    /\ Spec
    /\ WF_vars(MainStep)
    /\ \A k \in UNION {1 .. m : m \in Maxes} : WF_vars(WorkerStep(k))

-----------------------------------------------------------------------------
(***************************************************************************)
(* Properties.                                                             *)
(***************************************************************************)

(* The state is well-formed. *)
TypeOK ==
    /\ max \in Maxes /\ file \in Seq(Nat) /\ nums \in Seq(Nat)
    /\ out \in [Programs -> [st : {"none", "printed", "failed"}, sum : Nat]]
    /\ program \in Programs \cup {"shell"} /\ pc \in {"read", "create", "wait"}
    /\ i \in 1 .. max + 1 /\ total \in Nat
    /\ worker \in [Workers -> Worker] /\ ignored \in BOOLEAN
    /\ heap \in Nat /\ runs \in 0 .. MaxRuns

(* What a child or thread passes on is the sum of its two numbers, also    *)
(* through the 8 bits of an exit status, and what fork and thread print is *)
(* the sum of the numbers from 1 to 2 * max, whoever ends first, for as    *)
(* many processes as have the last sum, 4 * max - 1, in these bits: up to  *)
(* 64.                                                                     *)
SumsExact ==
    4 * max <= Modulus =>
        /\ \A k \in Workers : worker[k].st \in {"done", "joined"} => worker[k].value = 4 * k - 1
        /\ \A p \in Programs : out[p].st = "printed" => out[p].sum = max * (2 * max + 1)

(* Each child or thread is waited for once, in the order of the array, and *)
(* only then counted; each result that a thread has allocated is freed     *)
(* once it is counted.                                                     *)
ResultsCollected ==
    /\ TypeOK
    /\ program \in Programs =>
          /\ \A k \in Workers : worker[k].st = "joined" <=> pc = "wait" /\ k < i
          /\ heap = IF program = "fork" THEN 0
                    ELSE Cardinality({k \in Workers : worker[k].st = "done"})

(* A program that is run ends, and so do the children, also those that     *)
(* nobody waits for because a fork has failed.                             *)
ProgramsEnd == []<>(program = "shell" /\ \A k \in Workers : worker[k].st # "ready")

=============================================================================
