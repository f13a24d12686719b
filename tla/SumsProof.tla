----------------------------- MODULE SumsProof ------------------------------
(***************************************************************************)
(* SumsExact of Sums for every number of processes, every file that       *)
(* numgen writes and every width of the exit status.                       *)
(***************************************************************************)
EXTENDS Sums, TLAPS

(* The numbers 1, 2, ..., as numgen writes them *)
IsNumbers(seq) == \E n \in Nat : seq = [k \in 1 .. 2 * n |-> k]

(* The part of SumsExact that is about the workers *)
Parts ==
    4 * max <= Modulus =>
        \A k \in Workers : worker[k].st \in {"done", "joined"} => worker[k].value = 4 * k - 1

(* The inductive invariant: the numbers in memory are those of a file, and *)
(* there are enough of them from the end of read_input on, as long as a    *)
(* child can still add up its own ...                                      *)
IInv ==
    /\ max \in Nat \ {0}
    /\ worker \in [Workers -> Worker]
    /\ i \in Nat \ {0}
    /\ IsNumbers(file) /\ IsNumbers(nums)
    /\ program \in Programs /\ pc # "read" => Len(nums) >= 2 * max
    /\ (\E k \in Workers : worker[k].st = "ready") => Len(nums) >= 2 * max
    /\ Parts

(* ... and the parts counted so far add up to (i - 1) * (2 * i - 1).       *)
Counted ==
    program \in Programs =>
        IF pc = "wait" THEN i <= max + 1 /\ total = (i - 1) * (2 * i - 1) ELSE total = 0
Printed ==
    \A p \in Programs : out[p].st = "printed" => out[p].sum = max * (2 * max + 1)
ISum ==
    /\ out = [p \in Programs |-> out[p]]
    /\ 4 * max <= Modulus => Counted /\ Printed

(* What a worker adds up, once the numbers are read *)
LEMMA PartValue ==
    ASSUME IInv, NEW k \in Workers, Len(nums) >= 2 * max
    PROVE  Part(k) = 4 * k - 1
<1>1. PICK n \in Nat : nums = [j \in 1 .. 2 * n |-> j]
  BY DEF IInv, IsNumbers
<1>2. max \in Nat /\ k \in 1 .. max
  BY DEF IInv, Workers
<1>3. Len(nums) = 2 * n
  BY <1>1
<1>4. 2 * k - 1 \in 1 .. 2 * n /\ 2 * k \in 1 .. 2 * n
  BY <1>2, <1>3
<1> QED
  BY <1>1, <1>2, <1>4 DEF Part

(* The exit status of a child keeps a number that fits. *)
LEMMA StatusKeeps ==
    ASSUME NEW n \in Nat, n < Modulus
    PROVE  Status(n) = n
BY SumsAssumption DEF Status

LEMMA InitIInv == Init => IInv
<1> SUFFICES ASSUME Init PROVE IInv
  OBVIOUS
<1>1. max \in Nat \ {0}
  BY SumsAssumption DEF Init
<1>2. worker \in [Workers -> Worker] /\ \A k \in Workers : worker[k].st = "none"
  BY DEF Init, NoWorkers, NoWorker, Worker, States
<1>3. IsNumbers(<<>>)
  <2>1. <<>> = [k \in 1 .. 2 * 0 |-> k]
    OBVIOUS
  <2> QED
    BY <2>1 DEF IsNumbers
<1> QED
  BY <1>1, <1>2, <1>3 DEF Init, IInv, Parts, Programs

(* A step that leaves the workers, the numbers and the file as they are,   *)
(* and does not enter the loops. *)
LEMMA QuietStep ==
    ASSUME IInv, UNCHANGED <<max, file, nums, worker>>, i' \in Nat \ {0},
           program' \in Programs /\ pc' # "read" => program \in Programs /\ pc # "read"
    PROVE  IInv'
BY DEF IInv, IsNumbers, Parts, Workers

(* return 1 *)
LEMMA FailsStep == IInv /\ Fails => IInv'
<1> SUFFICES ASSUME IInv, Fails PROVE IInv'
  OBVIOUS
<1>1. UNCHANGED <<max, file, nums, i, pc>> /\ program' = "shell"
  BY DEF Fails, Exit
<1>2. worker' \in [Workers -> Worker]
  BY DEF Fails, IInv, NoWorker, Worker, States
<1>3. \A k \in Workers : worker'[k] = worker[k] \/ worker'[k].st = "none"
  BY DEF Fails, NoWorker
<1>4. Parts'
  BY <1>1, <1>3 DEF IInv, Parts, Workers
<1>5. (\E k \in Workers : worker'[k].st = "ready") => Len(nums) >= 2 * max
  BY <1>3 DEF IInv
<1> QED
  BY <1>1, <1>2, <1>4, <1>5 DEF IInv, IsNumbers, Workers, Programs

(* One worker changes, and what it has then is right. *)
LEMMA WorkerStepInv ==
    ASSUME IInv, NEW k \in Workers, NEW w \in Worker,
           worker' = [worker EXCEPT ![k] = w],
           w.st = "ready" => Len(nums) >= 2 * max,
           4 * max <= Modulus /\ w.st \in {"done", "joined"} => w.value = 4 * k - 1,
           UNCHANGED <<max, file, nums, pc, program>>, i' \in Nat \ {0}
    PROVE  IInv'
<1>1. worker' \in [Workers -> Worker] /\ worker'[k] = w
  BY DEF IInv
<1>2. \A j \in Workers : j # k => worker'[j] = worker[j]
  BY DEF IInv
<1>3. Parts'
  BY <1>1, <1>2 DEF IInv, Parts, Workers
<1>4. (\E j \in Workers : worker'[j].st = "ready") => Len(nums) >= 2 * max
  BY <1>1, <1>2 DEF IInv
<1> QED
  BY <1>1, <1>3, <1>4 DEF IInv, IsNumbers, Workers

LEMMA NextIInv == IInv /\ [Next]_vars => IInv'
<1> SUFFICES ASSUME IInv, [Next]_vars PROVE IInv'
  OBVIOUS
<1>0. max \in Nat \ {0} /\ i \in Nat \ {0} /\ worker \in [Workers -> Worker]
  BY DEF IInv
<1>1. ASSUME numgen PROVE IInv'
  <2>1. UNCHANGED <<max, program, pc, i, nums, worker>>
    BY <1>1 DEF numgen
  <2>2. IsNumbers(file')
    BY <1>1, SumsAssumption DEF numgen, IsNumbers
  <2> QED
    BY <2>1, <2>2 DEF IInv, IsNumbers, Parts, Workers
<1>2. ASSUME NEW p \in Programs, Run(p) PROVE IInv'
  <2>1. UNCHANGED <<max, file>> /\ pc' = "read" /\ i' = 1 /\ nums' = <<>>
    BY <1>2 DEF Run
  <2>2. worker' \in [Workers -> Worker] /\ \A k \in Workers : worker'[k].st = "none"
    BY <1>2 DEF Run, NoWorkers, NoWorker, Worker, States
  <2>3. IsNumbers(<<>>)
    <3>1. <<>> = [k \in 1 .. 2 * 0 |-> k]
      OBVIOUS
    <3> QED
      BY <3>1 DEF IsNumbers
  <2>4. Parts' /\ ~ (\E k \in Workers : worker[k].st = "ready")'
    BY <2>1, <2>2 DEF Parts, Workers
  <2>5. IsNumbers(file)' /\ IsNumbers(nums)'
    BY <2>1, <2>3 DEF IInv, IsNumbers
  <2>6. (max \in Nat \ {0})' /\ (i \in Nat \ {0})' /\ (worker \in [Workers -> Worker])'
    BY <1>0, <2>1, <2>2 DEF Workers
  <2> QED
    BY <2>1, <2>4, <2>5, <2>6 DEF IInv
<1>3. ASSUME read_input PROVE IInv'
  <2>1. CASE Enough
    <3>1. UNCHANGED <<max, file, worker, i, program>> /\ nums' = file
      BY <1>3, <2>1 DEF read_input
    <3>2. Len(nums') >= 2 * max
      BY <2>1, <3>1 DEF Enough
    <3> QED
      BY <3>1, <3>2 DEF IInv, IsNumbers, Parts, Workers
  <2>2. CASE ~ Enough
    BY <1>3, <2>2, FailsStep DEF read_input
  <2> QED
    BY <2>1, <2>2
<1>4. ASSUME Create PROVE IInv'
  <2> DEFINE w == [st |-> "ready", value |-> 0]
  <2>1. i \in Workers /\ w \in Worker
    BY <1>0, <1>4 DEF Create, Workers, Worker, States
  <2>2. Len(nums) >= 2 * max
    BY <1>4 DEF Create, IInv
  <2>3. worker' = [worker EXCEPT ![i] = w] /\ i' \in Nat \ {0}
    BY <1>0, <1>4 DEF Create
  <2>4. UNCHANGED <<max, file, nums, pc, program>>
    BY <1>4 DEF Create
  <2>5. w.st = "ready"
    OBVIOUS
  <2> HIDE DEF w
  <2> QED
    BY <2>1, <2>2, <2>3, <2>4, <2>5, WorkerStepInv
<1>5. ASSUME CreateFails PROVE IInv'
  BY <1>5, FailsStep DEF CreateFails
<1>6. ASSUME StartWaiting PROVE IInv'
  BY <1>6, QuietStep DEF StartWaiting
<1>7. ASSUME printf PROVE IInv'
  BY <1>0, <1>7, QuietStep DEF printf, Exit, Programs
<1>8. ASSUME waitpid \/ pthread_join PROVE IInv'
  <2> DEFINE w == [worker[i] EXCEPT !.st = "joined"]
  <2>1. i \in Workers /\ worker[i].st = "done"
    BY <1>0, <1>8 DEF waitpid, pthread_join, Workers
  <2>2. w \in Worker /\ w.st = "joined" /\ w.value = worker[i].value
    BY <1>0, <2>1 DEF Worker, States
  <2>3. 4 * max <= Modulus => w.value = 4 * i - 1
    BY <2>1, <2>2 DEF IInv, Parts
  <2>4. worker' = [worker EXCEPT ![i] = w] /\ i' \in Nat \ {0}
    BY <1>0, <1>8 DEF waitpid, pthread_join
  <2>5. UNCHANGED <<max, file, nums, pc, program>>
    BY <1>8 DEF waitpid, pthread_join
  <2> HIDE DEF w
  <2> QED
    BY <2>1, <2>2, <2>3, <2>4, <2>5, WorkerStepInv
<1>9. ASSUME ChildAbnormal \/ WaitFails PROVE IInv'
  BY <1>9, FailsStep DEF ChildAbnormal, WaitFails
<1>10. ASSUME NEW k \in Workers, ChildExits(k) PROVE IInv'
  <2> DEFINE w == [st |-> "done", value |-> Status(Part(k))]
  <2>1. Part(k) = 4 * k - 1 /\ k \in 1 .. max
    BY <1>10, PartValue DEF ChildExits, IInv, Workers
  <2>2. w \in Worker
    BY <1>0, <2>1, SumsAssumption DEF Worker, States, Status
  <2>3. 4 * max <= Modulus => Status(Part(k)) = 4 * k - 1
    <3>1. SUFFICES ASSUME 4 * max <= Modulus PROVE Status(Part(k)) = 4 * k - 1
      OBVIOUS
    <3>2. 4 * k - 1 \in Nat /\ 4 * k - 1 < Modulus
      BY <1>0, <2>1, <3>1, SumsAssumption
    <3> QED
      BY <2>1, <3>2, StatusKeeps
  <2> QED
    BY <1>0, <1>10, <2>2, <2>3, WorkerStepInv DEF ChildExits, Finish
<1>11. ASSUME NEW k \in Workers, Work(k) PROVE IInv'
  <2> DEFINE w == [st |-> "done", value |-> Part(k)]
  <2>1. Part(k) = 4 * k - 1 /\ k \in 1 .. max
    BY <1>11, PartValue DEF Work, IInv, Workers
  <2>2. w \in Worker
    BY <1>0, <2>1 DEF Worker, States
  <2> QED
    BY <1>0, <1>11, <2>1, <2>2, WorkerStepInv DEF Work, Finish
<1>12. ASSUME NEW k \in Workers, Kill(k) PROVE IInv'
  <2> DEFINE w == [worker[k] EXCEPT !.st = "killed"]
  <2>1. w \in Worker /\ w.st = "killed"
    BY <1>0 DEF Worker, States
  <2>2. worker' = [worker EXCEPT ![k] = w] /\ UNCHANGED <<max, file, nums, pc, program, i>>
    BY <1>0, <1>12 DEF Kill
  <2> HIDE DEF w
  <2> QED
    BY <1>0, <2>1, <2>2, WorkerStepInv
<1>13. ASSUME NEW k \in Workers, WorkerFaults(k) PROVE IInv'
  BY <1>13, FailsStep DEF WorkerFaults
<1>14. ASSUME UNCHANGED vars PROVE IInv'
  BY <1>0, <1>14, QuietStep DEF vars
<1> QED
  BY <1>1, <1>2, <1>3, <1>4, <1>5, <1>6, <1>7, <1>8, <1>9, <1>10, <1>11, <1>12, <1>13, <1>14
  DEF Next, MainStep, WorkerStep

LEMMA InitISum == Init => ISum
<1> SUFFICES ASSUME Init PROVE ISum
  OBVIOUS
<1>1. out = [p \in Programs |-> [st |-> "none", sum |-> 0]] /\ program = "shell"
  BY DEF Init
<1>2. \A p \in Programs : out[p] = [st |-> "none", sum |-> 0]
  BY <1>1
<1> QED
  BY <1>1, <1>2 DEF ISum, Counted, Printed, Programs

(* main returns: what it prints, if anything, is right. *)
LEMMA ExitISum ==
    ASSUME ISum, max' = max, program \in Programs, NEW st, NEW sum, Exit(st, sum),
           4 * max <= Modulus /\ st = "printed" => sum = max * (2 * max + 1)
    PROVE  ISum'
<1>1. out' = [out EXCEPT ![program] = [st |-> st, sum |-> sum]] /\ program' = "shell"
  BY DEF Exit
<1>2. /\ out' = [p \in Programs |-> out'[p]]
      /\ out'[program] = [st |-> st, sum |-> sum]
      /\ \A p \in Programs \ {program} : out'[p] = out[p]
  BY <1>1 DEF ISum
<1>3. 4 * max <= Modulus => Printed'
  <2>1. SUFFICES ASSUME 4 * max <= Modulus, NEW p \in Programs, out'[p].st = "printed"
                 PROVE  out'[p].sum = max * (2 * max + 1)
    BY DEF Printed
  <2>2. CASE p = program
    <3>1. out'[p].st = st /\ out'[p].sum = sum
      BY <1>2, <2>2
    <3> QED
      BY <2>1, <3>1
  <2>3. CASE p # program
    BY <1>2, <2>1, <2>3 DEF ISum, Printed
  <2> QED
    BY <2>2, <2>3
<1>4. Counted'
  BY <1>1 DEF Counted, Programs
<1> QED
  BY <1>2, <1>3, <1>4 DEF ISum

(* The program goes on with the loop, and nothing is printed. *)
LEMMA GoesOn ==
    ASSUME ISum, UNCHANGED <<max, out>>, 4 * max <= Modulus => Counted'
    PROVE  ISum'
BY DEF ISum, Printed

(* The next part is added: (i - 1) * (2 * i - 1) + 4 * i - 1 = i * (2 * i + 1). *)
LEMMA NextPart ==
    ASSUME NEW n \in Nat \ {0}
    PROVE  (n - 1) * (2 * n - 1) + (4 * n - 1) = ((n + 1) - 1) * (2 * (n + 1) - 1)
OBVIOUS

LEMMA NextISum == IInv /\ ISum /\ [Next]_vars => ISum'
<1> SUFFICES ASSUME IInv, ISum, [Next]_vars PROVE ISum'
  OBVIOUS
<1>0. max \in Nat \ {0} /\ i \in Nat \ {0}
  BY DEF IInv
<1>1. ASSUME numgen PROVE ISum'
  BY <1>1, GoesOn DEF numgen, Counted, Programs
<1>2. ASSUME NEW p \in Programs, Run(p) PROVE ISum'
  BY <1>2, GoesOn DEF Run, Counted
<1>3. ASSUME Fails, program \in Programs PROVE ISum'
  BY <1>3, ExitISum DEF Fails
<1>4. ASSUME read_input PROVE ISum'
  <2>1. CASE Enough
    BY <1>4, <2>1, GoesOn DEF read_input, ISum, Counted
  <2>2. CASE ~ Enough
    BY <1>3, <1>4, <2>2 DEF read_input
  <2> QED
    BY <2>1, <2>2
<1>5. ASSUME Create PROVE ISum'
  BY <1>5, GoesOn DEF Create, ISum, Counted
<1>6. ASSUME StartWaiting PROVE ISum'
  <2>1. 4 * max <= Modulus => total = 0
    BY <1>6 DEF StartWaiting, ISum, Counted
  <2>2. UNCHANGED <<max, out, total>> /\ i' = 1
    BY <1>6 DEF StartWaiting
  <2>3. 1 <= max + 1 /\ (1 - 1) * (2 * 1 - 1) = 0
    BY <1>0
  <2> QED
    BY <2>1, <2>2, <2>3, GoesOn DEF Counted
<1>7. ASSUME printf PROVE ISum'
  <2>1. 4 * max <= Modulus => total = max * (2 * max + 1)
    <3>1. 4 * max <= Modulus => i = max + 1 /\ total = (i - 1) * (2 * i - 1)
      BY <1>0, <1>7 DEF printf, ISum, Counted
    <3>2. ((max + 1) - 1) * (2 * (max + 1) - 1) = max * (2 * max + 1)
      BY <1>0
    <3> QED
      BY <3>1, <3>2
  <2> QED
    BY <1>7, <2>1, ExitISum DEF printf
<1>8. ASSUME waitpid \/ pthread_join PROVE ISum'
  <2>1. /\ UNCHANGED <<max, out, program, pc>> /\ pc = "wait" /\ program \in Programs
        /\ i <= max /\ i' = i + 1 /\ total' = total + worker[i].value
        /\ worker[i].st = "done"
    BY <1>8 DEF waitpid, pthread_join, Programs
  <2>2. 4 * max <= Modulus => worker[i].value = 4 * i - 1
    BY <1>0, <2>1 DEF IInv, Parts, Workers
  <2>3. 4 * max <= Modulus => total = (i - 1) * (2 * i - 1)
    BY <2>1 DEF ISum, Counted
  <2>4. 4 * max <= Modulus => total' = (i' - 1) * (2 * i' - 1)
    BY <1>0, <2>1, <2>2, <2>3, NextPart
  <2>5. i' <= max + 1
    BY <1>0, <2>1
  <2> QED
    BY <2>1, <2>4, <2>5, GoesOn DEF Counted
<1>9. ASSUME ChildAbnormal \/ WaitFails \/ CreateFails PROVE ISum'
  BY <1>3, <1>9 DEF ChildAbnormal, WaitFails, CreateFails, Programs
<1>10. ASSUME NEW k \in Workers, ChildExits(k) \/ Work(k) \/ Kill(k) PROVE ISum'
  BY <1>10, GoesOn DEF ChildExits, Work, Kill, ISum, Counted
<1>11. ASSUME NEW k \in Workers, WorkerFaults(k) PROVE ISum'
  BY <1>3, <1>11 DEF WorkerFaults, Programs
<1>12. ASSUME UNCHANGED vars PROVE ISum'
  BY <1>12, GoesOn DEF vars, ISum, Counted
<1> QED
  BY <1>1, <1>2, <1>4, <1>5, <1>6, <1>7, <1>8, <1>9, <1>10, <1>11, <1>12
  DEF Next, MainStep, WorkerStep

(* fork: the exit status of every child is the sum of its two numbers as   *)
(* long as 4 * MAX_PROCESSES does not exceed 256; thread: every result is; *)
(* and main prints the sum of all the numbers or fails.                    *)
THEOREM SumsCorrect == Spec => []SumsExact
<1>1. IInv /\ ISum => SumsExact
  BY DEF IInv, Parts, ISum, Printed, SumsExact
<1> QED
  BY <1>1, InitIInv, NextIInv, InitISum, NextISum, PTL DEF Spec

=============================================================================
