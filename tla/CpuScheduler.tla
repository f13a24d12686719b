---------------------------- MODULE CpuScheduler ----------------------------
(***************************************************************************)
(* Assignment2/Assignment2-3/cpu_scheduler.c: the simulations of FCFS, SJF,*)
(* SRTF and RR.  A step is one iteration of the loop of a simulation.      *)
(*                                                                         *)
(* Times are integers: the unit is the overhead of a context switch, 0.1   *)
(* ms in the code, whose comparisons with a tolerance of 1e-9 make its     *)
(* floating-point times multiples of it.                                   *)
(***************************************************************************)
EXTENDS Integers, Sequences, FiniteSets, FiniteSetsExt

CONSTANTS
    MAX_TASKS,      \* 1000 in the code
    MS,             \* context switches per millisecond, 10 in the code
    Algs,           \* the algorithms given on the command line
    Quanta,         \* the time quanta given for RR, in ms
    Inputs          \* the input files, bound of the model

PID_IDLE == -1
PID_CS   == -2
CS_OVERHEAD == 1

Task == [pid : Nat, arrival : Nat, burst : Nat]

ASSUME SchedulerAssumption ==
    /\ MAX_TASKS \in Nat \ {0}
    /\ MS \in Nat \ {0}
    /\ Algs \subseteq {"FCFS", "SJF", "SRTF", "RR"}
    /\ Quanta \subseteq Nat \ {0}
    /\ Inputs \subseteq Seq(Task) \ {<< >>}
    /\ \A t \in Inputs : \A i, j \in DOMAIN t : t[i].pid = t[j].pid => i = j

Proc == [pid : Nat, arrival : Nat, burst : Nat, remain : Nat,
         first_start : Nat, finish : Nat, started : BOOLEAN, done : BOOLEAN]

Segment == [start : Nat, end : Nat, pid : Nat \cup {PID_IDLE, PID_CS}]

VARIABLES
    alg, tq,    \* the command line, tq in units
    P,          \* the process table, sorted
    now,        \* the simulated time
    prev,       \* prev_pid, running_pid or prev
    segs,       \* the Gantt chart
    Q,          \* the waiting part of the queue of RR, q[f] .. q[r - 1]
    pushed,     \* Q.r, the pushes so far
    pc,         \* "start", "run", "end", "crash" or "overrun"
    missed      \* history: processes that arrived in a context switch of RR

vars == <<alg, tq, P, now, prev, segs, Q, pushed, pc, missed>>

Procs == DOMAIN P

-----------------------------------------------------------------------------
(* Mutant: segments of different processes are merged. *)
add_seg_any(s, start, end, pid) ==
    IF end <= start THEN s
    ELSE IF s # << >> /\ s[Len(s)].end = start
    THEN [s EXCEPT ![Len(s)].end = end]
    ELSE Append(s, [start |-> start, end |-> end, pid |-> pid])

add_seg(s, start, end, pid) ==
    IF end <= start THEN s
    ELSE IF s # << >> /\ s[Len(s)].end = start /\ s[Len(s)].pid = pid
    THEN [s EXCEPT ![Len(s)].end = end]
    ELSE Append(s, [start |-> start, end |-> end, pid |-> pid])

(* a comes before b in the order of their first components that differ. *)
Before(a, b) == \E n \in DOMAIN a : /\ a[n] < b[n]
                                    /\ \A m \in 1 .. n - 1 : a[m] = b[m]

(* qsort with cmp_arrival. *)
Sorted(t) ==
    LET key(i)  == <<t[i].arrival, t[i].pid, i>>
        rank(i) == 1 + Cardinality({j \in DOMAIN t : Before(key(j), key(i))})
    IN  [n \in DOMAIN t |-> t[CHOOSE i \in DOMAIN t : rank(i) = n]]

Ready(t) == {i \in Procs : ~ P[i].done /\ P[i].arrival <= t}

Later(t) == {i \in Procs : ~ P[i].done /\ P[i].arrival > t}

any_ready(t) == Ready(t) # {}

all_done == \A i \in Procs : P[i].done

(* Mutant: the comparison is reversed. *)
next_arrival_after_last(t) == Max({P[i].arrival : i \in Later(t)})

(* The arrival of the process that next_arrival_after returns. *)
next_arrival_after(t) == Min({P[i].arrival : i \in Later(t)})

(* The ready process whose key comes first. *)
Pick(t, key) ==
    CHOOSE i \in Ready(t) : \A j \in Ready(t) \ {i} : Before(key[i], key[j])

(* Mutant: the smallest pid wins, whenever it arrived. *)
pick_FCFS_pid(t) == Pick(t, [i \in Procs |-> <<P[i].pid, i>>])

pick_FCFS(t) == Pick(t, [i \in Procs |-> <<P[i].arrival, P[i].pid, i>>])

(* Mutant: the arrival counts before the burst. *)
pick_SJF_arrival(t) ==
    Pick(t, [i \in Procs |-> <<P[i].arrival, P[i].burst, P[i].pid, i>>])

pick_SJF(t) ==
    Pick(t, [i \in Procs |-> <<P[i].burst, P[i].arrival, P[i].pid, i>>])

pick_SRTF(t) ==
    Pick(t, [i \in Procs |-> <<P[i].remain, P[i].arrival, P[i].pid, i>>])

-----------------------------------------------------------------------------
(* main reads the file, as far as the table goes, and sorts it. *)
Init ==
    /\ \E inp \in Inputs :
         LET read == SubSeq(inp, 1, Min({Len(inp), MAX_TASKS}))
             t    == Sorted(read)
         IN  P = [i \in DOMAIN t |->
                    [pid |-> t[i].pid, arrival |-> MS * t[i].arrival,
                     burst |-> MS * t[i].burst, remain |-> MS * t[i].burst,
                     first_start |-> 0, finish |-> 0,
                     started |-> FALSE, done |-> FALSE]]
    /\ alg \in Algs
    /\ tq \in (IF alg = "RR" THEN {MS * n : n \in Quanta} ELSE {0})
    /\ now = 0 /\ prev = PID_IDLE /\ segs = << >>
    /\ Q = << >> /\ pushed = 0 /\ missed = {}
    /\ pc = "start"

(* simulate_RR fills the queue before its loop; the others just begin. *)
Start ==
    LET first == Min({P[i].arrival : i \in Procs})
    IN  /\ pc = "start"
        /\ pc' = "run"
        /\ IF alg = "RR"
           THEN /\ now' = first
                /\ segs' = add_seg(segs, 0, first, PID_IDLE)
                /\ Q' = SelectSeq([i \in Procs |-> i],
                                  LAMBDA i : P[i].arrival <= first)
                /\ pushed' = Len(Q')
           ELSE UNCHANGED <<now, segs, Q, pushed>>
        /\ UNCHANGED <<alg, tq, P, prev, missed>>

(* The time when a process is ready: idle until the next arrival if none is. *)
Awake == IF any_ready(now) THEN now ELSE next_arrival_after(now)

Idled == add_seg(segs, now, Awake, PID_IDLE)

(* The time after the switch to process k, which starts at time t. *)
Switched(t, k) ==
    IF prev # PID_IDLE /\ prev # P[k].pid THEN t + CS_OVERHEAD ELSE t

(* Mutant: a process that has nothing left is not marked done. *)
RanUnmarked(k, start, end) ==
    [P EXCEPT ![k].remain = @ - (end - start),
              ![k].first_start = IF P[k].started THEN @ ELSE start,
              ![k].started = TRUE]

(* Process k is on the CPU from start to end. *)
Ran(k, start, end) ==
    LET left == P[k].remain - (end - start)
    IN  [P EXCEPT ![k].remain = left,
                  ![k].first_start = IF P[k].started THEN @ ELSE start,
                  ![k].started = TRUE,
                  ![k].done = left = 0,
                  ![k].finish = IF left = 0 THEN end ELSE @]

(* The rest of an iteration of simulate_FCFS and simulate_SJF. *)
RunToEnd(k) ==
    LET start == Switched(Awake, k)
        end   == start + P[k].remain
    IN  /\ P' = Ran(k, start, end)
        /\ now' = end
        /\ segs' = add_seg(add_seg(Idled, Awake, start, PID_CS),
                           start, end, P[k].pid)
        /\ prev' = P[k].pid

simulate_FCFS ==
    /\ pc = "run" /\ alg = "FCFS" /\ ~ all_done
    /\ RunToEnd(pick_FCFS(Awake))
    /\ UNCHANGED <<alg, tq, Q, pushed, pc, missed>>

simulate_SJF ==
    /\ pc = "run" /\ alg = "SJF" /\ ~ all_done
    /\ RunToEnd(pick_SJF(Awake))
    /\ UNCHANGED <<alg, tq, Q, pushed, pc, missed>>

(* Mutant: a process runs until it is done, whoever arrives. *)
NextEventDone(start, k) == start + P[k].remain

(* The end of the burst or the next arrival. *)
NextEvent(start, k) ==
    Min({start + P[k].remain} \cup {P[i].arrival : i \in Later(start)})

(* After a completion running_pid is PID_IDLE: no switch is charged. *)
simulate_SRTF ==
    LET k     == pick_SRTF(Awake)
        start == Switched(Awake, k)
        end   == NextEvent(start, k)
    IN  /\ pc = "run" /\ alg = "SRTF" /\ ~ all_done
        /\ P' = Ran(k, start, end)
        /\ now' = end
        /\ segs' = add_seg(add_seg(Idled, Awake, start, PID_CS),
                           start, end, P[k].pid)
        /\ prev' = IF P'[k].done THEN PID_IDLE ELSE P[k].pid
        /\ UNCHANGED <<alg, tq, Q, pushed, pc, missed>>

-----------------------------------------------------------------------------
(* q_push does not look at the end of q: the push after MAX_TASKS of them  *)
(* overwrites f and r, which lie behind the array, and the simulation is   *)
(* lost.                                                                   *)
AfterPush == IF pushed' > MAX_TASKS THEN "overrun" ELSE "run"

(* simulate_RR, the queue empty: idle until the next arrival ... *)
RRIdle ==
    LET t == next_arrival_after(now)
    IN  /\ pc = "run" /\ alg = "RR" /\ ~ all_done
        /\ Q = << >> /\ Later(now) # {}
        /\ segs' = add_seg(segs, now, t, PID_IDLE)
        /\ now' = t
        /\ prev' = PID_IDLE
        /\ Q' = SelectSeq([i \in Procs |-> i], LAMBDA i : i \in Ready(t))
        /\ pushed' = pushed + Len(Q')
        /\ pc' = AfterPush
        /\ UNCHANGED <<alg, tq, P, missed>>

(* Mutant: an arrival at the start of the interval counts as well. *)
enqueue_arrivals_closed(from, to) ==
    SelectSeq([i \in Procs |-> i],
              LAMBDA i : ~ P[i].done /\ from <= P[i].arrival /\ P[i].arrival <= to)

(* Mutant: an arrival at the end of the interval does not count. *)
enqueue_arrivals_open(from, to) ==
    SelectSeq([i \in Procs |-> i],
              LAMBDA i : ~ P[i].done /\ from < P[i].arrival /\ P[i].arrival < to)

enqueue_arrivals(from, to) ==
    SelectSeq([i \in Procs |-> i],
              LAMBDA i : ~ P[i].done /\ from < P[i].arrival /\ P[i].arrival <= to)

(* Mutant: a turn is a whole quantum even if less is left. *)
RunForQuantum(k) == tq

RunFor(k) == Min({tq, P[k].remain})

(* ... and not empty: the first process in it runs for a quantum.  The     *)
(* popped process is never done (RrQueueExact), so the test for it has no  *)
(* action.                                                                 *)
RRTurn ==
    LET k     == Head(Q)
        start == Switched(now, k)
        end   == start + RunFor(k)
        new   == enqueue_arrivals(start, end)
        back  == IF Ran(k, start, end)[k].done THEN << >> ELSE <<k>>
    IN  /\ pc = "run" /\ alg = "RR" /\ ~ all_done
        /\ Q # << >>
        /\ P' = Ran(k, start, end)
        /\ now' = end
        /\ segs' = add_seg(add_seg(segs, now, start, PID_CS),
                           start, end, P[k].pid)
        /\ Q' = Tail(Q) \o new \o back
        /\ pushed' = pushed + Len(new \o back)
        /\ pc' = AfterPush
        /\ prev' = P[k].pid
        /\ missed' = missed \cup {i \in Procs : /\ now < P[i].arrival
                                                /\ P[i].arrival <= start}
        /\ UNCHANGED <<alg, tq>>

(* The loop is over, or RR breaks out of it. *)
LoopOver ==
    /\ pc = "run"
    /\ \/ all_done
       \/ alg = "RR" /\ Q = << >> /\ Later(now) = {}

(* Mutant: SRTF and RR take the end of the chart for granted. *)
FinishAlways ==
    /\ LoopOver
    /\ pc' = "end"
    /\ UNCHANGED <<alg, tq, P, now, prev, segs, Q, pushed, missed>>

(* Chart and statistics are printed.  SRTF and RR take the length of the   *)
(* chart from segs[segc - 1]: if no segment was added, segs is NULL and    *)
(* the program crashes.                                                    *)
Finish ==
    /\ LoopOver
    /\ pc' = IF alg \in {"SRTF", "RR"} /\ segs = << >> THEN "crash" ELSE "end"
    /\ UNCHANGED <<alg, tq, P, now, prev, segs, Q, pushed, missed>>

Stopped == pc \in {"end", "crash", "overrun"}

Ended == Stopped /\ UNCHANGED vars

Next ==
    \/ Start
    \/ simulate_FCFS \/ simulate_SJF \/ simulate_SRTF
    \/ RRIdle \/ RRTurn
    \/ Finish
    \/ Ended

Spec == Init /\ [][Next]_vars /\ WF_vars(Next)

(* Mutant: the last millisecond is not printed. *)
print_gantt_short ==
    LET at(t) == {n \in DOMAIN segs : segs[n].start <= MS * t /\ MS * t < segs[n].end}
    IN  {segs[n].pid : n \in UNION {at(t) : t \in {u \in 0 .. now : MS * (u + 1) < now}}}
        \ {PID_CS}

(* The processes in the printed chart: those on the CPU at the start of a  *)
(* millisecond.                                                            *)
print_gantt ==
    LET at(t) == {n \in DOMAIN segs : segs[n].start <= MS * t /\ MS * t < segs[n].end}
    IN  {segs[n].pid : n \in UNION {at(t) : t \in {u \in 0 .. now : MS * u < now}}}
        \ {PID_CS}

-----------------------------------------------------------------------------
TypeOK ==
    /\ alg \in Algs /\ tq \in Nat
    /\ P \in Seq(Proc)
    /\ now \in Nat /\ prev \in Nat \cup {PID_IDLE}
    /\ segs \in Seq(Segment)
    /\ Q \in Seq(Procs) /\ pushed \in Nat
    /\ pc \in {"start", "run", "end", "crash", "overrun"}
    /\ missed \subseteq Procs

(* The Gantt chart has no gap and no overlap, from time 0 until now, and   *)
(* gives every process exactly the time it has been served; neighbours     *)
(* have been merged.  It shows the CPU idle only while no process that has *)
(* arrived waits for it (in RR: no process but one that arrived in a       *)
(* context switch).                                                        *)
ChartAccounts ==
    LET served(i) == LET mine == {n \in DOMAIN segs : segs[n].pid = P[i].pid}
                     IN  MapThenSumSet(LAMBDA n : segs[n].end - segs[n].start, mine)
    IN  /\ TypeOK
        /\ segs # << >> => segs[1].start = 0
        /\ \A n \in 2 .. Len(segs) : /\ segs[n].start = segs[n - 1].end
                                     /\ segs[n].pid # segs[n - 1].pid
        /\ now = IF segs = << >> THEN 0 ELSE segs[Len(segs)].end
        /\ \A i \in Procs : served(i) = P[i].burst - P[i].remain
        /\ \A n \in DOMAIN segs, i \in Procs \ missed :
              /\ segs[n].pid = PID_IDLE
              /\ P[i].arrival < segs[n].end /\ P[i].burst > 0
              => P[i].done /\ P[i].finish <= segs[n].start

(* Process i is done, started after it arrived and was served its burst    *)
(* before it finished.                                                     *)
Completed(i) ==
    /\ P[i].done
    /\ P[i].first_start >= P[i].arrival
    /\ P[i].finish >= P[i].first_start + P[i].burst

(* At the end every process is complete, so that its waiting, response and *)
(* turnaround times in print_stats are not negative; a process that        *)
(* arrived in a context switch of RR is complete or was never served, but  *)
(* not served in part.  And although print_gantt looks at the chart only   *)
(* once a millisecond, and SRTF cuts time into shorter pieces, every       *)
(* process that was served shows in the printed chart, provided that no    *)
(* process has an empty burst.  The program gets there, or crashes:        *)
(* exactly when all processes of SRTF, or the only one of RR, arrive at 0  *)
(* with nothing to do.                                                     *)
AllComplete ==
    LET nothing == /\ alg = "SRTF" \/ (alg = "RR" /\ Len(P) = 1)
                   /\ \A i \in Procs : P[i].arrival = 0 /\ P[i].burst = 0
    IN  /\ pc = "end" =>
              /\ \A i \in Procs \ missed : Completed(i)
              /\ \A i \in missed : Completed(i) \/ P[i].remain = P[i].burst
              /\ (\A i \in Procs : P[i].burst > 0) =>
                    \A i \in Procs : P[i].done => P[i].pid \in print_gantt
        /\ pc = "crash" => nothing
        /\ pc = "end" => ~ nothing

(* FCFS serves in the order of arrival, without interruption; SJF never    *)
(* lets a process wait behind a longer one that was picked when the        *)
(* process had already arrived.                                            *)
NonPreemptiveOrder ==
    \A i, j \in Procs :
        /\ alg = "FCFS" /\ i < j /\ P[j].started =>
              P[i].done /\ P[i].finish <= P[j].first_start
        /\ /\ alg = "SJF" /\ i # j
           /\ P[i].started /\ P[i].first_start >= P[j].arrival + CS_OVERHEAD
           /\ P[j].started => P[i].first_start < P[j].first_start
           => P[i].burst <= P[j].burst

(* SRTF: whoever gets the CPU has no more left than any other process that *)
(* is there before it gives up the CPU again.                              *)
SrtfRunsShortest ==
    [][alg = "SRTF" => \A k, j \in Procs :
          P'[k].remain < P[k].remain /\ ~ P[j].done /\ P[j].arrival < now'
          => P[k].remain <= P[j].remain]_vars

(* Between two turns the queue of RR holds the processes that have arrived *)
(* and are not done, each of them once; only those that arrived in a       *)
(* context switch may be absent.  A process is pushed once for each turn   *)
(* it needs and no more.  The array is not used circularly, whatever       *)
(* cpu_scheduler.c:465 says: q_push runs over its end if the processes     *)
(* need more turns than it has places, and only then.                      *)
RrQueueExact ==
    LET queued   == {Q[n] : n \in DOMAIN Q}
        turns(i) == Max({1, (P[i].burst + tq - 1) \div tq})
        need(S)  == MapThenSumSet(turns, S)
    IN  alg = "RR" =>
        /\ pc = "run" =>
              /\ Ready(now) \ missed \subseteq queued
              /\ queued \subseteq Ready(now)
              /\ Len(Q) = Cardinality(queued)
              /\ pushed <= MAX_TASKS
        /\ pushed <= need(Procs)
        /\ pc = "end" => need(Procs \ missed) <= MAX_TASKS

(* The simulation comes to an end: no loop of the four runs on, whatever   *)
(* the order of arrivals and the gaps between them.                        *)
Terminates == <>Stopped

=============================================================================
