-------------------------- MODULE PageReplacement --------------------------
(***************************************************************************)
(* Assignment3/Assignment3-2/page_replacement_simulator.c: main reads the  *)
(* number of frames and a reference string and runs the four simulations   *)
(* on them, one after the other.  A step is one reference; in the clock    *)
(* algorithm it is one move of the hand when a victim is looked for.       *)
(***************************************************************************)
EXTENDS Integers, Sequences, FiniteSets, FiniteSetsExt

CONSTANTS
    Pages,          \* page numbers
    MAX_FRAMES,     \* 1000 in the code
    NoNumber,       \* the file does not start with a number
    Garbage,        \* what the variable frames of main may hold unassigned
    Inputs          \* the files: [frames, refs], bound of the model

Empty == -1     \* the content of an empty frame

ASSUME PagesAssumption ==
    /\ MAX_FRAMES \in Nat \ {0}
    /\ Empty \notin Pages
    /\ Garbage \subseteq Int
    /\ Inputs \subseteq [frames : Int \cup {NoNumber},
                         refs : Seq(Pages \cup {Empty})]

Algorithms == <<"opt", "fifo", "lru", "clock">>

VARIABLES
    input,      \* the file
    F,          \* the number of frames
    refs,       \* seq.refs
    alg,        \* the simulations that are done; -1 before read_input
    k,          \* the references the simulation is through with
    frames, filled, hand, last, refb, faults,  \* its locals; hand is also idx
    spins,      \* history: moves of the clock hand for this reference, up
                \* to one more than there are frames
    loads,      \* history: the pages loaded, in order
    result      \* the faults of the simulations that are done

locals == <<frames, filled, hand, last, refb, faults, spins, loads>>
vars == <<input, F, refs, alg, k, locals, result>>

Frames == 0 .. F - 1

(* The declarations a simulation starts with. *)
Fresh(f) ==
    /\ k' = 0
    /\ frames' = [i \in 0 .. f - 1 |-> Empty]
    /\ last' = [i \in 0 .. f - 1 |-> -1]
    /\ refb' = [i \in 0 .. f - 1 |-> 0]
    /\ filled' = 0 /\ hand' = 0 /\ faults' = 0
    /\ spins' = 0 /\ loads' = << >>

Init ==
    /\ input \in Inputs
    /\ F = 0 /\ refs = << >> /\ alg = -1 /\ k = 0
    /\ frames = << >> /\ last = << >> /\ refb = << >>
    /\ filled = 0 /\ hand = 0 /\ faults = 0
    /\ spins = 0 /\ loads = << >>
    /\ result = << >>

(* main does not look at the result of read_input: with a bad frame count  *)
(* it goes on with an empty reference string.                              *)
read_input ==
    /\ alg = -1
    /\ alg' = 0
    /\ F' \in (IF input.frames = NoNumber THEN Garbage ELSE {input.frames})
    /\ refs' = IF input.frames # NoNumber /\ input.frames \in 1 .. MAX_FRAMES
               THEN input.refs ELSE << >>
    /\ Fresh(F')
    /\ UNCHANGED <<input, result>>

-----------------------------------------------------------------------------
Running(name) ==
    /\ alg \in 0 .. 3
    /\ Algorithms[alg + 1] = name
    /\ k < Len(refs)

p == refs[k + 1]

InFrames(page) == {i \in Frames : frames[i] = page}

find_in_frames(page) == Min(InFrames(page))

Hit == InFrames(p) # {}

(* Page p is loaded into frame i. *)
Load(i) ==
    /\ k' = k + 1
    /\ faults' = faults + 1
    /\ frames' = [frames EXCEPT ![i] = p]
    /\ loads' = Append(loads, p)

NextHit ==
    /\ Hit
    /\ k' = k + 1
    /\ UNCHANGED <<input, F, refs, alg, frames, filled, hand, faults, spins, loads,
                   result>>

Fill ==
    /\ ~ Hit /\ filled < F
    /\ Load(filled)
    /\ filled' = filled + 1
    /\ UNCHANGED <<input, F, refs, alg, hand, spins, result>>

Replace(i) ==
    /\ ~ Hit /\ filled >= F
    /\ Load(i)
    /\ UNCHANGED <<input, F, refs, alg, filled, result>>

(* The places where the page in frame i is referenced again. *)
Again(i) == {j \in k + 2 .. Len(refs) : refs[j] = frames[i]}

(* Mutant: the page referenced again soonest is replaced. *)
opt_victim_nearest ==
    LET never == {i \in Frames : Again(i) = {}}
    IN  IF never # {} THEN Min(never)
        ELSE CHOOSE i \in Frames : \A j \in Frames : Min(Again(i)) <= Min(Again(j))

opt_victim ==
    LET never == {i \in Frames : Again(i) = {}}
    IN  IF never # {} THEN Min(never)
        ELSE CHOOSE i \in Frames : \A j \in Frames : Min(Again(i)) >= Min(Again(j))

simulate_opt ==
    /\ Running("opt")
    /\ \/ NextHit
       \/ Fill
       \/ Replace(opt_victim) /\ UNCHANGED <<hand, spins>>
    /\ UNCHANGED <<last, refb>>

(* Mutant: the position moves on a hit as well. *)
simulate_fifo_moves ==
    /\ Running("fifo")
    /\ \/ /\ Hit
          /\ k' = k + 1
          /\ hand' = (hand + 1) % F
          /\ UNCHANGED <<input, F, refs, alg, frames, filled, faults, spins, loads,
                         result>>
       \/ Fill
       \/ Replace(hand) /\ hand' = (hand + 1) % F /\ UNCHANGED spins
    /\ UNCHANGED <<last, refb>>

simulate_fifo ==
    /\ Running("fifo")
    /\ \/ NextHit
       \/ Fill
       \/ Replace(hand) /\ hand' = (hand + 1) % F /\ UNCHANGED spins
    /\ UNCHANGED <<last, refb>>

lru_victim == CHOOSE i \in Frames : /\ \A j \in Frames : last[i] <= last[j]
                                    /\ \A j \in 0 .. i - 1 : last[j] # last[i]

(* Mutant: a hit does not renew the time stamp. *)
simulate_lru_stale ==
    /\ Running("lru")
    /\ \/ NextHit /\ UNCHANGED last
       \/ Fill /\ last' = [last EXCEPT ![filled] = k]
       \/ /\ Replace(lru_victim)
          /\ last' = [last EXCEPT ![lru_victim] = k]
          /\ UNCHANGED <<hand, spins>>
    /\ UNCHANGED refb

simulate_lru ==
    /\ Running("lru")
    /\ \/ NextHit /\ last' = [last EXCEPT ![find_in_frames(p)] = k]
       \/ Fill /\ last' = [last EXCEPT ![filled] = k]
       \/ /\ Replace(lru_victim)
          /\ last' = [last EXCEPT ![lru_victim] = k]
          /\ UNCHANGED <<hand, spins>>
    /\ UNCHANGED refb

(* Mutant: the hand passes on without clearing the bit. *)
ClockPassOnly ==
    /\ ~ Hit /\ filled >= F /\ refb[hand] = 1
    /\ hand' = (hand + 1) % F
    /\ spins' = Min({spins + 1, F + 1})
    /\ UNCHANGED <<input, F, refs, alg, k, frames, filled, faults, loads, result,
                   refb>>

(* An iteration of while(1) that gives the page a second chance ... *)
ClockPass ==
    /\ ~ Hit /\ filled >= F /\ refb[hand] = 1
    /\ refb' = [refb EXCEPT ![hand] = 0]
    /\ hand' = (hand + 1) % F
    /\ spins' = Min({spins + 1, F + 1})
    /\ UNCHANGED <<input, F, refs, alg, k, frames, filled, faults, loads, result>>

(* Mutant: the hand does not go round. *)
ClockReplaceStraight ==
    /\ refb[hand] = 0
    /\ Replace(hand)
    /\ refb' = [refb EXCEPT ![hand] = 1]
    /\ hand' = hand + 1
    /\ spins' = 0

(* ... and the one that replaces it. *)
ClockReplace ==
    /\ refb[hand] = 0
    /\ Replace(hand)
    /\ refb' = [refb EXCEPT ![hand] = 1]
    /\ hand' = (hand + 1) % F
    /\ spins' = 0

simulate_clock ==
    /\ Running("clock")
    /\ \/ NextHit /\ refb' = [refb EXCEPT ![find_in_frames(p)] = 1]
       \/ Fill /\ refb' = [refb EXCEPT ![filled] = 1]
       \/ ClockPass
       \/ ClockReplace
    /\ UNCHANGED last

(* The simulation returns; main calls the next one. *)
Return ==
    /\ alg \in 0 .. 3 /\ k = Len(refs)
    /\ result' = Append(result, faults)
    /\ alg' = alg + 1
    /\ Fresh(F)
    /\ UNCHANGED <<input, F, refs>>

Done == alg = 4 /\ UNCHANGED vars

Next ==
    \/ read_input
    \/ simulate_opt \/ simulate_fifo \/ simulate_lru \/ simulate_clock
    \/ Return
    \/ Done

Spec == Init /\ [][Next]_vars

-----------------------------------------------------------------------------
TypeOK ==
    /\ input \in Inputs
    /\ F \in Int /\ refs \in Seq(Pages \cup {Empty})
    /\ alg \in -1 .. 4 /\ k \in 0 .. Len(refs)
    /\ alg # -1 => /\ frames \in [Frames -> Pages \cup {Empty}]
                   /\ last \in [Frames -> -1 .. Len(refs)]
                   /\ refb \in [Frames -> {0, 1}]
    /\ filled \in Nat /\ hand \in Nat
    /\ Len(refs) > 0 => filled \in 0 .. F /\ hand \in Frames
    /\ faults \in 0 .. k /\ spins \in Nat
    /\ loads \in Seq(Pages \cup {Empty})
    /\ result \in Seq(Nat)

(* The reference string does not hold the mark of an empty frame. *)
Proper == \A j \in DOMAIN refs : refs[j] # Empty

(* The first j references, as a set of pages. *)
Seen(j) == {refs[n] : n \in 1 .. j}

Held == {frames[i] : i \in Frames} \ {Empty}

(* The fewest faults that any way of replacing pages has on the rest of    *)
(* the string, starting from the pages held.                               *)
FewestFaults ==
    LET best[j \in 1 .. Len(refs) + 1, S \in SUBSET Seen(Len(refs))] ==
          IF j > Len(refs) THEN 0
          ELSE IF refs[j] \in S THEN best[j + 1, S]
          ELSE IF Cardinality(S) < F THEN 1 + best[j + 1, S \cup {refs[j]}]
          ELSE 1 + Min({best[j + 1, (S \ {v}) \cup {refs[j]}] : v \in S})
    IN  best[1, {}]

(* simulate_opt has the fewest faults possible, which Assignment3/         *)
(* README.MD says of OPT, and so no more than the other three.             *)
OptIsOptimal ==
    alg = 4 /\ Proper /\ Len(refs) > 0 =>
        /\ result[1] = FewestFaults
        /\ \A a \in 2 .. 4 : result[1] <= result[a]

(* Each simulation holds the pages its policy names: simulate_fifo those   *)
(* loaded last, oldest at the position that is replaced next; simulate_lru *)
(* the F pages referenced most recently, which are those with fewer than F *)
(* other pages referenced after them.  The while(1) of simulate_clock      *)
(* passes each frame at most once before it finds a victim, and so ends.   *)
(* No index leaves its array, whatever read_input left in frames.          *)
FramesFollowPolicy ==
    /\ TypeOK
    /\ alg = 1 /\ Proper =>
          \A i \in 0 .. filled - 1 :
              frames[(hand + i) % F] = loads[Len(loads) - filled + i + 1]
    /\ alg = 2 /\ Proper =>
          Held = {page \in Seen(k) :
                    LET latest == Max({j \in 1 .. k : refs[j] = page})
                    IN  Cardinality({refs[j] : j \in latest + 1 .. k}) < F}
    /\ spins > 0 => spins <= F

=============================================================================
