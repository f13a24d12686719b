------------------------------ MODULE SumSpec -------------------------------
(***************************************************************************)
(* What the programs numgen, fork and thread of Assignment2-2 promise,     *)
(* without processes and threads: numgen writes the numbers 1, 2, ... to a *)
(* file, fork and thread each print the sum of the first 2 * max of them.  *)
(***************************************************************************)
EXTENDS Naturals, Sequences, SequencesExt

CONSTANT
    Modulus     \* of an exit status, 256

VARIABLES
    max,        \* MAX_PROCESSES of fork and thread
    file,       \* temp.txt, empty when it does not exist
    out         \* what each program has printed last

(* The numbers from 1 to 2 * n *)
Numbers(n) == [i \in 1 .. 2 * n |-> i]

SumOf(seq) == FoldSeq(+, 0, seq)
Total == SumOf(SubSeq(file, 1, 2 * max))

(* The sum of a pair fits the exit status of a child. *)
Fits == \A i \in 1 .. max : file[2 * i - 1] + file[2 * i] < Modulus

Start ==
    /\ file = <<>>
    /\ out = [p \in {"fork", "thread"} |-> [st |-> "none", sum |-> 0]]

Generate ==
    /\ file' = Numbers(Len(file') \div 2) /\ file' # <<>>
    /\ UNCHANGED <<max, out>>

(* fork is exact where the sums fit. *)
PrintSum(p) ==
    /\ Len(file) >= 2 * max
    /\ out' = [out EXCEPT ![p] = out'[p]]
    /\ out'[p].st = "printed" /\ out'[p].sum <= Total
    /\ p = "thread" \/ Fits => out'[p].sum = Total
    /\ UNCHANGED <<max, file>>

Fail(p) ==
    /\ out' = [out EXCEPT ![p] = [st |-> "failed", sum |-> 0]]
    /\ UNCHANGED <<max, file>>

SumNext == Generate \/ \E p \in {"fork", "thread"} : PrintSum(p) \/ Fail(p)

SumsUp == Start /\ [][SumNext]_<<max, file, out>>

=============================================================================
