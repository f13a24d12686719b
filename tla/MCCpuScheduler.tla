--------------------------- MODULE MCCpuScheduler ---------------------------
(***************************************************************************)
(* Instances of CpuScheduler for TLC.                                      *)
(***************************************************************************)
EXTENDS CpuScheduler, TLC

(* Up to three processes; with MS = 2 every second context switch ends at  *)
(* a whole millisecond, as every tenth does in the code.  They need up to  *)
(* nine turns of RR, the array of the cfg has six places.                  *)
Small ==
    UNION {{[i \in 1 .. n |-> [pid |-> n + 1 - i, arrival |-> a[i], burst |-> b[i]]] :
              a \in [1 .. n -> 0 .. 4], b \in [1 .. n -> 0 .. 3]} : n \in 1 .. 3}

(* More processes than the table, and the queue of RR, have room for. *)
Many == [i \in 1 .. MAX_TASKS + 1 |-> [pid |-> i, arrival |-> i \div 2, burst |-> 1]]

Files == Small \cup {Many}

=============================================================================
