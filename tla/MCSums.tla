------------------------------- MODULE MCSums -------------------------------
(***************************************************************************)
(* An instance of Sums for TLC.                                            *)
(***************************************************************************)
EXTENDS Sums

Abstract == INSTANCE SumSpec

(* fork and thread print the sum of the numbers, or fail: fork is exact    *)
(* where every part fits an exit status, thread always.                    *)
SumsUp == Abstract!SumsUp

=============================================================================
