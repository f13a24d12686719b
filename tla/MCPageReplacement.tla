------------------------- MODULE MCPageReplacement -------------------------
(***************************************************************************)
(* Instances of PageReplacement for TLC: all short reference strings up to *)
(* renaming of the pages, and the test cases of Assignment3/README.MD.     *)
(***************************************************************************)
EXTENDS PageReplacement, SequencesExt

CONSTANT MaxLen     \* bound: the length of the reference strings

(* Pages are numbered in the order in which they are first referenced. *)
Canonical(s) ==
    \A j \in DOMAIN s : s[j] = Empty \/
        \A page \in Pages : page < s[j] => \E n \in 1 .. j - 1 : s[n] = page

GoodStrings == {s \in SeqOf(0 .. 3, MaxLen) : Canonical(s)}

BadStrings == {s \in SeqOf(-1 .. 2, MaxLen - 2) : Canonical(s)}

(* Strings and frame counts as they should be ... *)
GoodInputs == [frames : 1 .. 3, refs : GoodStrings]

(* ... and as they should not: the mark of an empty frame as a page, and   *)
(* frame counts that are missing, not positive or too large.               *)
BadInputs ==
    [frames : {NoNumber, -1, 0, 1, 2, MAX_FRAMES + 1},
     refs : BadStrings]

SomeGarbage == {-2, 0, 1, MAX_FRAMES + 2}

TestCases ==
    {[frames |-> 3, refs |-> <<7, 0, 1, 2, 0, 3, 0, 4, 2, 3, 0, 3, 2>>],
     [frames |-> 3, refs |-> <<1, 2, 3, 4, 2, 1, 2, 1, 3, 1>>],
     [frames |-> 4, refs |-> <<1, 3, 0, 3, 5, 6, 3, 2, 5, 2, 4, 1, 0, 5>>]}

AllInputs == GoodInputs \cup BadInputs \cup TestCases

=============================================================================
