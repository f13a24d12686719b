---------------------------- MODULE MCTaskLists -----------------------------
(***************************************************************************)
(* An instance of TaskLists for TLC.  init has the children 2 and 3, and 2 *)
(* has the child 4; 5 can be forked.  There are behaviours with several    *)
(* calls of the file, with few calls while processes fork and exit, and    *)
(* with a trace while they do.                                             *)
(***************************************************************************)
EXTENDS TaskLists

MCBorn == [p \in 0 .. 4 |-> CASE p \in {0, 1} -> 0 [] p = 4 -> 2 [] OTHER -> 1]
Budget(calls, traces, forks, exits, loads) ==
    [calls |-> calls, traces |-> traces, forks |-> forks, exits |-> exits, loads |-> loads]
MCBudgets == {Budget(5, 0, 0, 0, 2), Budget(3, 0, 1, 2, 1), Budget(0, 1, 1, 3, 0)}
MCFilters == {-1, 3}

=============================================================================
