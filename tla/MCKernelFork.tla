---------------------------- MODULE MCKernelFork ----------------------------
(***************************************************************************)
(* Instances of KernelFork for TLC.                                        *)
(***************************************************************************)
EXTENDS KernelFork, TLC

Fork(e, flags) == [entry |-> e, flags |-> flags, exit_signal |-> FALSE, wellFormed |-> TRUE]

Pthread == {"VM", "FS", "FILES", "SIGHAND", "THREAD"}

Plain == {Fork("fork", {})}

Others == {Fork("vfork", {}), Fork("clone", Pthread),
           Fork("clone3", {"PARENT", "PIDFD", "FS"}), Fork("clone", {"SIGHAND"})}

Beginning(shared, forks, calls, events) ==
    [shared |-> shared, forks |-> forks, calls |-> calls, events |-> events]

(* Two processes that share nothing, with and without an event; two that   *)
(* share what unshare unshares; two threads of one process.                *)
StartsMC == {Beginning({}, Others, 2, 1),
             Beginning({}, Plain, 1, 1),
             Beginning({}, Plain \cup Others, 2, 0),
             Beginning({"fs", "files"}, Plain \cup Others, 2, 0),
             Beginning(Kinds, Plain \cup Others, 2, 0)}

UnsharesMC == {{"NEWNS", "FILES"}, {"VM"}}

Symmetry == Permutations(Tasks \ {Root, User})

=============================================================================
