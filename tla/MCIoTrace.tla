----------------------------- MODULE MCIoTrace -----------------------------
(***************************************************************************)
(* Instances of IoTrace for TLC.                                           *)
(***************************************************************************)
EXTENDS IoTrace, TLC

CONSTANTS p, q, t, u

One == <<"read">>
Two == <<"openat", "read">>
All == <<"openat", "read", "write", "lseek", "close">>

Case(slots, args, pcalls, qcalls, ttraces, utraces, loads, unloads) ==
    [slots |-> slots, args |-> args,
     calls |-> (p :> pcalls @@ q :> qcalls),
     traces |-> (t :> ttraces @@ u :> utraces),
     loads |-> loads, unloads |-> unloads]

(* In turn: all five hooks under two workers; a worker's second call; a    *)
(* stop, or a second start, under two workers; three starts and stops; two *)
(* tracers; unloading and loading again.                                   *)
Cases == {Case(All, {p}, 1, 1, 1, 0, 2, 0),
          Case(Two, {p}, 2, 1, 1, 0, 2, 0),
          Case(One, {p, q}, 1, 1, 2, 0, 2, 0),
          Case(Two, {p, q, NoPid}, 1, 0, 3, 0, 2, 0),
          Case(One, {p, q}, 1, 0, 2, 1, 2, 0),
          Case(Two, {p}, 1, 0, 2, 0, 4, 2)}

=============================================================================
