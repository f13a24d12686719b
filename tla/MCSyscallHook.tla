--------------------------- MODULE MCSyscallHook ----------------------------
(***************************************************************************)
(* An instance of SyscallHook for TLC.                                     *)
(***************************************************************************)
EXTENDS SyscallHook

=============================================================================
