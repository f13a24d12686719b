--------------------------- MODULE MCAddressSpace ---------------------------
(***************************************************************************)
(* An instance of AddressSpace for TLC: a private mapping of a file, which *)
(* is accounted, one of a device, which is not copied, and a heap.         *)
(***************************************************************************)
EXTENDS AddressSpace

AreaAt(s, n, acct, dont, f) ==
    [start |-> s, pages |-> n, account |-> acct, dontcopy |-> dont, file |-> f]

LayoutMC == <<AreaAt(1, 2, TRUE, FALSE, TRUE), AreaAt(2, 1, FALSE, TRUE, TRUE)>>

ExtraMC == AreaAt(3, 1, TRUE, FALSE, FALSE)

=============================================================================
