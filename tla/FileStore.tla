----------------------------- MODULE FileStore ------------------------------
(***************************************************************************)
(* What fat.c promises: named files, each a sequence of bytes, on which    *)
(* the commands act one at a time and at once.  void: something has        *)
(* happened after which nothing is promised.                               *)
(***************************************************************************)
EXTENDS Naturals, Sequences

CONSTANTS Names, NoFile, Data

VARIABLES contents, void

Empty == [n \in Names |-> NoFile]

(* create: a new file has no bytes. *)
Create(old, new, n) == old[n] = NoFile /\ new = [old EXCEPT ![n] = <<>>]

(* write: the data, or as much of it as there is space for, is appended. *)
Write(old, new, n) ==
    /\ old[n] # NoFile
    /\ \E d \in Data : \E k \in 1 .. Len(d) :
          new = [old EXCEPT ![n] = @ \o SubSeq(d, 1, k)]

(* delete *)
Delete(old, new, n) == old[n] # NoFile /\ new = [old EXCEPT ![n] = NoFile]

Command ==
    \E old \in {contents}, new \in {contents'} :
        \E n \in Names : Create(old, new, n) \/ Write(old, new, n) \/ Delete(old, new, n)

StoreNext == void' \/ (~ void /\ Command)

StoreSpec == contents = Empty /\ ~ void /\ [][StoreNext]_<<contents, void>>

=============================================================================
