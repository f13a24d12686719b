------------------------------ MODULE MCFatFS ------------------------------
(***************************************************************************)
(* Instances of FatFS for TLC.  Blocks hold two bytes; the data arguments  *)
(* are shorter than a block, or longer by half a block.                    *)
(***************************************************************************)
EXTENDS FatFS, TLC

OneLong == {<<1, 1, 1>>}
Mixed   == {<<1>>, <<2, 1, 2>>}
Lengths == {<<1>>, <<1, 1>>, <<1, 1, 1>>}

(* A save may be interrupted after the FAT and after the directory. *)
CutsMC == {1, 1 + MAX_FILE_NUM}

(* Once the FAT is damaged the properties promise nothing: the search does *)
(* not go on from there.                                                   *)
BeforeDamage == Undamaged

Symmetry == Permutations(Procs) \cup Permutations(Names)

-----------------------------------------------------------------------------
(***************************************************************************)
(* The refinement of FileStore.  The files are those of the image that is  *)
(* saved, or else of fs_state.dat, as the directory, the chains and the    *)
(* data area have them: a command takes effect when save_file_system opens *)
(* the file, and a crash before that leaves no trace of it.                *)
(***************************************************************************)
Broken == ~ Undamaged \/ deviations \cap {"full_append", "overlap"} # {}

BytesOf(img, i) ==
    LET c == Chain(img, i)
    IN  [k \in 1 .. img.directory[i].size |->
            img.data_area[c[(k - 1) \div BLOCK_SIZE + 1]][(k - 1) % BLOCK_SIZE]]

Decoded(img) ==
    [n \in Names |-> LET found == Matches(img, n)
                     IN  IF found = {} THEN NoFile ELSE BytesOf(img, Min(found))]

Current ==
    LET saving == {p \in Procs : pc[p] = "flush"}
    IN  IF saving = {} THEN disk ELSE mem[CHOOSE p \in saving : TRUE]

Files == INSTANCE FileStore WITH
    contents <- IF Broken THEN [n \in Names |-> NoFile] ELSE Decoded(Current),
    void <- Broken

(* Each command of fat.c, with its steps in memory and the several writes  *)
(* of save_file_system, is one step of a store of files, and no other step *)
(* changes a file, until an event voids the promise: a damaged FAT, a      *)
(* write at the end of a full last block, overlapping invocations.         *)
CommandsAtomic == Files!StoreSpec

=============================================================================
