------------------------------- MODULE FatFS -------------------------------
(***************************************************************************)
(* The FAT file system of Assignment4/Assignment4-2/fat.c.                 *)
(*                                                                         *)
(* Every invocation of ./fat is a process that loads the whole file system *)
(* from fs_state.dat into its own memory, executes one command on it, and  *)
(* writes the whole of it back.  An iteration of a loop that follows a FAT *)
(* chain is one step.  Invocations may overlap, and may be killed.         *)
(***************************************************************************)
EXTENDS Integers, Sequences, FiniteSets, FiniteSetsExt

CONSTANTS
    Procs,          \* the invocations of ./fat that may run at one time
    NUM_BLOCKS,     \* 1024 in the code
    EOF,            \* 0xFFFF in the code
    BLOCK_SIZE,     \* 32 in the code
    MAX_FILE_NUM,   \* 100 in the code
    Names,          \* non-empty file names
    NoName,         \* the empty string, which also marks an unused entry
    Args,           \* the file names given on the command line
    Bytes,          \* the characters data is made of
    NUL,            \* the zero byte
    NoFile,         \* history: no file has the name
    Data,           \* the data arguments of write
    MaxSize,        \* bound of the model: largest size a write may lead to
    Cuts            \* bound of the model: where a save may be interrupted

Free == 0

ASSUME SizesAssumption ==
    /\ NUM_BLOCKS \in Nat \ {0}
    /\ EOF \in Nat /\ EOF >= NUM_BLOCKS
    /\ BLOCK_SIZE \in Nat \ {0}
    /\ MAX_FILE_NUM \in Nat \ {0}

ASSUME NamesAssumption ==
    /\ NoName \notin Names
    /\ Args \subseteq Names \cup {NoName}

ASSUME DataAssumption ==
    /\ NUL \notin Bytes
    /\ Data \subseteq Seq(Bytes)
    /\ NoFile \notin Seq(Bytes)

Blocks  == 0 .. NUM_BLOCKS - 1
Entries == 0 .. MAX_FILE_NUM - 1
Offsets == 0 .. BLOCK_SIZE - 1

(* The parts of fs_state.dat in their order: the FAT, which is one page of *)
(* the file, the entries of the directory, the blocks of the data area.    *)
Parts == 1 + MAX_FILE_NUM + NUM_BLOCKS

ASSUME CutsAssumption == Cuts \subseteq 1 .. Parts - 1

(***************************************************************************)
(* FileEntry and FileSystem.  The field "files" is a history variable that *)
(* travels with the image: what the commands executed on the image have    *)
(* stored under each name.                                                 *)
(***************************************************************************)
FileEntry ==
    [filename : Names \cup {NoName}, start_block : Blocks, size : Nat]

FileSystem ==
    [fat_table : [Blocks -> Blocks \cup {EOF}],
     directory : [Entries -> FileEntry],
     data_area : [Blocks -> [Offsets -> Bytes \cup {NUL}]],
     files     : [Names -> Seq(Bytes) \cup {NoFile}]]

(* A zeroed image: no fs_state.dat, or one cut to length 0, which fread    *)
(* leaves the zero-initialised global alone for.                           *)
ZeroImage ==
    [fat_table |-> [b \in Blocks |-> Free],
     directory |-> [i \in Entries |->
                       [filename |-> NoName, start_block |-> 0, size |-> 0]],
     data_area |-> [b \in Blocks |-> [o \in Offsets |-> NUL]],
     files     |-> [n \in Names |-> NoFile]]

VARIABLES
    disk,       \* the image in fs_state.dat
    mem,        \* mem[p] : myfat in the memory of process p
    pc,         \* pc[p]  : where p is
    loc,        \* loc[p] : the locals of the handler p is in
    deviations  \* history: the events so far after which a promise is void

vars == <<disk, mem, pc, loc, deviations>>

(***************************************************************************)
(* arg: the file name; i: the directory entry; block; remain: bytes of the *)
(* file not walked over; off: offset_in_block; data; n: bytes_written,     *)
(* bytes_read or the parts saved; out: what read_file has printed.         *)
(***************************************************************************)
NoLocals ==
    [arg |-> NoName, i |-> 0, block |-> 0, remain |-> 0, off |-> 0,
     data |-> << >>, n |-> 0, out |-> << >>]

Locals ==
    [arg : Names \cup {NoName}, i : Entries, block : Blocks \cup {EOF},
     remain : Nat, off : 0 .. BLOCK_SIZE, data : Seq(Bytes), n : Nat,
     out : Seq(Bytes)]

Events == {"zero_link", "full_append", "no_name", "torn", "overlap"}

PCs == {"idle", "exec", "walk", "append", "read", "printed", "free",
        "save", "flush"}

-----------------------------------------------------------------------------
(* strcmp(directory[i].filename, n) == 0, from the first entry on. *)
Matches(img, n) == {i \in Entries : img.directory[i].filename = n}

FreeBlocks(img) == {b \in Blocks : img.fat_table[b] = Free}

find_free_block(img) == Min(FreeBlocks(img))

(* What printf("%.*s", k, cell) prints: at most k bytes, none after a NUL. *)
Printed(cell, k) ==
    LET len == Min({j \in 0 .. k : j = k \/ cell[j] = NUL})
    IN  [j \in 1 .. len |-> cell[j - 1]]

(* Mutant: memcpy to the start of the block. *)
CopiedToStart(cell, off, d, n, k) ==
    [o \in Offsets |-> IF o < k THEN d[n + o + 1] ELSE cell[o]]

(* memcpy of k bytes of d, from its n-th on, to cell + off. *)
Copied(cell, off, d, n, k) ==
    [o \in Offsets |-> IF o \in off .. off + k - 1 THEN d[n + o - off + 1]
                                                   ELSE cell[o]]

(* Mutant: the first block of a new file is not marked as used. *)
CreatedUnmarked(img, n) ==
    LET unused == Matches(img, NoName)
    IN  IF Matches(img, n) # {} \/ unused = {} \/ FreeBlocks(img) = {}
        THEN img
        ELSE [img EXCEPT !.directory[Min(unused)] =
                             [filename |-> n, size |-> 0,
                              start_block |-> find_free_block(img)],
                         !.files[n] = << >>]

(* Mutant: a reused entry keeps the size of the deleted file. *)
CreatedKeepsSize(img, n) ==
    LET unused == Matches(img, NoName)
        i == Min(unused)
        b == find_free_block(img)
    IN  IF Matches(img, n) # {} \/ unused = {} \/ FreeBlocks(img) = {}
        THEN img
        ELSE [img EXCEPT !.fat_table[b] = EOF,
                         !.directory[i].filename = n,
                         !.directory[i].start_block = b,
                         !.files[n] = << >>]

(* create_file: the image it leaves. *)
Created(img, n) ==
    LET unused == Matches(img, NoName)
        i == Min(unused)
        b == find_free_block(img)
    IN  IF Matches(img, n) # {} \/ unused = {} \/ FreeBlocks(img) = {}
        THEN img
        ELSE [img EXCEPT !.fat_table[b] = EOF,
                         !.directory[i] = [filename |-> n, start_block |-> b,
                                           size |-> 0],
                         !.files[n] = << >>]

(* Mutant: the end of the chain is not marked. *)
LinkedUnmarked(img, b, nb) == [img EXCEPT !.fat_table[b] = nb]

(* Block nb is linked behind block b. *)
Linked(img, b, nb) == [img EXCEPT !.fat_table[b] = nb, !.fat_table[nb] = EOF]

(* The bytes of a block are replaced. *)
Stored(img, b, cell) == [img EXCEPT !.data_area[b] = cell]

(* The file of entry i, called n, has grown by the sequence s. *)
Grown(img, i, n, s) ==
    [img EXCEPT !.directory[i].size = @ + Len(s),
                !.files = [m \in Names |-> IF m = n /\ @[m] # NoFile
                                           THEN @[m] \o s ELSE @[m]]]

Freed(img, b) == [img EXCEPT !.fat_table[b] = Free]

(* Entry i, called n, is unused again; start_block and size stay. *)
Removed(img, i, n) ==
    [img EXCEPT !.directory[i].filename = NoName,
                !.files = [m \in Names |-> IF m = n THEN NoFile ELSE @[m]]]

(* The file holds old and the parts from .. to - 1 of new are written. *)
Overlaid(old, new, from, to) ==
    LET written(part) == part \in from .. to - 1
    IN  [fat_table |-> IF written(0) THEN new.fat_table ELSE old.fat_table,
         directory |-> [i \in Entries |-> IF written(1 + i)
                           THEN new.directory[i] ELSE old.directory[i]],
         data_area |-> [b \in Blocks |-> IF written(1 + MAX_FILE_NUM + b)
                           THEN new.data_area[b] ELSE old.data_area[b]],
         files     |-> IF to = Parts THEN new.files ELSE old.files]

-----------------------------------------------------------------------------
Init ==
    /\ disk = ZeroImage
    /\ mem = [p \in Procs |-> ZeroImage]
    /\ pc = [p \in Procs |-> "idle"]
    /\ loc = [p \in Procs |-> NoLocals]
    /\ deviations = {}

Goto(p, l) == pc' = [pc EXCEPT ![p] = l]

(* The process is gone: so is its memory. *)
Exit(p) ==
    /\ Goto(p, "idle")
    /\ mem' = [mem EXCEPT ![p] = ZeroImage]
    /\ loc' = [loc EXCEPT ![p] = NoLocals]

Note(event, happened) ==
    deviations' = deviations \cup (IF happened THEN {event} ELSE {})

(* Another process is running, or is saving. *)
Overlaps(p) == \E q \in Procs \ {p} : pc[q] # "idle"
Saving(p)   == \E q \in Procs \ {p} : pc[q] = "flush"

(* main, load_file_system. *)
Load(p) ==
    /\ pc[p] = "idle"
    /\ Goto(p, "exec")
    /\ mem' = [mem EXCEPT ![p] = disk]
    /\ deviations' = deviations \cup (IF Overlaps(p) THEN {"overlap"} ELSE {})
                                \cup (IF Saving(p) THEN {"torn"} ELSE {})
    /\ UNCHANGED <<disk, loc>>

(* list_files, an invalid command, a wrong number of arguments. *)
Other(p) ==
    /\ pc[p] = "exec"
    /\ Goto(p, "save")
    /\ UNCHANGED <<disk, mem, loc, deviations>>

create_file(p, n) ==
    /\ pc[p] = "exec"
    /\ Goto(p, "save")
    /\ mem' = [mem EXCEPT ![p] = Created(mem[p], n)]
    /\ loc' = [loc EXCEPT ![p].arg = n]
    /\ UNCHANGED <<disk, deviations>>

-----------------------------------------------------------------------------
(* write_file: the entry is looked up, its size and start block are read. *)
WriteOpen(p, n, d) ==
    LET found == Matches(mem[p], n)
        i     == Min(found)
        f     == mem[p].directory[i]
    IN  /\ pc[p] = "exec"
        /\ IF found = {}
           THEN /\ Goto(p, "save")
                /\ UNCHANGED <<loc, deviations>>
           ELSE /\ f.size + Len(d) <= MaxSize
                /\ Goto(p, "walk")
                /\ loc' = [loc EXCEPT ![p] = [NoLocals EXCEPT
                              !.arg = n, !.i = i, !.block = f.start_block,
                              !.remain = f.size, !.data = d]]
                /\ Note("no_name", n = NoName)
        /\ UNCHANGED <<disk, mem>>

WalkOn(p) ==
    /\ loc[p].remain >= BLOCK_SIZE
    /\ mem[p].fat_table[loc[p].block] # EOF

(* An iteration of the loop that looks for the last block. *)
WriteWalk(p) ==
    /\ pc[p] = "walk"
    /\ WalkOn(p)
    /\ loc' = [loc EXCEPT ![p].remain = loc[p].remain - BLOCK_SIZE,
                          ![p].block = mem[p].fat_table[loc[p].block]]
    /\ UNCHANGED <<disk, mem, pc, deviations>>

(* Mutant: the offset is the size itself. *)
WriteSeekNoModulo(p) ==
    /\ pc[p] = "walk"
    /\ ~ WalkOn(p)
    /\ Goto(p, "append")
    /\ loc' = [loc EXCEPT ![p].off = mem[p].directory[loc[p].i].size]
    /\ UNCHANGED <<disk, mem, deviations>>

(* The loop ends; offset_in_block is the size modulo BLOCK_SIZE, also when *)
(* the walk stopped at a last block that is full.                          *)
WriteSeek(p) ==
    /\ pc[p] = "walk"
    /\ ~ WalkOn(p)
    /\ Goto(p, "append")
    /\ loc' = [loc EXCEPT
                  ![p].off = mem[p].directory[loc[p].i].size % BLOCK_SIZE]
    /\ Note("full_append",
            loc[p].remain >= BLOCK_SIZE /\ loc[p].data # << >>)
    /\ UNCHANGED <<disk, mem>>

Pending(p) == Len(loc[p].data) - loc[p].n

NoSpace(p) == loc[p].off = BLOCK_SIZE /\ FreeBlocks(mem[p]) = {}

(* An iteration of the copy loop: a full block is followed by a new one. *)
WriteChunk(p) ==
    LET l    == loc[p]
        full == l.off = BLOCK_SIZE
        img  == IF full THEN Linked(mem[p], l.block, find_free_block(mem[p]))
                        ELSE mem[p]
        b    == IF full THEN find_free_block(mem[p]) ELSE l.block
        off  == IF full THEN 0 ELSE l.off
        k    == Min({Pending(p), BLOCK_SIZE - off})
    IN  /\ pc[p] = "append"
        /\ Pending(p) > 0
        /\ ~ NoSpace(p)
        /\ mem' = [mem EXCEPT ![p] = Stored(img, b,
                      Copied(img.data_area[b], off, l.data, l.n, k))]
        /\ loc' = [loc EXCEPT ![p] = [l EXCEPT
                      !.block = b, !.off = off + k, !.n = l.n + k]]
        /\ Note("zero_link", full /\ b = Free)
        /\ UNCHANGED <<disk, pc>>

(* All is written, or no block is free; the size grows by what was written. *)
WriteDone(p) ==
    LET l == loc[p]
    IN  /\ pc[p] = "append"
        /\ Pending(p) = 0 \/ NoSpace(p)
        /\ Goto(p, "save")
        /\ mem' = [mem EXCEPT ![p] =
                      Grown(@, l.i, l.arg, SubSeq(l.data, 1, l.n))]
        /\ UNCHANGED <<disk, loc, deviations>>

-----------------------------------------------------------------------------
(* read_file: the entry is looked up; an empty file prints no content. *)
ReadOpen(p, n) ==
    LET found == Matches(mem[p], n)
        i     == Min(found)
    IN  /\ pc[p] = "exec"
        /\ IF found = {}
           THEN /\ Goto(p, "save")
                /\ UNCHANGED loc
           ELSE /\ Goto(p, "read")
                /\ loc' = [loc EXCEPT ![p] = [NoLocals EXCEPT !.arg = n,
                      !.i = i, !.block = mem[p].directory[i].start_block]]
        /\ UNCHANGED <<disk, mem, deviations>>

ReadOn(p) ==
    /\ loc[p].block # EOF
    /\ loc[p].n < mem[p].directory[loc[p].i].size

(* An iteration of the read loop. *)
ReadBlock(p) ==
    LET l == loc[p]
        k == Min({mem[p].directory[l.i].size - l.n, BLOCK_SIZE})
    IN  /\ pc[p] = "read"
        /\ ReadOn(p)
        /\ loc' = [loc EXCEPT ![p] = [l EXCEPT
                      !.out = @ \o Printed(mem[p].data_area[l.block], k),
                      !.n = @ + k,
                      !.block = mem[p].fat_table[l.block]]]
        /\ UNCHANGED <<disk, mem, pc, deviations>>

ReadDone(p) ==
    /\ pc[p] = "read"
    /\ ~ ReadOn(p)
    /\ Goto(p, "printed")
    /\ UNCHANGED <<disk, mem, loc, deviations>>

-----------------------------------------------------------------------------
(* delete_file: the entry is looked up. *)
DeleteOpen(p, n) ==
    LET found == Matches(mem[p], n)
        i     == Min(found)
    IN  /\ pc[p] = "exec"
        /\ IF found = {}
           THEN /\ Goto(p, "save")
                /\ UNCHANGED <<loc, deviations>>
           ELSE /\ Goto(p, "free")
                /\ loc' = [loc EXCEPT ![p] = [NoLocals EXCEPT !.arg = n,
                      !.i = i, !.block = mem[p].directory[i].start_block]]
                /\ Note("no_name", n = NoName)
        /\ UNCHANGED <<disk, mem>>

(* Mutant: the block is marked free before its successor is read. *)
DeleteBlockSwapped(p) ==
    LET img == Freed(mem[p], loc[p].block)
    IN  /\ pc[p] = "free"
        /\ loc[p].block # EOF
        /\ loc' = [loc EXCEPT ![p].block = img.fat_table[@]]
        /\ mem' = [mem EXCEPT ![p] = img]
        /\ UNCHANGED <<disk, pc, deviations>>

(* An iteration of the loop that frees the chain. *)
DeleteBlock(p) ==
    LET b == loc[p].block
    IN  /\ pc[p] = "free"
        /\ b # EOF
        /\ loc' = [loc EXCEPT ![p].block = mem[p].fat_table[b]]
        /\ mem' = [mem EXCEPT ![p] = Freed(@, b)]
        /\ UNCHANGED <<disk, pc, deviations>>

DeleteDone(p) ==
    /\ pc[p] = "free"
    /\ loc[p].block = EOF
    /\ Goto(p, "save")
    /\ mem' = [mem EXCEPT ![p] = Removed(@, loc[p].i, loc[p].arg)]
    /\ UNCHANGED <<disk, loc, deviations>>

-----------------------------------------------------------------------------
(* save_file_system: fopen(FS_STAT, "wb") empties the file ... *)
SaveOpen(p) ==
    /\ pc[p] \in {"save", "printed"}
    /\ Goto(p, "flush")
    /\ loc' = [loc EXCEPT ![p].n = 0]
    /\ disk' = ZeroImage
    /\ Note("torn", Saving(p))
    /\ UNCHANGED <<mem>>

(* ... or fails: the command's effect is dropped, the exit code is still 0. *)
SaveFails(p) ==
    /\ pc[p] \in {"save", "printed"}
    /\ Exit(p)
    /\ UNCHANGED <<disk, deviations>>

(* fwrite and fclose reach the file in several writes, from its start on. *)
SavePart(p, cut) ==
    /\ pc[p] = "flush"
    /\ loc[p].n < cut
    /\ loc' = [loc EXCEPT ![p].n = cut]
    /\ disk' = Overlaid(disk, mem[p], loc[p].n, cut)
    /\ UNCHANGED <<mem, pc, deviations>>

(* The last write, and the end of main. *)
SaveLast(p) ==
    /\ pc[p] = "flush"
    /\ Exit(p)
    /\ disk' = Overlaid(disk, mem[p], loc[p].n, Parts)
    /\ UNCHANGED deviations

(* The process is killed, or leaves after a short fwrite, whose result is  *)
(* not looked at.                                                          *)
Crash(p) ==
    /\ pc[p] # "idle"
    /\ Exit(p)
    /\ Note("torn", pc[p] = "flush")
    /\ UNCHANGED disk

-----------------------------------------------------------------------------
execute_cmd(p) ==
    \/ Other(p)
    \/ \E n \in Args : create_file(p, n)
    \/ \E n \in Args, d \in Data : WriteOpen(p, n, d)
    \/ \E n \in Args : ReadOpen(p, n)
    \/ \E n \in Args : DeleteOpen(p, n)

Step(p) ==
    \/ WriteWalk(p) \/ WriteSeek(p) \/ WriteChunk(p) \/ WriteDone(p)
    \/ ReadBlock(p) \/ ReadDone(p)
    \/ DeleteBlock(p) \/ DeleteDone(p)
    \/ SaveOpen(p) \/ SaveFails(p) \/ SaveLast(p)
    \/ \E cut \in Cuts : SavePart(p, cut)

Next == \E p \in Procs : Load(p) \/ execute_cmd(p) \/ Step(p) \/ Crash(p)

(* A process that is running goes on running: the operating system         *)
(* schedules it.  Nobody has to start one.                                 *)
Fairness == \A p \in Procs : WF_vars(execute_cmd(p) \/ Step(p))

Spec == Init /\ [][Next]_vars /\ Fairness

-----------------------------------------------------------------------------
(***************************************************************************)
(* Properties                                                              *)
(***************************************************************************)
TypeOK ==
    /\ disk \in FileSystem
    /\ mem \in [Procs -> FileSystem]
    /\ pc \in [Procs -> PCs]
    /\ loc \in [Procs -> Locals]
    /\ deviations \subseteq Events

(* Nothing has happened that voids what the FAT promises: no link to block *)
(* 0, which stores the value that marks a free block; no use of the empty  *)
(* name; no save cut short, or overlapped by a load or another save.       *)
Undamaged == deviations \cap {"zero_link", "no_name", "torn"} = {}

(* The images nobody is in the middle of changing. *)
AtRest ==
    (IF \A p \in Procs : pc[p] # "flush" THEN {disk} ELSE {}) \cup
    {mem[p] : p \in {q \in Procs :
                        pc[q] \in {"exec", "save", "printed", "flush"}}}

Live(img) == {i \in Entries : img.directory[i].filename # NoName}

(* The blocks of a file in the order read_file visits them, cut off after  *)
(* more steps than there are blocks.                                       *)
Chain(img, i) ==
    LET walk[k \in 0 .. NUM_BLOCKS] ==
          IF k = 0 THEN <<img.directory[i].start_block>>
          ELSE LET c    == walk[k - 1]
                   next == img.fat_table[c[Len(c)]]
               IN  IF next = EOF \/ Len(c) < k THEN c ELSE Append(c, next)
    IN  walk[NUM_BLOCKS]

ChainBlocks(img, i) == LET c == Chain(img, i) IN {c[k] : k \in DOMAIN c}

(* A chain is finite, visits no block twice and no block marked free. *)
SoundChain(img, i) ==
    /\ Len(Chain(img, i)) = Cardinality(ChainBlocks(img, i))
    /\ ChainBlocks(img, i) \cap FreeBlocks(img) = {}

(* The FAT as fat.c:25 describes it: every chain is sound, no two files    *)
(* share a block, and a block no file uses is free.                        *)
SoundFat(img) ==
    /\ \A i \in Live(img) : SoundChain(img, i)
    /\ \A i, j \in Live(img) :
          i # j => ChainBlocks(img, i) \cap ChainBlocks(img, j) = {}
    /\ \A b \in Blocks \ FreeBlocks(img) :
          \E i \in Live(img) : b \in ChainBlocks(img, i)

(* Whatever the order of commands, kills and overlapping invocations, the  *)
(* FAT in memory and on disk is sound (no cross-linked, lost or free block *)
(* in use) until one of the three events of Undamaged.                     *)
FatStaysSound == Undamaged => \A img \in AtRest : SoundFat(img)

(* No block is claimed twice, by two directory entries, by two links or by *)
(* an entry and a link; the claimed blocks are exactly those in use.       *)
ClaimedOnce(img) ==
    LET Links   == {b \in Blocks : img.fat_table[b] \notin {Free, EOF}}
        next(b) == img.fat_table[b]
        head(i) == img.directory[i].start_block
    IN  /\ \A i, j \in Live(img) : head(i) = head(j) => i = j
        /\ \A b, c \in Links : next(b) = next(c) => b = c
        /\ \A i \in Live(img), b \in Links : head(i) # next(b)
        /\ \A b \in Blocks : b \notin FreeBlocks(img) <=>
              (\E i \in Live(img) : b = head(i)) \/ \E c \in Links : b = next(c)

(* The part of FatStaysSound that follows no chain: create_file,           *)
(* write_file and delete_file keep every block in use claimed exactly once *)
(* and every other block free, under the same condition.                   *)
BlocksClaimedOnce == Undamaged => \A img \in AtRest : ClaimedOnce(img)

(* Every iteration of the loop of delete_file frees a block that was in    *)
(* use, so that the loop ends, under the same condition.                   *)
DeleteFreesUsedBlocks ==
    Undamaged => \A p \in Procs : pc[p] = "free" /\ loc[p].block # EOF =>
                    loc[p].block \notin FreeBlocks(mem[p])

(* read_file prints exactly what the writes to the file have appended,     *)
(* across blocks, partial writes on a full disk, reuse of blocks freed by  *)
(* delete_file, kills and overlaps, as long as no write started at the end *)
(* of a full last block and the FAT is sound.                              *)
ReadReturnsWritten ==
    Undamaged /\ "full_append" \notin deviations =>
        \A p \in Procs :
            pc[p] = "printed" => loc[p].out = mem[p].files[loc[p].arg]

(* delete_file comes to the end of the chain, unless the FAT was damaged.  *)
DeleteTerminates ==
    \A p \in Procs : pc[p] = "free" ~>
        pc[p] # "free" \/ ~ Undamaged

-----------------------------------------------------------------------------
(***************************************************************************)
(* What a comment says, without the conditions above.                      *)
(***************************************************************************)

(* fat.c:126, "Appends data to an existing file": read_file then prints    *)
(* the old contents followed by the data, also when the old contents fill  *)
(* their last block.                                                       *)
WriteAppends ==
    Undamaged =>
        \A p \in Procs :
            pc[p] = "printed" => loc[p].out = mem[p].files[loc[p].arg]

=============================================================================
