----------------------------- MODULE FatFSProof -----------------------------
(***************************************************************************)
(* Proofs about FatFS, for every number of blocks, block size, directory   *)
(* size, set of names, set of data arguments and set of processes.         *)
(***************************************************************************)
EXTENDS FatFS, WellFoundedInduction, TLAPS

USE DEF Free

-----------------------------------------------------------------------------
(* Arithmetic. *)

(* Min, used for every "first entry" and "first free block" loop, returns  *)
(* the least element.                                                      *)
LEMMA MinNat ==
    ASSUME NEW S, S \subseteq Nat, S # {}
    PROVE  Min(S) \in S /\ \A y \in S : Min(S) <= y
<1>1. \E x \in S : \A y \in S : ~ (<<y, x>> \in OpToRel(<, Nat))
  BY WFMin, NatLessThanWellFounded
<1>2. PICK x \in S : \A y \in S : ~ (<<y, x>> \in OpToRel(<, Nat))
  BY <1>1
<1>3. \A y \in S : ~ (y < x)
  BY <1>2 DEF OpToRel
<1>4. \E z \in S : \A y \in S : z =< y
  BY <1>3
<1> QED
  BY <1>4 DEF Min

(* A remainder is unique. *)
LEMMA RemainderUnique ==
    ASSUME NEW b \in Nat \ {0}, NEW q1 \in Int, NEW q2 \in Int,
           NEW r1 \in 0 .. b - 1, NEW r2 \in 0 .. b - 1,
           b * q1 + r1 = b * q2 + r2
    PROVE  r1 = r2
<1>1. b * (q1 - q2) = r2 - r1
  OBVIOUS
<1>2. CASE q1 - q2 >= 1
  <2>1. b * (q1 - q2) >= b
    BY <1>2
  <2> QED
    BY <1>1, <2>1
<1>3. CASE q1 - q2 <= -1
  <2>1. b * (q1 - q2) <= -b
    BY <1>3
  <2> QED
    BY <1>1, <2>1
<1>4. CASE q1 = q2
  BY <1>4
<1> QED
  BY <1>2, <1>3, <1>4

(* Walking over a whole block does not change the offset in a block. *)
LEMMA ModStep ==
    ASSUME NEW a \in Nat, NEW b \in Nat \ {0}, a >= b
    PROVE  (a - b) % b = a % b
<1> DEFINE q == (a - b) \div b
<1>1. /\ a = b * (a \div b) + (a % b)
      /\ (a % b) \in 0 .. b - 1
      /\ a \div b \in Int
  OBVIOUS
<1>2. /\ a - b = b * q + ((a - b) % b)
      /\ ((a - b) % b) \in 0 .. b - 1
      /\ q \in Int
  OBVIOUS
<1> HIDE DEF q
<1>3. b * (q + 1) = b * q + b
  BY <1>2
<1>4. b * (q + 1) + ((a - b) % b) = b * (a \div b) + (a % b)
  BY <1>1, <1>2, <1>3
<1>5. q + 1 \in Int
  BY <1>2
<1> QED
  BY <1>1, <1>2, <1>4, <1>5, RemainderUnique

-----------------------------------------------------------------------------
(* The operators on images. *)

(* The name lookup returns an entry with that name. *)
LEMMA FirstMatch ==
    ASSUME NEW img, NEW n, Matches(img, n) # {}
    PROVE  /\ Min(Matches(img, n)) \in Entries
           /\ img.directory[Min(Matches(img, n))].filename = n
<1>1. Matches(img, n) \subseteq Nat
  BY SizesAssumption DEF Matches, Entries
<1>2. Min(Matches(img, n)) \in Matches(img, n)
  BY <1>1, MinNat
<1> QED
  BY <1>2 DEF Matches

(* find_free_block returns a free block when there is one. *)
LEMMA FirstFree ==
    ASSUME NEW img, FreeBlocks(img) # {}
    PROVE  find_free_block(img) \in FreeBlocks(img)
<1>1. FreeBlocks(img) \subseteq Nat
  BY SizesAssumption DEF FreeBlocks, Blocks
<1> QED
  BY <1>1, MinNat DEF find_free_block

(* The smaller of two numbers. *)
LEMMA MinOfTwo ==
    ASSUME NEW a \in Nat, NEW b \in Nat
    PROVE  /\ Min({a, b}) \in {a, b}
           /\ Min({a, b}) <= a /\ Min({a, b}) <= b
  BY MinNat, {a, b} \subseteq Nat, {a, b} # {}

(* printf prints a sequence of characters, no longer than asked for. *)
LEMMA PrintedType ==
    ASSUME NEW cell \in [Offsets -> Bytes \cup {NUL}],
           NEW k \in 0 .. BLOCK_SIZE
    PROVE  Printed(cell, k) \in Seq(Bytes)
<1> DEFINE S == {j \in 0 .. k : j = k \/ cell[j] = NUL}
           len == Min(S)
<1>1. S \subseteq Nat /\ k \in S
  BY SizesAssumption
<1>2. len \in S /\ \A y \in S : len <= y
  BY <1>1, MinNat
<1>3. len \in 0 .. k
  BY <1>2
<1> HIDE DEF len
<1>4. ASSUME NEW j \in 1 .. len
      PROVE  cell[j - 1] \in Bytes
  <2>1. j - 1 \in 0 .. k /\ j - 1 < len /\ j - 1 \in Offsets
    BY <1>3, SizesAssumption DEF Offsets
  <2>2. j - 1 \notin S
    BY <1>2, <1>3, <2>1
  <2>3. cell[j - 1] # NUL
    BY <2>1, <2>2
  <2> QED
    BY <2>1, <2>3
<1>5. [j \in 1 .. len |-> cell[j - 1]] \in Seq(Bytes)
  BY <1>3, <1>4
<1> QED
  BY <1>5 DEF Printed, len

LEMMA ZeroImageIsImage == ZeroImage \in FileSystem
  BY SizesAssumption DEF ZeroImage, FileSystem, FileEntry, Blocks, Entries

(* create_file keeps the image an image. *)
LEMMA CreatedType ==
    ASSUME NEW img \in FileSystem, NEW n \in Args
    PROVE  Created(img, n) \in FileSystem
<1> DEFINE unused == Matches(img, NoName)
           i == Min(unused)
           b == find_free_block(img)
<1>1. CASE Matches(img, n) # {} \/ unused = {} \/ FreeBlocks(img) = {}
  BY <1>1 DEF Created
<1>2. CASE ~ (Matches(img, n) # {} \/ unused = {} \/ FreeBlocks(img) = {})
  <2>1. i \in Entries /\ img.directory[i].filename = NoName
    BY <1>2, FirstMatch
  <2>2. b \in Blocks
    BY <1>2, FirstFree DEF FreeBlocks
  <2>3. n \in Names
    BY <1>2, NamesAssumption
  <2> DEFINE e == [filename |-> n, start_block |-> b, size |-> 0]
             new == [img EXCEPT !.fat_table[b] = EOF,
                                !.directory[i] = e,
                                !.files[n] = << >>]
  <2>5. Created(img, n) = new
    BY <1>2 DEF Created
  <2> HIDE DEF i, b
  <2>6. e \in FileEntry
    BY <2>2, <2>3 DEF FileEntry
  <2>7. << >> \in Seq(Bytes)
    OBVIOUS
  <2>8. new \in FileSystem
    BY <2>1, <2>2, <2>3, <2>6, <2>7 DEF FileSystem
  <2> QED
    BY <2>5, <2>8
<1> QED
  BY <1>1, <1>2

(* So do the operators that touch only the FAT or the data. *)
LEMMA LinkedType ==
    ASSUME NEW img \in FileSystem,
           NEW b \in Blocks, NEW nb \in Blocks
    PROVE  Linked(img, b, nb) \in FileSystem
  BY DEF FileSystem, Linked

LEMMA StoredType ==
    ASSUME NEW img \in FileSystem,
           NEW b \in Blocks, NEW cell \in [Offsets -> Bytes \cup {NUL}]
    PROVE  Stored(img, b, cell) \in FileSystem
  BY DEF FileSystem, Stored

LEMMA FreedType ==
    ASSUME NEW img \in FileSystem, NEW b \in Blocks
    PROVE  Freed(img, b) \in FileSystem
<1>1. 0 \in Blocks
  BY SizesAssumption DEF Blocks
<1> QED
  BY <1>1 DEF FileSystem, Freed

(* memcpy stays inside the block and the data. *)
LEMMA CopiedType ==
    ASSUME NEW cell \in [Offsets -> Bytes \cup {NUL}],
           NEW off \in 0 .. BLOCK_SIZE, NEW d \in Seq(Bytes),
           NEW n \in Nat, NEW k \in Nat, n + k <= Len(d)
    PROVE  Copied(cell, off, d, n, k) \in [Offsets -> Bytes \cup {NUL}]
<1> SUFFICES ASSUME NEW o \in Offsets, o \in off .. off + k - 1
             PROVE  d[n + o - off + 1] \in Bytes
  BY DEF Copied
<1>1. n + o - off + 1 \in 1 .. Len(d)
  BY SizesAssumption DEF Offsets
<1> QED
  BY <1>1

(* A write changes the size of its file and what is stored under its name. *)
LEMMA GrownType ==
    ASSUME NEW img \in FileSystem, NEW i \in Entries,
           NEW s \in Seq(Bytes), NEW n
    PROVE  Grown(img, i, n, s) \in FileSystem
<1> DEFINE new == Grown(img, i, n, s)
<1>1. /\ img.directory \in [Entries -> FileEntry]
      /\ img.files \in [Names -> Seq(Bytes) \cup {NoFile}]
  BY DEF FileSystem
<1>2. /\ new = [img EXCEPT !.directory = new.directory, !.files = new.files]
      /\ new.directory = [img.directory EXCEPT ![i] =
                            [img.directory[i] EXCEPT !.size = @ + Len(s)]]
      /\ new.files = [m \in Names |-> IF m = n /\ img.files[m] # NoFile
                                      THEN img.files[m] \o s ELSE img.files[m]]
  BY DEF Grown, FileSystem
<1> HIDE DEF new
<1>3. new.directory \in [Entries -> FileEntry]
  <2>1. img.directory[i].size + Len(s) \in Nat
    BY <1>1 DEF FileEntry
  <2>2. [img.directory[i] EXCEPT !.size = @ + Len(s)] \in FileEntry
    BY <1>1, <2>1 DEF FileEntry
  <2> QED
    BY <1>1, <1>2, <2>2
<1>4. \A m \in Names : img.files[m] # NoFile =>
                            img.files[m] \in Seq(Bytes)
  BY <1>1
<1>5. \A m \in Names : img.files[m] # NoFile =>
                            img.files[m] \o s \in Seq(Bytes)
  BY <1>4
<1>6. new.files \in [Names -> Seq(Bytes) \cup {NoFile}]
  BY <1>1, <1>2, <1>5
<1>7. new \in FileSystem
  BY <1>2, <1>3, <1>6 DEF FileSystem
<1> QED
  BY <1>7 DEF new

(* delete_file clears the name of an entry. *)
LEMMA RemovedType ==
    ASSUME NEW img \in FileSystem, NEW i \in Entries,
           NEW n
    PROVE  Removed(img, i, n) \in FileSystem
<1> DEFINE new == Removed(img, i, n)
<1>1. /\ img.directory \in [Entries -> FileEntry]
      /\ img.files \in [Names -> Seq(Bytes) \cup {NoFile}]
  BY DEF FileSystem
<1>2. /\ new = [img EXCEPT !.directory = new.directory, !.files = new.files]
      /\ new.directory = [img.directory EXCEPT ![i] =
                            [img.directory[i] EXCEPT !.filename = NoName]]
      /\ new.files = [m \in Names |-> IF m = n THEN NoFile ELSE img.files[m]]
  BY DEF Removed, FileSystem
<1> HIDE DEF new
<1>3. /\ new.directory \in [Entries -> FileEntry]
      /\ new.files \in [Names -> Seq(Bytes) \cup {NoFile}]
  BY <1>1, <1>2 DEF FileEntry
<1>4. new \in FileSystem
  BY <1>2, <1>3 DEF FileSystem
<1> QED
  BY <1>4 DEF new

(* A save, however far it has come, leaves an image in the file. *)
LEMMA OverlaidType ==
    ASSUME NEW old \in FileSystem, NEW new \in FileSystem,
           NEW from, NEW to
    PROVE  Overlaid(old, new, from, to) \in FileSystem
  BY DEF Overlaid, FileSystem

-----------------------------------------------------------------------------
(* Type correctness. *)

(* What a handler at c knows of its locals l and its image m. *)
LocOK(c, m, l) ==
    /\ c \in {"walk", "append"} => l.block \in Blocks /\ l.n <= Len(l.data)
    /\ c \in {"walk", "append", "read", "printed", "free"} =>
          m.directory[l.i].filename = l.arg

TypeInv ==
    /\ TypeOK
    /\ \A p \in Procs : LocOK(pc[p], mem[p], loc[p])

LEMMA NoLocalsType == NoLocals \in Locals
  BY SizesAssumption DEF NoLocals, Locals, Entries, Blocks

(* A step of p that leaves p and what is shared well typed does so for all. *)
LEMMA TypeFrame ==
    ASSUME TypeInv, NEW p \in Procs,
           NEW c \in PCs, pc' = [pc EXCEPT ![p] = c],
           NEW m \in FileSystem, mem' = [mem EXCEPT ![p] = m],
           NEW l \in Locals, loc' = [loc EXCEPT ![p] = l], LocOK(c, m, l),
           disk' \in FileSystem,
           deviations' \subseteq Events
    PROVE  TypeInv'
<1>1. /\ pc \in [Procs -> PCs] /\ mem \in [Procs -> FileSystem]
      /\ loc \in [Procs -> Locals]
  BY DEF TypeInv, TypeOK
<1>2. TypeOK'
  BY <1>1 DEF TypeOK
<1>3. ASSUME NEW q \in Procs
      PROVE  LocOK(pc'[q], mem'[q], loc'[q])
  <2>1. CASE q = p
    BY <1>1, <2>1
  <2>2. CASE q # p
    <3>1. mem'[q] = mem[q] /\ pc'[q] = pc[q] /\ loc'[q] = loc[q]
      BY <1>1, <2>2
    <3> QED
      BY <3>1 DEF TypeInv
  <2> QED
    BY <2>1, <2>2
<1> QED
  BY <1>2, <1>3 DEF TypeInv

(* An unchanged function is the function updated with its own value. *)
LEMMA Same ==
    ASSUME NEW S, NEW T, NEW f \in [S -> T], NEW p \in S
    PROVE  f = [f EXCEPT ![p] = f[p]]
  OBVIOUS

LEMMA TypeStep == TypeInv /\ [Next]_vars => TypeInv'
<1> SUFFICES ASSUME TypeInv, [Next]_vars
             PROVE  TypeInv'
  OBVIOUS
<1> USE DEF PCs, Events
<1>1. /\ disk \in FileSystem
      /\ mem \in [Procs -> FileSystem]
      /\ pc \in [Procs -> PCs] /\ loc \in [Procs -> Locals]
      /\ deviations \subseteq Events
  BY DEF TypeInv, TypeOK
<1>2. CASE UNCHANGED vars
  BY <1>2 DEF vars, TypeInv, TypeOK
<1>3. ASSUME NEW p \in Procs, Load(p) \/ execute_cmd(p) \/ Step(p) \/ Crash(p)
      PROVE  TypeInv'
  <2> DEFINE m == mem[p]
             l == loc[p]
  <2>1. /\ m \in FileSystem /\ l \in Locals
        /\ pc[p] \in PCs /\ LocOK(pc[p], m, l)
        /\ mem = [mem EXCEPT ![p] = m]
        /\ loc = [loc EXCEPT ![p] = l]
        /\ pc = [pc EXCEPT ![p] = pc[p]]
    BY <1>1, Same DEF TypeInv
  <2>2. m.directory \in [Entries -> FileEntry]
    BY <2>1 DEF FileSystem
  <2>3. ASSUME NEW n \in Args, Matches(m, n) # {}
        PROVE  LET i == Min(Matches(m, n))
               IN  /\ i \in Entries /\ n \in Names \cup {NoName}
                   /\ m.directory[i] \in FileEntry
                   /\ m.directory[i].filename = n
    BY <2>2, <2>3, FirstMatch, NamesAssumption
  <2> HIDE DEF m, l
  <2>4. CASE Load(p)
    <3>1. LocOK("exec", disk, l)
      BY DEF LocOK
    <3> QED
      BY <1>1, <2>1, <2>4, <3>1, TypeFrame DEF Load, Goto, Note
  <2>5. CASE Other(p)
    <3>1. LocOK("save", m, l)
      BY DEF LocOK
    <3> QED
      BY <1>1, <2>1, <2>5, <3>1, TypeFrame DEF Other, Goto
  <2>6. ASSUME NEW n \in Args, create_file(p, n)
        PROVE  TypeInv'
    <3>1. LocOK("save", Created(m, n), [l EXCEPT !.arg = n])
      BY DEF LocOK
    <3>2. [l EXCEPT !.arg = n] \in Locals
      BY <2>1, NamesAssumption DEF Locals
    <3>3. loc' = [loc EXCEPT ![p] = [l EXCEPT !.arg = n]]
      BY <1>1, <2>6 DEF create_file, l
    <3>4. mem' = [mem EXCEPT ![p] = Created(m, n)]
      BY <2>6 DEF create_file, m
    <3> QED
      BY <1>1, <2>1, <2>6, <3>1, <3>2, <3>3, <3>4, CreatedType, TypeFrame
         DEF create_file, Goto
  <2>7. ASSUME NEW n \in Args, NEW d \in Data, WriteOpen(p, n, d)
        PROVE  TypeInv'
    <3> DEFINE found == Matches(m, n)
               i     == Min(found)
               f     == m.directory[i]
               new   == [NoLocals EXCEPT !.arg = n, !.i = i,
                            !.block = f.start_block, !.remain = f.size,
                            !.data = d]
    <3>1. CASE found = {}
      <4>1. LocOK("save", m, l)
        BY DEF LocOK
      <4> QED
        BY <1>1, <2>1, <2>7, <3>1, <4>1, TypeFrame DEF WriteOpen, Goto, m
    <3>2. CASE found # {}
      <4>1. /\ i \in Entries /\ n \in Names \cup {NoName}
            /\ f \in FileEntry /\ f.filename = n
        BY <2>3, <3>2
      <4>2. d \in Seq(Bytes) /\ 0 <= Len(d)
        BY DataAssumption
      <4>3. f.start_block \in Blocks /\ f.size \in Nat
        BY <4>1 DEF FileEntry
      <4> HIDE DEF i, f
      <4>4. new \in Locals
        BY <4>1, <4>2, <4>3, NoLocalsType DEF Locals
      <4>5. new.block = f.start_block /\ new.n = 0 /\ new.data = d /\ new.i = i
            /\ new.arg = n
        BY DEF NoLocals
      <4>6. LocOK("walk", m, new)
        BY <4>1, <4>2, <4>3, <4>5 DEF LocOK, f
      <4>7. /\ loc' = [loc EXCEPT ![p] = new] /\ mem' = mem
            /\ pc' = [pc EXCEPT ![p] = "walk"]
            /\ disk' = disk /\ deviations' \subseteq Events
        BY <1>1, <2>7, <3>2 DEF WriteOpen, Goto, Note, m, i, f
      <4> HIDE DEF new
      <4> QED
        BY <1>1, <2>1, <4>4, <4>6, <4>7, TypeFrame
    <3> QED
      BY <3>1, <3>2
  <2>8. ASSUME NEW n \in Args, ReadOpen(p, n)
        PROVE  TypeInv'
    <3> DEFINE found == Matches(m, n)
               i     == Min(found)
               new   == [NoLocals EXCEPT !.arg = n, !.i = i,
                            !.block = m.directory[i].start_block]
    <3>1. CASE found = {}
      <4>1. LocOK("save", m, l)
        BY DEF LocOK
      <4> QED
        BY <1>1, <2>1, <2>8, <3>1, <4>1, TypeFrame DEF ReadOpen, Goto, m
    <3>2. CASE found # {}
      <4>1. /\ i \in Entries /\ n \in Names \cup {NoName}
            /\ m.directory[i].start_block \in Blocks
            /\ m.directory[i].filename = n
        BY <2>3, <3>2 DEF FileEntry
      <4> HIDE DEF i
      <4>2. new \in Locals /\ new.i = i /\ new.arg = n
        BY <4>1, NoLocalsType DEF Locals
      <4>3. LocOK("read", m, new)
        BY <4>1, <4>2 DEF LocOK
      <4>4. /\ loc' = [loc EXCEPT ![p] = new] /\ mem' = mem
            /\ pc' = [pc EXCEPT ![p] = "read"]
            /\ disk' = disk /\ deviations' = deviations
        BY <2>8, <3>2 DEF ReadOpen, Goto, m, i
      <4> HIDE DEF new
      <4> QED
        BY <1>1, <2>1, <4>2, <4>3, <4>4, TypeFrame
    <3> QED
      BY <3>1, <3>2
  <2>9. ASSUME NEW n \in Args, DeleteOpen(p, n)
        PROVE  TypeInv'
    <3> DEFINE found == Matches(m, n)
               i     == Min(found)
               new   == [NoLocals EXCEPT !.arg = n, !.i = i,
                            !.block = m.directory[i].start_block]
    <3>1. CASE found = {}
      <4>1. LocOK("save", m, l)
        BY DEF LocOK
      <4> QED
        BY <1>1, <2>1, <2>9, <3>1, <4>1, TypeFrame DEF DeleteOpen, Goto, m
    <3>2. CASE found # {}
      <4>1. /\ i \in Entries /\ n \in Names \cup {NoName}
            /\ m.directory[i].start_block \in Blocks
            /\ m.directory[i].filename = n
        BY <2>3, <3>2 DEF FileEntry
      <4> HIDE DEF i
      <4>2. new \in Locals /\ new.i = i /\ new.arg = n
        BY <4>1, NoLocalsType DEF Locals
      <4>3. LocOK("free", m, new)
        BY <4>1, <4>2 DEF LocOK
      <4>4. /\ loc' = [loc EXCEPT ![p] = new] /\ mem' = mem
            /\ pc' = [pc EXCEPT ![p] = "free"]
            /\ disk' = disk /\ deviations' \subseteq Events
        BY <1>1, <2>9, <3>2 DEF DeleteOpen, Goto, Note, m, i
      <4> HIDE DEF new
      <4> QED
        BY <1>1, <2>1, <4>2, <4>3, <4>4, TypeFrame
    <3> QED
      BY <3>1, <3>2
  <2>10. CASE WriteWalk(p)
    <3> DEFINE new == [l EXCEPT !.remain = l.remain - BLOCK_SIZE,
                                !.block = m.fat_table[l.block]]
    <3>1. /\ l.block \in Blocks /\ l.remain >= BLOCK_SIZE /\ pc[p] = "walk"
          /\ m.fat_table[l.block] # EOF /\ l.remain \in Nat
          /\ m.fat_table \in [Blocks -> Blocks \cup {EOF}]
      BY <2>1, <2>10 DEF WriteWalk, WalkOn, LocOK, Locals, FileSystem, m, l
    <3>2. m.fat_table[l.block] \in Blocks /\ l.remain - BLOCK_SIZE \in Nat
      BY <3>1, SizesAssumption
    <3>3. new \in Locals
      BY <2>1, <3>2 DEF Locals
    <3>4. LocOK("walk", m, new)
      BY <2>1, <3>1, <3>2 DEF LocOK, Locals
    <3>5. loc' = [loc EXCEPT ![p] = new]
      BY <1>1, <2>10 DEF WriteWalk, m, l
    <3> HIDE DEF new
    <3> QED
      BY <1>1, <2>1, <2>10, <3>1, <3>3, <3>4, <3>5, TypeFrame DEF WriteWalk
  <2>11. CASE WriteSeek(p)
    <3> DEFINE off == m.directory[l.i].size % BLOCK_SIZE
               new == [l EXCEPT !.off = off]
    <3>1. m.directory[l.i].size \in Nat
      BY <2>1, <2>2 DEF Locals, FileEntry
    <3>2. off \in 0 .. BLOCK_SIZE
      BY <3>1, SizesAssumption
    <3>3. loc' = [loc EXCEPT ![p] = new]
      BY <1>1, <2>11 DEF WriteSeek, m, l
    <3> HIDE DEF off
    <3>4. new \in Locals
      BY <2>1, <3>2 DEF Locals
    <3>5. LocOK("append", m, new)
      BY <2>1, <2>11 DEF LocOK, Locals, WriteSeek
    <3> HIDE DEF new
    <3> QED
      BY <1>1, <2>1, <2>11, <3>3, <3>4, <3>5, TypeFrame
         DEF WriteSeek, Goto, Note
  <2>12. CASE WriteChunk(p)
    <3> DEFINE full == l.off = BLOCK_SIZE
               nb   == find_free_block(m)
               img  == IF full THEN Linked(m, l.block, nb) ELSE m
               b    == IF full THEN nb ELSE l.block
               off  == IF full THEN 0 ELSE l.off
               k    == Min({Pending(p), BLOCK_SIZE - off})
               cell == Copied(img.data_area[b], off, l.data, l.n, k)
               new  == [l EXCEPT !.block = b, !.off = off + k, !.n = l.n + k]
    <3>1. /\ pc[p] = "append" /\ Pending(p) > 0 /\ ~ NoSpace(p)
          /\ mem' = [mem EXCEPT ![p] = Stored(img, b, cell)]
          /\ loc' = [loc EXCEPT ![p] = new]
          /\ deviations' \subseteq Events
          /\ UNCHANGED <<disk, pc>>
      BY <1>1, <2>12 DEF WriteChunk, Note, m, l
    <3>2. /\ l.block \in Blocks /\ l.n \in Nat /\ l.n <= Len(l.data)
          /\ l.off \in 0 .. BLOCK_SIZE /\ l.data \in Seq(Bytes)
          /\ m.directory[l.i].filename = l.arg
      BY <2>1, <3>1 DEF LocOK, Locals
    <3>3. full => nb \in Blocks
      BY <3>1, FirstFree DEF NoSpace, FreeBlocks, m, l
    <3>4. b \in Blocks /\ off \in 0 .. BLOCK_SIZE - 1
      BY <3>2, <3>3, SizesAssumption
    <3>5. img \in FileSystem /\ img.directory = m.directory
      BY <2>1, <3>2, <3>3, LinkedType DEF Linked, FileSystem
    <3>6. Pending(p) \in Nat /\ Pending(p) = Len(l.data) - l.n
      BY <3>1, <3>2 DEF Pending, l
    <3>7. BLOCK_SIZE - off \in Nat
      BY <3>4, SizesAssumption
    <3> HIDE DEF full, nb, img, b, off
    <3>8. k \in Nat /\ k <= Pending(p) /\ k <= BLOCK_SIZE - off
      BY <3>6, <3>7, MinOfTwo
    <3> HIDE DEF k
    <3>9. l.n + k \in Nat /\ l.n + k <= Len(l.data) /\ off + k \in 0 .. BLOCK_SIZE
      <4>1. Len(l.data) \in Nat
        BY <3>2
      <4>2. l.n + k \in Nat /\ l.n + k <= Len(l.data)
        BY <3>2, <3>6, <3>8, <4>1
      <4>3. off + k \in 0 .. BLOCK_SIZE
        BY <3>4, <3>8, SizesAssumption
      <4> QED
        BY <4>2, <4>3
    <3>10. cell \in [Offsets -> Bytes \cup {NUL}]
      <4>1. img.data_area[b] \in [Offsets -> Bytes \cup {NUL}]
        BY <3>4, <3>5 DEF FileSystem
      <4>2. off \in 0 .. BLOCK_SIZE
        BY <3>4, SizesAssumption
      <4> QED
        BY <4>1, <4>2, <3>2, <3>8, <3>9, CopiedType
    <3> HIDE DEF cell
    <3>11. Stored(img, b, cell) \in FileSystem
      BY <3>4, <3>5, <3>10, StoredType
    <3>12. new \in Locals
      BY <2>1, <3>4, <3>9 DEF Locals
    <3>13. Stored(img, b, cell).directory = m.directory
      BY <3>5 DEF Stored, FileSystem
    <3>14. LocOK("append", Stored(img, b, cell), new)
      BY <2>1, <3>2, <3>4, <3>9, <3>13 DEF LocOK, Locals
    <3> HIDE DEF new
    <3> QED
      BY <1>1, <2>1, <3>1, <3>11, <3>12, <3>14, TypeFrame
  <2>13. CASE WriteDone(p)
    <3> DEFINE s   == SubSeq(l.data, 1, l.n)
               new == Grown(m, l.i, l.arg, s)
    <3>1. /\ pc[p] = "append"
          /\ mem' = [mem EXCEPT ![p] = new]
          /\ pc' = [pc EXCEPT ![p] = "save"]
          /\ UNCHANGED <<disk, loc, deviations>>
      BY <1>1, <2>13 DEF WriteDone, Goto, m, l
    <3>2. /\ l.n \in Nat /\ l.n <= Len(l.data) /\ l.data \in Seq(Bytes)
          /\ l.i \in Entries /\ l.arg \in Names \cup {NoName}
          /\ m.directory[l.i].filename = l.arg
      BY <2>1, <3>1 DEF LocOK, Locals
    <3>3. s \in Seq(Bytes)
      BY <3>2
    <3> HIDE DEF s
    <3>4. new \in FileSystem
      BY <2>1, <3>2, <3>3, GrownType
    <3> HIDE DEF new
    <3>5. LocOK("save", new, l)
      BY DEF LocOK
    <3> QED
      BY <1>1, <2>1, <3>1, <3>4, <3>5, TypeFrame
  <2>14. CASE ReadBlock(p)
    <3> DEFINE size == m.directory[l.i].size
               k    == Min({size - l.n, BLOCK_SIZE})
               out  == Printed(m.data_area[l.block], k)
               new  == [l EXCEPT !.out = @ \o out, !.n = @ + k,
                                 !.block = m.fat_table[l.block]]
    <3>1. /\ pc[p] = "read" /\ l.block # EOF /\ l.n < size
          /\ loc' = [loc EXCEPT ![p] = new]
          /\ UNCHANGED <<disk, mem, pc, deviations>>
      BY <1>1, <2>14 DEF ReadBlock, ReadOn, m, l
    <3>2. /\ size \in Nat /\ l.n \in Nat /\ l.block \in Blocks
          /\ l.out \in Seq(Bytes)
          /\ m.directory[l.i].filename = l.arg
      BY <2>1, <2>2, <3>1 DEF LocOK, Locals, FileEntry
    <3>3. /\ m.data_area[l.block] \in [Offsets -> Bytes \cup {NUL}]
          /\ m.fat_table[l.block] \in Blocks \cup {EOF}
      BY <2>1, <3>2 DEF FileSystem
    <3>4. size - l.n \in Nat /\ BLOCK_SIZE \in Nat
      BY <3>1, <3>2, SizesAssumption
    <3> HIDE DEF size
    <3>5. k \in 0 .. BLOCK_SIZE
      BY <3>4, MinOfTwo
    <3> HIDE DEF k
    <3>6. out \in Seq(Bytes)
      BY <3>3, <3>5, PrintedType
    <3> HIDE DEF out
    <3>7. l.out \o out \in Seq(Bytes) /\ l.n + k \in Nat
      BY <3>2, <3>5, <3>6, SizesAssumption
    <3>8. new \in Locals
      BY <2>1, <3>3, <3>7 DEF Locals
    <3>9. LocOK("read", m, new)
      BY <2>1, <3>2 DEF LocOK, Locals
    <3> HIDE DEF new
    <3> QED
      BY <1>1, <2>1, <3>1, <3>8, <3>9, TypeFrame
  <2>15. CASE ReadDone(p)
    <3>1. LocOK("printed", m, l)
      BY <2>1, <2>15 DEF LocOK, ReadDone
    <3> QED
      BY <1>1, <2>1, <2>15, <3>1, TypeFrame DEF ReadDone, Goto
  <2>16. CASE DeleteBlock(p)
    <3> DEFINE new == [l EXCEPT !.block = m.fat_table[l.block]]
    <3>1. /\ pc[p] = "free" /\ l.block # EOF
          /\ loc' = [loc EXCEPT ![p] = new]
          /\ mem' = [mem EXCEPT ![p] = Freed(m, l.block)]
          /\ UNCHANGED <<disk, pc, deviations>>
      BY <1>1, <2>16 DEF DeleteBlock, m, l
    <3>2. l.block \in Blocks /\ m.directory[l.i].filename = l.arg
      BY <2>1, <3>1 DEF LocOK, Locals
    <3>3. m.fat_table[l.block] \in Blocks \cup {EOF}
      BY <2>1, <3>2 DEF FileSystem
    <3>4. new \in Locals
      BY <2>1, <3>3 DEF Locals
    <3>5. Freed(m, l.block).directory = m.directory
      BY <2>1 DEF Freed, FileSystem
    <3>6. LocOK("free", Freed(m, l.block), new)
      BY <2>1, <3>2, <3>5 DEF LocOK, Locals
    <3> HIDE DEF new
    <3> QED
      BY <1>1, <2>1, <3>1, <3>2, <3>4, <3>6, FreedType, TypeFrame
  <2>17. CASE DeleteDone(p)
    <3> DEFINE new == Removed(m, l.i, l.arg)
    <3>1. /\ pc[p] = "free"
          /\ mem' = [mem EXCEPT ![p] = new]
          /\ pc' = [pc EXCEPT ![p] = "save"]
          /\ UNCHANGED <<disk, loc, deviations>>
      BY <1>1, <2>17 DEF DeleteDone, Goto, m, l
    <3>2. /\ l.i \in Entries /\ l.arg \in Names \cup {NoName}
          /\ m.directory[l.i].filename = l.arg
      BY <2>1, <3>1 DEF LocOK, Locals
    <3>3. new \in FileSystem
      BY <2>1, <3>2, RemovedType
    <3> HIDE DEF new
    <3>4. LocOK("save", new, l)
      BY DEF LocOK
    <3> QED
      BY <1>1, <2>1, <3>1, <3>3, <3>4, TypeFrame
  <2>18. CASE SaveOpen(p)
    <3> DEFINE new == [l EXCEPT !.n = 0]
    <3>1. LocOK("flush", m, new)
      BY DEF LocOK
    <3>2. new \in Locals
      BY <2>1 DEF Locals
    <3>3. loc' = [loc EXCEPT ![p] = new]
      BY <1>1, <2>18 DEF SaveOpen, l
    <3> HIDE DEF new
    <3> QED
      BY <1>1, <2>1, <2>18, <3>1, <3>2, <3>3, ZeroImageIsImage, TypeFrame
         DEF SaveOpen, Goto, Note
  <2>19. LocOK("idle", ZeroImage, NoLocals)
    BY DEF LocOK
  <2>20. CASE SaveFails(p)
    BY <1>1, <2>1, <2>19, <2>20, ZeroImageIsImage, NoLocalsType,
       TypeFrame DEF SaveFails, Exit, Goto
  <2>21. CASE SaveLast(p)
    <3>1. disk' \in FileSystem
      BY <1>1, <2>1, <2>21, OverlaidType DEF SaveLast, m
    <3> QED
      BY <1>1, <2>1, <2>19, <2>21, <3>1, ZeroImageIsImage,
         NoLocalsType, TypeFrame DEF SaveLast, Exit, Goto
  <2>23. ASSUME NEW cut \in Cuts, SavePart(p, cut)
         PROVE  TypeInv'
    <3> DEFINE new == [l EXCEPT !.n = cut]
    <3>1. LocOK("flush", m, new)
      BY DEF LocOK
    <3>2. cut \in Nat
      BY CutsAssumption, SizesAssumption DEF Parts
    <3>3. new \in Locals
      BY <2>1, <3>2 DEF Locals
    <3>4. /\ loc' = [loc EXCEPT ![p] = new] /\ pc[p] = "flush"
          /\ UNCHANGED <<mem, pc, deviations>>
      BY <1>1, <2>23 DEF SavePart, l
    <3>5. disk' \in FileSystem
      BY <1>1, <2>1, <2>23, OverlaidType DEF SavePart, m
    <3> HIDE DEF new
    <3> QED
      BY <1>1, <2>1, <3>1, <3>3, <3>4, <3>5, TypeFrame
  <2>22. CASE Crash(p)
    BY <1>1, <2>1, <2>19, <2>22, ZeroImageIsImage, NoLocalsType,
       TypeFrame DEF Crash, Exit, Goto, Note
  <2> QED
    BY <1>3, <2>4, <2>5, <2>6, <2>7, <2>8, <2>9, <2>10, <2>11, <2>12, <2>13,
       <2>14, <2>15, <2>16, <2>17, <2>18, <2>20, <2>21, <2>22, <2>23
       DEF execute_cmd, Step
<1> QED
  BY <1>2, <1>3 DEF Next

LEMMA InitTypeInv == Init => TypeInv
<1>1. LocOK("idle", ZeroImage, NoLocals)
  BY DEF LocOK
<1> QED
  BY <1>1, ZeroImageIsImage, NoLocalsType
     DEF Init, TypeInv, TypeOK, PCs

(* Every image, in memory and on disk, always has the shape of struct      *)
(* FileSystem with block numbers in range, which is why the range checks   *)
(* of write_file and read_file never fire; no local leaves its range.      *)
THEOREM TypeCorrect == Spec => []TypeOK
<1>1. TypeInv => TypeOK
  BY DEF TypeInv
<1> QED
  BY <1>1, InitTypeInv, TypeStep, PTL DEF Spec

=============================================================================
