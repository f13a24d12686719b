-------------------------- MODULE FatFSChainsProof --------------------------
(***************************************************************************)
(* Proof that the FAT of FatFS claims every block in use exactly once.     *)
(***************************************************************************)
EXTENDS FatFSProof

USE DEF Free

-----------------------------------------------------------------------------
(***************************************************************************)
(* The inductive invariant behind BlocksClaimedOnce.                       *)
(*                                                                         *)
(* BlocksClaimedOnce says nothing of how long a chain is, but write_file   *)
(* relies on it: it links a new block behind the block its walk stopped    *)
(* at, and would cut off the rest of a chain longer than the size says.    *)
(* The invariant therefore gives every block in use a place: the entry     *)
(* own[b] of the file it belongs to and the number bo[b] of bytes of the   *)
(* file that come before it.                                               *)
(***************************************************************************)
Placed(fat, H, head, size, own, bo) ==
    /\ \A i \in H : /\ head[i] \in Blocks /\ fat[head[i]] # Free
                    /\ own[head[i]] = i /\ bo[head[i]] = 0
    /\ \A b \in Blocks : fat[b] # Free => own[b] \in H
    /\ \A b, c \in Blocks :
          /\ fat[b] # Free /\ fat[c] # Free
          /\ own[b] = own[c] /\ bo[b] = bo[c]
          => b = c
    /\ \A b \in Blocks : fat[b] # Free /\ fat[b] # EOF =>
          /\ fat[fat[b]] # Free
          /\ own[fat[b]] = own[b]
          /\ bo[fat[b]] = bo[b] + BLOCK_SIZE
          /\ bo[b] + BLOCK_SIZE <= size[own[b]]
    /\ \A b \in Blocks : fat[b] # Free /\ bo[b] > 0 =>
          \E c \in Blocks : fat[c] # Free /\ fat[c] = b

Fats   == [Blocks -> Blocks \cup {EOF}]
Owners == [Blocks -> Entries]
Places == [Blocks -> Nat]

(* create_file gives a free block to a new entry. *)
LEMMA PlacedCreate ==
    ASSUME NEW fat \in Fats, NEW H \in SUBSET Entries,
           NEW head \in [Entries -> Blocks], NEW size \in [Entries -> Nat],
           NEW own \in Owners, NEW bo \in Places,
           Placed(fat, H, head, size, own, bo),
           NEW b \in Blocks, fat[b] = Free, NEW i \in Entries, i \notin H
    PROVE  Placed([fat EXCEPT ![b] = EOF], H \cup {i},
                  [head EXCEPT ![i] = b], [size EXCEPT ![i] = 0],
                  [own EXCEPT ![b] = i], [bo EXCEPT ![b] = 0])
<1> DEFINE f == [fat EXCEPT ![b] = EOF]
           h == [head EXCEPT ![i] = b]
           z == [size EXCEPT ![i] = 0]
           o == [own EXCEPT ![b] = i]
           w == [bo EXCEPT ![b] = 0]
<1>1. EOF # Free /\ EOF \notin Blocks
  BY SizesAssumption DEF Blocks
<1>2. /\ \A c \in Blocks : f[c] = IF c = b THEN EOF ELSE fat[c]
      /\ \A j \in Entries : h[j] = IF j = i THEN b ELSE head[j]
      /\ \A j \in Entries : z[j] = IF j = i THEN 0 ELSE size[j]
      /\ \A c \in Blocks : o[c] = IF c = b THEN i ELSE own[c]
      /\ \A c \in Blocks : w[c] = IF c = b THEN 0 ELSE bo[c]
  BY DEF Fats, Owners, Places
<1>3. \A c \in Blocks : fat[c] \in Blocks \cup {EOF} /\ own[c] \in Entries
                        /\ bo[c] \in Nat
  BY DEF Fats, Owners, Places
<1> HIDE DEF f, h, z, o, w
<1>4. \A j \in H \cup {i} : /\ h[j] \in Blocks /\ f[h[j]] # Free
                            /\ o[h[j]] = j /\ w[h[j]] = 0
  BY <1>1, <1>2 DEF Placed
<1>5. \A c \in Blocks : f[c] # Free => o[c] \in H \cup {i}
  BY <1>1, <1>2 DEF Placed
<1>6. \A c, d \in Blocks : /\ f[c] # Free /\ f[d] # Free
                           /\ o[c] = o[d] /\ w[c] = w[d]
                           => c = d
  BY <1>1, <1>2 DEF Placed
<1>7. \A c \in Blocks : f[c] # Free /\ f[c] # EOF =>
          /\ f[f[c]] # Free /\ o[f[c]] = o[c]
          /\ w[f[c]] = w[c] + BLOCK_SIZE
          /\ w[c] + BLOCK_SIZE <= z[o[c]]
  BY <1>1, <1>2, <1>3 DEF Placed
<1>8. \A c \in Blocks : f[c] # Free /\ w[c] > 0 =>
          \E d \in Blocks : f[d] # Free /\ f[d] = c
  BY <1>1, <1>2 DEF Placed
<1>9. Placed(f, H \cup {i}, h, z, o, w)
  BY <1>4, <1>5, <1>6, <1>7, <1>8 DEF Placed
<1> QED
  BY <1>9 DEF f, h, z, o, w

(* write_file links a free block other than block 0 behind the last block. *)
LEMMA PlacedLink ==
    ASSUME NEW fat \in Fats, NEW H \in SUBSET Entries,
           NEW head, NEW size \in [Entries -> Nat],
           NEW own \in Owners, NEW bo \in Places,
           Placed(fat, H, head, size, own, bo),
           NEW b \in Blocks, fat[b] = EOF, bo[b] + BLOCK_SIZE <= size[own[b]],
           NEW nb \in Blocks, fat[nb] = Free, nb # Free
    PROVE  Placed([fat EXCEPT ![b] = nb, ![nb] = EOF], H, head, size,
                  [own EXCEPT ![nb] = own[b]],
                  [bo EXCEPT ![nb] = bo[b] + BLOCK_SIZE])
<1> DEFINE f == [fat EXCEPT ![b] = nb, ![nb] = EOF]
           o == [own EXCEPT ![nb] = own[b]]
           w == [bo EXCEPT ![nb] = bo[b] + BLOCK_SIZE]
<1>1. EOF # Free /\ EOF \notin Blocks /\ b # nb
  BY SizesAssumption DEF Blocks
<1>2. /\ \A c \in Blocks : f[c] = IF c = nb THEN EOF
                                  ELSE IF c = b THEN nb ELSE fat[c]
      /\ \A c \in Blocks : o[c] = IF c = nb THEN own[b] ELSE own[c]
      /\ \A c \in Blocks : w[c] = IF c = nb THEN bo[b] + BLOCK_SIZE ELSE bo[c]
  BY <1>1 DEF Fats, Owners, Places
<1>3. \A c \in Blocks : fat[c] \in Blocks \cup {EOF} /\ own[c] \in Entries
                        /\ bo[c] \in Nat
  BY DEF Fats, Owners, Places
<1> HIDE DEF f, o, w
<1>4. \A c \in Blocks : fat[c] # Free /\ own[c] = own[b] =>
                        bo[c] # bo[b] + BLOCK_SIZE
  <2> SUFFICES ASSUME NEW c \in Blocks, fat[c] # Free, own[c] = own[b],
                      bo[c] = bo[b] + BLOCK_SIZE
               PROVE  FALSE
    OBVIOUS
  <2>1. bo[c] > 0
    BY <1>3, SizesAssumption
  <2>2. PICK d \in Blocks : fat[d] # Free /\ fat[d] = c
    BY <2>1 DEF Placed
  <2>3. own[d] = own[c] /\ bo[c] = bo[d] + BLOCK_SIZE
    BY <1>1, <2>2 DEF Placed
  <2>4. bo[d] = bo[b]
    BY <1>3, <2>3, SizesAssumption
  <2>5. d = b
    BY <1>1, <2>2, <2>3, <2>4 DEF Placed
  <2> QED
    BY <1>1, <2>2, <2>5
<1>5. \A j \in H : /\ head[j] \in Blocks /\ f[head[j]] # Free
                   /\ o[head[j]] = j /\ w[head[j]] = 0
  BY <1>1, <1>2 DEF Placed
<1>6. \A c \in Blocks : f[c] # Free => o[c] \in H
  BY <1>1, <1>2 DEF Placed
<1>7. \A c, d \in Blocks : /\ f[c] # Free /\ f[d] # Free
                           /\ o[c] = o[d] /\ w[c] = w[d]
                           => c = d
  BY <1>1, <1>2, <1>4 DEF Placed
<1>8. \A c \in Blocks : f[c] # Free /\ f[c] # EOF =>
          /\ f[f[c]] # Free /\ o[f[c]] = o[c]
          /\ w[f[c]] = w[c] + BLOCK_SIZE
          /\ w[c] + BLOCK_SIZE <= size[o[c]]
  <2> SUFFICES ASSUME NEW c \in Blocks, f[c] # Free, f[c] # EOF
               PROVE  /\ f[f[c]] # Free /\ o[f[c]] = o[c]
                      /\ w[f[c]] = w[c] + BLOCK_SIZE
                      /\ w[c] + BLOCK_SIZE <= size[o[c]]
    OBVIOUS
  <2>1. CASE c = b
    BY <1>1, <1>2, <2>1
  <2>2. CASE c # b
    <3>1. c # nb /\ f[c] = fat[c] /\ fat[c] \in Blocks
      BY <1>1, <1>2, <1>3, <2>2
    <3>2. /\ fat[fat[c]] # Free /\ own[fat[c]] = own[c]
          /\ bo[fat[c]] = bo[c] + BLOCK_SIZE
          /\ bo[c] + BLOCK_SIZE <= size[own[c]]
      BY <3>1 DEF Placed
    <3>3. fat[c] # nb
      BY <3>2
    <3> QED
      BY <1>1, <1>2, <2>2, <3>1, <3>2, <3>3
  <2> QED
    BY <2>1, <2>2
<1>9. \A c \in Blocks : f[c] # Free /\ w[c] > 0 =>
          \E d \in Blocks : f[d] # Free /\ f[d] = c
  <2> SUFFICES ASSUME NEW c \in Blocks, f[c] # Free, w[c] > 0
               PROVE  \E d \in Blocks : f[d] # Free /\ f[d] = c
    OBVIOUS
  <2>1. CASE c = nb
    BY <1>1, <1>2, <2>1
  <2>2. CASE c # nb
    <3>1. PICK d \in Blocks : fat[d] # Free /\ fat[d] = c
      BY <1>1, <1>2, <2>2 DEF Placed
    <3>2. d # nb /\ d # b
      BY <1>1, <3>1
    <3> QED
      BY <1>2, <3>1, <3>2
  <2> QED
    BY <2>1, <2>2
<1>10. Placed(f, H, head, size, o, w)
  BY <1>5, <1>6, <1>7, <1>8, <1>9 DEF Placed
<1> QED
  BY <1>10 DEF f, o, w

(* A file may grow. *)
LEMMA PlacedGrow ==
    ASSUME NEW fat, NEW H \in SUBSET Entries, NEW head,
           NEW size \in [Entries -> Nat], NEW new \in [Entries -> Nat],
           \A i \in Entries : size[i] <= new[i],
           NEW own \in Owners, NEW bo \in Places,
           Placed(fat, H, head, size, own, bo)
    PROVE  Placed(fat, H, head, new, own, bo)
<1>1. \A b \in Blocks : own[b] \in Entries /\ bo[b] \in Nat
  BY DEF Owners, Places
<1>2. \A b \in Blocks : fat[b] # Free /\ fat[b] # EOF =>
          bo[b] + BLOCK_SIZE <= new[own[b]]
  <2> SUFFICES ASSUME NEW b \in Blocks, fat[b] # Free, fat[b] # EOF
               PROVE  bo[b] + BLOCK_SIZE <= new[own[b]]
    OBVIOUS
  <2>1. bo[b] + BLOCK_SIZE <= size[own[b]] /\ size[own[b]] <= new[own[b]]
    BY <1>1 DEF Placed
  <2> QED
    BY <1>1, <2>1, SizesAssumption
<1> QED
  BY <1>2 DEF Placed

(* delete_file frees the first block of what is left of a chain.  The      *)
(* next block becomes the head; the places of the file move up by a block. *)
LEMMA PlacedFree ==
    ASSUME NEW fat \in Fats, NEW H \in SUBSET Entries,
           NEW head \in [Entries -> Blocks], NEW size \in [Entries -> Nat],
           NEW own \in Owners, NEW bo \in Places,
           Placed(fat, H, head, size, own, bo),
           NEW i \in H,
           NEW f, f = [fat EXCEPT ![head[i]] = Free],
           NEW next, next = fat[head[i]]
    PROVE  \E w \in Places :
              IF next = EOF
              THEN Placed(f, H \ {i}, head, size, own, w)
              ELSE Placed(f, H, [head EXCEPT ![i] = next], size, own, w)
<1> DEFINE b == head[i]
           w == [c \in Blocks |-> IF own[c] = i /\ bo[c] >= BLOCK_SIZE
                                  THEN bo[c] - BLOCK_SIZE ELSE bo[c]]
           h == [head EXCEPT ![i] = next]
           G == IF next = EOF THEN H \ {i} ELSE H
<1>1. EOF # Free /\ EOF \notin Blocks /\ 0 \in Blocks
  BY SizesAssumption DEF Blocks
<1>2. \A c \in Blocks : fat[c] \in Blocks \cup {EOF} /\ own[c] \in Entries
                        /\ bo[c] \in Nat
  BY DEF Fats, Owners, Places
<1>3. /\ b \in Blocks /\ fat[b] # Free /\ own[b] = i /\ bo[b] = 0
      /\ next # Free /\ next \in Blocks \cup {EOF}
  BY <1>2 DEF Placed
<1>4. /\ \A c \in Blocks : f[c] = IF c = b THEN Free ELSE fat[c]
      /\ \A c \in Blocks : w[c] = IF own[c] = i /\ bo[c] >= BLOCK_SIZE
                                  THEN bo[c] - BLOCK_SIZE ELSE bo[c]
      /\ \A j \in Entries : h[j] = IF j = i THEN next ELSE head[j]
  BY <1>3 DEF Fats
<1>5. w \in Places
  BY <1>2, SizesAssumption DEF Places
<1>6. \A c \in Blocks : fat[c] # Free /\ own[c] = i /\ c # b =>
                        bo[c] >= BLOCK_SIZE
  <2> SUFFICES ASSUME NEW c \in Blocks, fat[c] # Free, own[c] = i, c # b
               PROVE  bo[c] >= BLOCK_SIZE
    OBVIOUS
  <2>1. bo[c] > 0
    BY <1>2, <1>3 DEF Placed
  <2>2. PICK d \in Blocks : fat[d] # Free /\ fat[d] = c
    BY <2>1 DEF Placed
  <2>3. bo[c] = bo[d] + BLOCK_SIZE
    BY <1>1, <2>2 DEF Placed
  <2> QED
    BY <1>2, <2>3, SizesAssumption
<1> HIDE DEF w, h
<1>7. \A c \in Blocks : fat[c] # Free /\ fat[c] # EOF =>
          /\ fat[c] \in Blocks /\ fat[c] # b /\ (fat[c] = next <=> c = b)
  <2> SUFFICES ASSUME NEW c \in Blocks, fat[c] # Free, fat[c] # EOF
               PROVE  fat[c] \in Blocks /\ fat[c] # b /\ (fat[c] = next <=> c = b)
    OBVIOUS
  <2>1. /\ fat[c] \in Blocks
        /\ bo[fat[c]] = bo[c] + BLOCK_SIZE /\ own[fat[c]] = own[c]
    BY <1>2 DEF Placed
  <2>2. fat[c] # b
    BY <1>2, <1>3, <2>1, SizesAssumption
  <2>3. ASSUME fat[c] = next
        PROVE  c = b
    <3>1. bo[next] = bo[b] + BLOCK_SIZE /\ own[next] = own[b]
      BY <1>3, <2>3 DEF Placed
    <3>2. bo[c] = bo[b] /\ own[c] = own[b]
      BY <1>2, <1>3, <2>1, <2>3, <3>1, SizesAssumption
    <3> QED
      BY <1>3, <3>2 DEF Placed
  <2> QED
    BY <2>1, <2>2, <2>3
<1>8. \A j \in G : /\ h[j] \in Blocks /\ f[h[j]] # Free
                   /\ own[h[j]] = j /\ w[h[j]] = 0
  <2> SUFFICES ASSUME NEW j \in G
               PROVE  /\ h[j] \in Blocks /\ f[h[j]] # Free
                      /\ own[h[j]] = j /\ w[h[j]] = 0
    OBVIOUS
  <2>1. CASE j = i
    <3>1. next # EOF /\ h[j] = next
      BY <1>4, <2>1
    <3>2. /\ next \in Blocks /\ fat[next] # Free /\ own[next] = i
          /\ bo[next] = BLOCK_SIZE /\ next # b
      BY <1>3, <1>7, <3>1, SizesAssumption DEF Placed
    <3> QED
      BY <1>4, <2>1, <3>1, <3>2, SizesAssumption
  <2>2. CASE j # i
    <3>1. j \in H /\ h[j] = head[j]
      BY <1>4, <2>2
    <3>2. /\ head[j] \in Blocks /\ fat[head[j]] # Free
          /\ own[head[j]] = j /\ bo[head[j]] = 0
      BY <3>1 DEF Placed
    <3> QED
      BY <1>3, <1>4, <2>2, <3>1, <3>2, SizesAssumption
  <2> QED
    BY <2>1, <2>2
<1>9. \A c \in Blocks : f[c] # Free => own[c] \in G
  <2> SUFFICES ASSUME NEW c \in Blocks, f[c] # Free, next = EOF, own[c] = i
               PROVE  FALSE
    BY <1>1, <1>4 DEF Placed
  <2> DEFINE Rest == {d \in Blocks : fat[d] # Free /\ own[d] = i /\ d # b}
             S    == {bo[d] : d \in Rest}
  <2>1. c \in Rest /\ S \subseteq Nat /\ S # {}
    BY <1>2, <1>4
  <2>2. Min(S) \in S /\ \A y \in S : Min(S) <= y
    BY <2>1, MinNat
  <2>3. PICK d \in Rest : \A e \in Rest : bo[d] <= bo[e]
    BY <2>2
  <2>4. bo[d] > 0
    BY <1>2, <1>6, <2>3, SizesAssumption
  <2>5. PICK e \in Blocks : fat[e] # Free /\ fat[e] = d
    BY <2>4 DEF Placed
  <2>6. own[e] = own[d] /\ bo[d] = bo[e] + BLOCK_SIZE /\ e # b
    <3>1. fat[e] # EOF /\ fat[b] = EOF
      BY <1>1, <2>3, <2>5
    <3> QED
      BY <2>5, <3>1 DEF Placed
  <2>7. e \in Rest
    BY <2>3, <2>5, <2>6
  <2> QED
    BY <1>2, <2>3, <2>6, <2>7, SizesAssumption
<1>10. \A c, d \in Blocks : /\ f[c] # Free /\ f[d] # Free
                            /\ own[c] = own[d] /\ w[c] = w[d]
                            => c = d
  <2> SUFFICES ASSUME NEW c \in Blocks, NEW d \in Blocks,
                      f[c] # Free, f[d] # Free, own[c] = own[d], w[c] = w[d]
               PROVE  c = d
    OBVIOUS
  <2>1. c # b /\ d # b /\ fat[c] # Free /\ fat[d] # Free
    BY <1>4
  <2>2. bo[c] = bo[d]
    BY <1>2, <1>4, <1>6, <2>1, SizesAssumption
  <2> QED
    BY <2>1, <2>2 DEF Placed
<1>11. \A c \in Blocks : f[c] # Free /\ f[c] # EOF =>
          /\ f[f[c]] # Free /\ own[f[c]] = own[c]
          /\ w[f[c]] = w[c] + BLOCK_SIZE
          /\ w[c] + BLOCK_SIZE <= size[own[c]]
  <2> SUFFICES ASSUME NEW c \in Blocks, f[c] # Free, f[c] # EOF
               PROVE  /\ f[f[c]] # Free /\ own[f[c]] = own[c]
                      /\ w[f[c]] = w[c] + BLOCK_SIZE
                      /\ w[c] + BLOCK_SIZE <= size[own[c]]
    OBVIOUS
  <2>1. c # b /\ f[c] = fat[c] /\ fat[c] # Free /\ fat[c] # EOF
    BY <1>4
  <2>2. /\ fat[c] \in Blocks /\ fat[c] # b /\ fat[fat[c]] # Free
        /\ own[fat[c]] = own[c]
        /\ bo[fat[c]] = bo[c] + BLOCK_SIZE
        /\ bo[c] + BLOCK_SIZE <= size[own[c]]
    BY <1>7, <2>1 DEF Placed
  <2>3. size[own[c]] \in Nat
    BY <1>2
  <2> QED
    BY <1>2, <1>4, <1>6, <2>1, <2>2, <2>3, SizesAssumption
<1>12. \A c \in Blocks : f[c] # Free /\ w[c] > 0 =>
          \E d \in Blocks : f[d] # Free /\ f[d] = c
  <2> SUFFICES ASSUME NEW c \in Blocks, f[c] # Free, w[c] > 0
               PROVE  \E d \in Blocks : f[d] # Free /\ f[d] = c
    OBVIOUS
  <2>1. c # b /\ fat[c] # Free /\ bo[c] > 0
    BY <1>2, <1>4, SizesAssumption
  <2>2. PICK d \in Blocks : fat[d] # Free /\ fat[d] = c
    BY <2>1 DEF Placed
  <2>3. CASE d = b
    <3>1. c = next /\ bo[c] = BLOCK_SIZE /\ own[c] = i
      BY <1>1, <1>3, <2>2, <2>3, SizesAssumption DEF Placed
    <3>2. w[c] = 0
      BY <1>4, <3>1, SizesAssumption
    <3> QED
      BY <3>2
  <2>4. CASE d # b
    BY <1>4, <2>2, <2>4
  <2> QED
    BY <2>3, <2>4
<1>13. Placed(f, G, h, size, own, w)
  BY <1>8, <1>9, <1>10, <1>11, <1>12 DEF Placed
<1>14. CASE next = EOF
  <2>1. \A j \in G : h[j] = head[j]
    BY <1>4, <1>14
  <2>2. Placed(f, H \ {i}, head, size, own, w)
    BY <1>13, <1>14, <2>1 DEF Placed
  <2> QED
    BY <1>5, <1>14, <2>2
<1>15. CASE next # EOF
  BY <1>5, <1>13, <1>15 DEF h
<1> QED
  BY <1>14, <1>15

-----------------------------------------------------------------------------
(* The invariant, for an image at rest and in the middle of each handler. *)
Heads(m) == [i \in Entries |-> m.directory[i].start_block]
Sizes(m) == [i \in Entries |-> m.directory[i].size]

Resting(m) ==
    \E own \in Owners, bo \in Places :
        Placed(m.fat_table, Live(m), Heads(m), Sizes(m), own, bo)

(* write_file walks: block is remain bytes before the end of the file. *)
Walking(m, l) ==
    /\ l.i \in Live(m)
    /\ l.n = 0
    /\ l.remain % BLOCK_SIZE = Sizes(m)[l.i] % BLOCK_SIZE
    /\ \E own \in Owners, bo \in Places :
          /\ Placed(m.fat_table, Live(m), Heads(m), Sizes(m), own, bo)
          /\ m.fat_table[l.block] # Free
          /\ own[l.block] = l.i
          /\ bo[l.block] + l.remain = Sizes(m)[l.i]

(* write_file copies: block is the last one of the file, which has been    *)
(* written up to off, n bytes of it not counted in its size yet.           *)
Appending(m, l) ==
    /\ l.i \in Live(m)
    /\ \E own \in Owners, bo \in Places :
          /\ Placed(m.fat_table, Live(m), Heads(m),
                    [Sizes(m) EXCEPT ![l.i] = @ + l.n], own, bo)
          /\ m.fat_table[l.block] = EOF
          /\ own[l.block] = l.i
          /\ bo[l.block] + l.off <= Sizes(m)[l.i] + l.n

(* delete_file frees: the rest of the chain starts at block. *)
Freeing(m, l) ==
    /\ l.i \in Live(m)
    /\ \E own \in Owners, bo \in Places :
          IF l.block = EOF
          THEN Placed(m.fat_table, Live(m) \ {l.i}, Heads(m), Sizes(m), own, bo)
          ELSE Placed(m.fat_table, Live(m), [Heads(m) EXCEPT ![l.i] = l.block],
                      Sizes(m), own, bo)

InFlight(c, m, l) ==
    /\ c \notin {"walk", "append", "free"} => Resting(m)
    /\ c = "walk"   => Walking(m, l)
    /\ c = "append" => Appending(m, l)
    /\ c = "free"   => Freeing(m, l)

(* At most one process saves; the file holds the first n parts of its      *)
(* image.  With nobody saving, the file holds an image at rest.            *)
DiskInv ==
    /\ (\A p \in Procs : pc[p] # "flush") => Resting(disk)
    /\ \A p \in Procs : pc[p] = "flush" =>
          /\ disk = Overlaid(ZeroImage, mem[p], 0, loc[p].n)
          /\ loc[p].n < Parts
          /\ \A q \in Procs : pc[q] = "flush" => q = p

ChainInv ==
    Undamaged => /\ DiskInv
                 /\ \A p \in Procs : InFlight(pc[p], mem[p], loc[p])

(* Before the first part is written the file is empty. *)
LEMMA OverlaidStarts ==
    ASSUME NEW new
    PROVE  Overlaid(ZeroImage, new, 0, 0) = ZeroImage
<1>1. \A n \in Int : n \notin 0 .. 0 - 1
  OBVIOUS
<1>2. 0 # Parts
  BY SizesAssumption DEF Parts
<1>3. \A i \in Entries : 1 + i \notin 0 .. 0 - 1
  BY <1>1 DEF Entries
<1>4. \A b \in Blocks : 1 + MAX_FILE_NUM + b \notin 0 .. 0 - 1
  BY <1>1, SizesAssumption DEF Blocks
<1>5. 0 \notin 0 .. 0 - 1
  BY <1>1
<1> DEFINE a == Overlaid(ZeroImage, new, 0, 0)
<1>6. a.fat_table = ZeroImage.fat_table /\ a.files = ZeroImage.files
  BY <1>2, <1>5 DEF Overlaid
<1>7. a.directory = ZeroImage.directory
  BY <1>3 DEF Overlaid, ZeroImage
<1>8. a.data_area = ZeroImage.data_area
  BY <1>4 DEF Overlaid, ZeroImage
<1>9. a = [fat_table |-> a.fat_table, directory |-> a.directory,
           data_area |-> a.data_area, files |-> a.files]
  BY DEF Overlaid
<1>10. ZeroImage = [fat_table |-> ZeroImage.fat_table,
                    directory |-> ZeroImage.directory,
                    data_area |-> ZeroImage.data_area, files |-> ZeroImage.files]
  BY DEF ZeroImage
<1> HIDE DEF a
<1> QED
  BY <1>6, <1>7, <1>8, <1>9, <1>10 DEF a

(* The parts of an image written one after the other make up the image. *)
LEMMA OverlaidJoins ==
    ASSUME NEW new \in FileSystem, NEW n \in Nat, NEW k \in Nat, n < k,
           k < Parts
    PROVE  Overlaid(Overlaid(ZeroImage, new, 0, n), new, n, k) =
              Overlaid(ZeroImage, new, 0, k)
<1> DEFINE a == Overlaid(ZeroImage, new, 0, n)
           c == Overlaid(a, new, n, k)
           d == Overlaid(ZeroImage, new, 0, k)
<1>1. c.fat_table = d.fat_table
  BY DEF Overlaid
<1>2. c.directory = d.directory
  BY DEF Overlaid, Entries
<1>3. c.data_area = d.data_area
  BY SizesAssumption DEF Overlaid, Blocks
<1>4. c.files = d.files
  BY SizesAssumption DEF Overlaid, Parts
<1> QED
  BY <1>1, <1>2, <1>3, <1>4 DEF Overlaid

LEMMA OverlaidCompletes ==
    ASSUME NEW new \in FileSystem, NEW n \in Nat, n < Parts
    PROVE  Overlaid(Overlaid(ZeroImage, new, 0, n), new, n, Parts) = new
<1> DEFINE a == Overlaid(ZeroImage, new, 0, n)
           c == Overlaid(a, new, n, Parts)
<1>1. c.fat_table = new.fat_table
  BY SizesAssumption DEF Overlaid, Parts
<1>2. \A i \in Entries : c.directory[i] = new.directory[i]
  BY SizesAssumption DEF Overlaid, Entries, Parts
<1>3. \A b \in Blocks : c.data_area[b] = new.data_area[b]
  BY SizesAssumption DEF Overlaid, Blocks, Parts
<1>4. c.files = new.files
  BY DEF Overlaid
<1>5. c \in FileSystem
  BY ZeroImageIsImage, OverlaidType
<1> HIDE DEF c
<1>6. c.directory = new.directory /\ c.data_area = new.data_area
  BY <1>2, <1>3, <1>5 DEF FileSystem
<1> QED
  BY <1>1, <1>4, <1>5, <1>6 DEF FileSystem, c

LEMMA HeadsSizes ==
    ASSUME NEW m \in FileSystem
    PROVE  /\ m.fat_table \in Fats /\ m.directory \in [Entries -> FileEntry]
           /\ Live(m) \in SUBSET Entries
           /\ Heads(m) \in [Entries -> Blocks] /\ Sizes(m) \in [Entries -> Nat]
  BY DEF FileSystem, FileEntry, Fats, Live, Heads, Sizes

LEMMA ZeroImageRests == Resting(ZeroImage)
<1> DEFINE own == [b \in Blocks |-> 0]
           bo  == [b \in Blocks |-> 0]
<1>1. own \in Owners /\ bo \in Places
  BY SizesAssumption DEF Owners, Places, Entries
<1>2. Live(ZeroImage) = {} /\ \A b \in Blocks : ZeroImage.fat_table[b] = Free
  BY DEF Live, ZeroImage
<1>3. Placed(ZeroImage.fat_table, Live(ZeroImage), Heads(ZeroImage),
             Sizes(ZeroImage), own, bo)
  BY <1>2 DEF Placed
<1> QED
  BY <1>1, <1>3 DEF Resting

(* A step of p that keeps p and the disk in order does so for all. *)
LEMMA ChainFrameDisk ==
    ASSUME TypeInv, ChainInv, Undamaged, NEW p \in Procs,
           NEW c, pc' = [pc EXCEPT ![p] = c],
           NEW m, mem' = [mem EXCEPT ![p] = m],
           NEW l, loc' = [loc EXCEPT ![p] = l],
           InFlight(c, m, l), DiskInv'
    PROVE  ChainInv'
<1>1. /\ pc \in [Procs -> PCs] /\ mem \in [Procs -> FileSystem]
      /\ loc \in [Procs -> Locals]
  BY DEF TypeInv, TypeOK
<1>2. ASSUME NEW q \in Procs
      PROVE  InFlight(pc'[q], mem'[q], loc'[q])
  <2>1. CASE q = p
    BY <1>1, <2>1
  <2>2. CASE q # p
    <3>1. mem'[q] = mem[q] /\ pc'[q] = pc[q] /\ loc'[q] = loc[q]
      BY <1>1, <2>2
    <3> QED
      BY <3>1 DEF ChainInv
  <2> QED
    BY <2>1, <2>2
<1> QED
  BY <1>2 DEF ChainInv

(* The disk stays in order when a process that is not saving leaves it. *)
LEMMA ChainFrame ==
    ASSUME TypeInv, ChainInv, Undamaged, NEW p \in Procs,
           NEW c, pc' = [pc EXCEPT ![p] = c],
           NEW m, mem' = [mem EXCEPT ![p] = m],
           NEW l, loc' = [loc EXCEPT ![p] = l],
           InFlight(c, m, l), pc[p] # "flush", c # "flush", disk' = disk
    PROVE  ChainInv'
<1>1. /\ pc \in [Procs -> PCs] /\ mem \in [Procs -> FileSystem]
      /\ loc \in [Procs -> Locals]
  BY DEF TypeInv, TypeOK
<1>2. \A q \in Procs : pc'[q] = "flush" <=> pc[q] = "flush"
  BY <1>1
<1>3. \A q \in Procs : pc[q] = "flush" => mem'[q] = mem[q] /\ loc'[q] = loc[q]
  BY <1>1
<1>4. DiskInv'
  BY <1>2, <1>3 DEF ChainInv, DiskInv
<1> QED
  BY <1>4, ChainFrameDisk

-----------------------------------------------------------------------------
(* One lemma for each step of a handler. *)
LEMMA CreateRests ==
    ASSUME NEW m \in FileSystem, Resting(m), NEW n \in Args
    PROVE  Resting(Created(m, n))
<1> DEFINE unused == Matches(m, NoName)
           i == Min(unused)
           b == find_free_block(m)
<1>1. CASE Matches(m, n) # {} \/ unused = {} \/ FreeBlocks(m) = {}
  BY <1>1 DEF Created
<1>2. CASE ~ (Matches(m, n) # {} \/ unused = {} \/ FreeBlocks(m) = {})
  <2>1. i \in Entries /\ m.directory[i].filename = NoName
    BY <1>2, FirstMatch
  <2>2. b \in Blocks /\ m.fat_table[b] = Free
    BY <1>2, FirstFree DEF FreeBlocks
  <2>3. n # NoName
    BY <1>2
  <2> DEFINE e == [filename |-> n, start_block |-> b, size |-> 0]
             new == Created(m, n)
  <2>4. /\ new.fat_table = [m.fat_table EXCEPT ![b] = EOF]
        /\ new.directory = [m.directory EXCEPT ![i] = e]
    BY <1>2 DEF Created, FileSystem
  <2> HIDE DEF i, b, new
  <2>5. /\ Live(new) = Live(m) \cup {i} /\ i \notin Live(m)
        /\ Heads(new) = [Heads(m) EXCEPT ![i] = b]
        /\ Sizes(new) = [Sizes(m) EXCEPT ![i] = 0]
    <3>1. \A j \in Entries : new.directory[j] = IF j = i THEN e
                                                  ELSE m.directory[j]
      BY <2>1, <2>4, HeadsSizes
    <3>2. e.filename = n /\ e.start_block = b /\ e.size = 0
      OBVIOUS
    <3> HIDE DEF e
    <3>3. Live(new) = Live(m) \cup {i} /\ i \notin Live(m)
      BY <2>1, <2>3, <3>1, <3>2 DEF Live
    <3>4. Heads(new) = [Heads(m) EXCEPT ![i] = b]
      BY <2>1, <3>1, <3>2 DEF Heads
    <3>5. Sizes(new) = [Sizes(m) EXCEPT ![i] = 0]
      BY <2>1, <3>1, <3>2 DEF Sizes
    <3> QED
      BY <3>3, <3>4, <3>5
  <2>6. PICK own \in Owners, bo \in Places :
            Placed(m.fat_table, Live(m), Heads(m), Sizes(m), own, bo)
    BY DEF Resting
  <2>7. Placed(new.fat_table, Live(new), Heads(new), Sizes(new),
               [own EXCEPT ![b] = i], [bo EXCEPT ![b] = 0])
    <3>1. /\ m.fat_table \in Fats /\ Live(m) \in SUBSET Entries
          /\ Heads(m) \in [Entries -> Blocks]
          /\ Sizes(m) \in [Entries -> Nat]
      BY HeadsSizes
    <3>2. Placed([m.fat_table EXCEPT ![b] = EOF], Live(m) \cup {i},
                 [Heads(m) EXCEPT ![i] = b], [Sizes(m) EXCEPT ![i] = 0],
                 [own EXCEPT ![b] = i], [bo EXCEPT ![b] = 0])
      BY <2>1, <2>2, <2>5, <2>6, <3>1, PlacedCreate
    <3> QED
      BY <2>4, <2>5, <3>2
  <2>8. [own EXCEPT ![b] = i] \in Owners /\ [bo EXCEPT ![b] = 0] \in Places
    BY <2>1 DEF Owners, Places
  <2>9. Resting(new)
    BY <2>7, <2>8 DEF Resting
  <2> QED
    BY <2>9 DEF new
<1> QED
  BY <1>1, <1>2

LEMMA OpenWalks ==
    ASSUME NEW m \in FileSystem, Resting(m), NEW i \in Live(m), NEW l,
           l.i = i, l.n = 0, l.block = m.directory[i].start_block,
           l.remain = m.directory[i].size
    PROVE  Walking(m, l)
<1>1. PICK own \in Owners, bo \in Places :
          Placed(m.fat_table, Live(m), Heads(m), Sizes(m), own, bo)
  BY DEF Resting
<1>2. i \in Entries /\ Sizes(m)[i] = l.remain /\ Heads(m)[i] = l.block
  BY DEF Live, Sizes, Heads
<1>3. l.remain \in Nat
  BY <1>2, HeadsSizes
<1>4. m.fat_table[l.block] # Free /\ own[l.block] = i /\ bo[l.block] = 0
  BY <1>1, <1>2 DEF Placed
<1> QED
  BY <1>1, <1>2, <1>3, <1>4 DEF Walking

LEMMA WalkWalks ==
    ASSUME NEW m \in FileSystem, NEW l \in Locals, Walking(m, l),
           l.block \in Blocks, l.remain >= BLOCK_SIZE,
           m.fat_table[l.block] # EOF
    PROVE  Walking(m, [l EXCEPT !.remain = l.remain - BLOCK_SIZE,
                                !.block = m.fat_table[l.block]])
<1> DEFINE new == [l EXCEPT !.remain = l.remain - BLOCK_SIZE,
                            !.block = m.fat_table[l.block]]
<1>1. PICK own \in Owners, bo \in Places :
          /\ Placed(m.fat_table, Live(m), Heads(m), Sizes(m), own, bo)
          /\ m.fat_table[l.block] # Free
          /\ own[l.block] = l.i
          /\ bo[l.block] + l.remain = Sizes(m)[l.i]
  BY DEF Walking
<1>2. /\ new.i = l.i /\ new.n = l.n /\ new.remain = l.remain - BLOCK_SIZE
      /\ new.block = m.fat_table[l.block] /\ l.remain \in Nat
  BY DEF Locals
<1> HIDE DEF new
<1>3. new.remain % BLOCK_SIZE = l.remain % BLOCK_SIZE
  BY <1>2, ModStep, SizesAssumption
<1>4. /\ m.fat_table[new.block] # Free
      /\ own[new.block] = own[l.block]
      /\ bo[new.block] = bo[l.block] + BLOCK_SIZE
  BY <1>1, <1>2 DEF Placed
<1>5. bo[l.block] \in Nat
  BY DEF Places
<1>6. bo[new.block] + new.remain = Sizes(m)[l.i]
  BY <1>1, <1>2, <1>4, <1>5, SizesAssumption
<1>7. Walking(m, new)
  BY <1>1, <1>2, <1>3, <1>4, <1>6 DEF Walking
<1> QED
  BY <1>7 DEF new

LEMMA SeekAppends ==
    ASSUME NEW m \in FileSystem, NEW l \in Locals, Walking(m, l),
           l.block \in Blocks,
           ~ (l.remain >= BLOCK_SIZE /\ m.fat_table[l.block] # EOF)
    PROVE  Appending(m, [l EXCEPT !.off =
                            m.directory[l.i].size % BLOCK_SIZE])
<1> DEFINE off == m.directory[l.i].size % BLOCK_SIZE
           new == [l EXCEPT !.off = off]
<1>1. PICK own \in Owners, bo \in Places :
          /\ Placed(m.fat_table, Live(m), Heads(m), Sizes(m), own, bo)
          /\ m.fat_table[l.block] # Free
          /\ own[l.block] = l.i
          /\ bo[l.block] + l.remain = Sizes(m)[l.i]
  BY DEF Walking
<1>2. /\ l.i \in Live(m) /\ l.i \in Entries /\ l.remain \in Nat
      /\ Sizes(m)[l.i] = m.directory[l.i].size /\ l.n = 0
      /\ Sizes(m) \in [Entries -> Nat] /\ bo[l.block] \in Nat
  BY HeadsSizes DEF Walking, Live, Sizes, Locals, Places
<1>3. off = l.remain % BLOCK_SIZE
  BY <1>2 DEF Walking
<1>4. m.fat_table[l.block] = EOF
  <2> SUFFICES ASSUME m.fat_table[l.block] # EOF, l.remain < BLOCK_SIZE
               PROVE  FALSE
    BY <1>2, SizesAssumption
  <2>1. bo[l.block] + BLOCK_SIZE <= Sizes(m)[l.i]
    BY <1>1 DEF Placed
  <2> QED
    BY <1>1, <1>2, <2>1, SizesAssumption
<1>5. off \in Nat /\ off <= l.remain
  BY <1>2, <1>3, SizesAssumption
<1>6. new.off = off /\ new.i = l.i /\ new.n = 0 /\ new.block = l.block
  BY <1>2 DEF Locals
<1> HIDE DEF off, new
<1>7. bo[l.block] + off <= Sizes(m)[l.i] + 0
  BY <1>1, <1>2, <1>5
<1>8. [Sizes(m) EXCEPT ![l.i] = @ + 0] = Sizes(m)
  BY <1>2
<1>9. Appending(m, new)
  BY <1>1, <1>2, <1>4, <1>6, <1>7, <1>8 DEF Appending
<1> QED
  BY <1>9 DEF new, off

(* Bytes are copied behind the last ones: the file is k bytes longer. *)
LEMMA CopyAppends ==
    ASSUME NEW m \in FileSystem, NEW l \in Locals, Appending(m, l),
           NEW k \in Nat, NEW b \in Blocks, NEW cell, NEW new,
           new.i = l.i, new.block = l.block, new.off = l.off + k,
           new.n = l.n + k, l.block \in Blocks
    PROVE  Appending(Stored(m, b, cell), new)
<1> DEFINE m2 == Stored(m, b, cell)
           z1 == [Sizes(m) EXCEPT ![l.i] = @ + l.n]
           z2 == [Sizes(m) EXCEPT ![new.i] = @ + new.n]
<1>1. m2.fat_table = m.fat_table /\ m2.directory = m.directory
  BY DEF Stored, FileSystem
<1>2. Live(m2) = Live(m) /\ Heads(m2) = Heads(m) /\ Sizes(m2) = Sizes(m)
  BY <1>1 DEF Live, Heads, Sizes
<1>3. PICK own \in Owners, bo \in Places :
          /\ Placed(m.fat_table, Live(m), Heads(m), z1, own, bo)
          /\ m.fat_table[l.block] = EOF
          /\ own[l.block] = l.i
          /\ bo[l.block] + l.off <= Sizes(m)[l.i] + l.n
  BY DEF Appending
<1>4. /\ l.i \in Live(m) /\ l.i \in Entries /\ l.n \in Nat /\ l.off \in Nat
      /\ bo[l.block] \in Nat /\ Sizes(m) \in [Entries -> Nat]
  BY HeadsSizes, SizesAssumption DEF Appending, Locals, Places, Live
<1>5. /\ z1 \in [Entries -> Nat] /\ z2 \in [Entries -> Nat]
      /\ \A i \in Entries : z1[i] <= z2[i]
  BY <1>4
<1> HIDE DEF m2, z1, z2
<1>6. Placed(m.fat_table, Live(m), Heads(m), z2, own, bo)
  BY <1>3, <1>5, HeadsSizes, PlacedGrow
<1>7. bo[new.block] + new.off <= Sizes(m)[new.i] + new.n
  BY <1>3, <1>4
<1>8. Appending(m2, new)
  BY <1>1, <1>2, <1>3, <1>4, <1>6, <1>7 DEF Appending, z2
<1> QED
  BY <1>8 DEF m2

(* A new block is linked behind the full last one. *)
LEMMA LinkAppends ==
    ASSUME NEW m \in FileSystem, NEW l \in Locals, Appending(m, l),
           l.block \in Blocks, l.off = BLOCK_SIZE,
           NEW nb \in FreeBlocks(m), nb # Free
    PROVE  Appending(Linked(m, l.block, nb),
                     [l EXCEPT !.block = nb, !.off = 0])
<1> DEFINE m2 == Linked(m, l.block, nb)
           new == [l EXCEPT !.block = nb, !.off = 0]
           z == [Sizes(m) EXCEPT ![l.i] = @ + l.n]
           b == l.block
<1>1. /\ m2.fat_table = [m.fat_table EXCEPT ![b] = nb, ![nb] = EOF]
      /\ m2.directory = m.directory
  BY DEF Linked, FileSystem
<1>2. Live(m2) = Live(m) /\ Heads(m2) = Heads(m) /\ Sizes(m2) = Sizes(m)
  BY <1>1 DEF Live, Heads, Sizes
<1>3. PICK own \in Owners, bo \in Places :
          /\ Placed(m.fat_table, Live(m), Heads(m), z, own, bo)
          /\ m.fat_table[b] = EOF
          /\ own[b] = l.i
          /\ bo[b] + l.off <= Sizes(m)[l.i] + l.n
  BY DEF Appending
<1>4. /\ l.i \in Live(m) /\ l.i \in Entries /\ l.n \in Nat
      /\ bo[b] \in Nat /\ Sizes(m) \in [Entries -> Nat]
      /\ m.fat_table \in Fats
  BY HeadsSizes DEF Appending, Locals, Places, Live
<1>5. z \in [Entries -> Nat] /\ z[l.i] = Sizes(m)[l.i] + l.n
  BY <1>4
<1>6. nb \in Blocks /\ m.fat_table[nb] = Free
  BY DEF FreeBlocks
<1>7. new.block = nb /\ new.off = 0 /\ new.i = l.i /\ new.n = l.n
  BY DEF Locals
<1> DEFINE o == [own EXCEPT ![nb] = own[b]]
           w == [bo EXCEPT ![nb] = bo[b] + BLOCK_SIZE]
<1>8. /\ o \in Owners /\ w \in Places
      /\ o[nb] = l.i /\ w[nb] = bo[b] + BLOCK_SIZE
  BY <1>3, <1>4, <1>6, SizesAssumption DEF Owners, Places
<1>9. m2.fat_table[nb] = EOF
  BY <1>1, <1>4, <1>6 DEF Fats
<1> HIDE DEF m2, new, z
<1>10. Placed(m2.fat_table, Live(m), Heads(m), z, o, w)
  <2>1. b \in Blocks /\ Live(m) \in SUBSET Entries
    BY HeadsSizes
  <2>2. bo[b] + BLOCK_SIZE <= z[own[b]]
    BY <1>3, <1>5
  <2> HIDE DEF b
  <2>3. Placed([m.fat_table EXCEPT ![b] = nb, ![nb] = EOF], Live(m), Heads(m),
               z, o, w)
    BY <1>3, <1>4, <1>5, <1>6, <2>1, <2>2, PlacedLink
  <2> QED
    BY <1>1, <2>3
<1> HIDE DEF o, w
<1>11. w[nb] + 0 <= Sizes(m)[l.i] + l.n
  BY <1>3, <1>4, <1>8, SizesAssumption
<1>12. Appending(m2, new)
  BY <1>2, <1>4, <1>7, <1>8, <1>9, <1>10, <1>11 DEF Appending, z
<1> QED
  BY <1>12 DEF m2, new

LEMMA DoneRests ==
    ASSUME NEW m \in FileSystem, NEW l \in Locals, Appending(m, l),
           NEW n, NEW s, Len(s) = l.n
    PROVE  Resting(Grown(m, l.i, n, s))
<1> DEFINE new == Grown(m, l.i, n, s)
<1>1. l.i \in Live(m) /\ l.i \in Entries
  BY DEF Appending, Live
<1>2. /\ new.fat_table = m.fat_table
      /\ new.directory = [m.directory EXCEPT ![l.i] =
                             [m.directory[l.i] EXCEPT !.size = @ + l.n]]
  BY DEF Grown, FileSystem
<1> HIDE DEF new
<1>3. /\ Live(new) = Live(m) /\ Heads(new) = Heads(m)
      /\ Sizes(new) = [Sizes(m) EXCEPT ![l.i] = @ + l.n]
  <2>1. \A j \in Entries :
          /\ new.directory[j].filename = m.directory[j].filename
          /\ new.directory[j].start_block = m.directory[j].start_block
          /\ new.directory[j].size = IF j = l.i THEN m.directory[j].size + l.n
                                                ELSE m.directory[j].size
    BY <1>1, <1>2, HeadsSizes DEF FileEntry
  <2>2. Live(new) = Live(m)
    BY <2>1 DEF Live
  <2>3. Heads(new) = Heads(m)
    BY <2>1 DEF Heads
  <2>4. Sizes(new) = [Sizes(m) EXCEPT ![l.i] = @ + l.n]
    BY <1>1, <2>1 DEF Sizes
  <2> QED
    BY <2>2, <2>3, <2>4
<1>4. Resting(new)
  BY <1>2, <1>3 DEF Appending, Resting
<1> QED
  BY <1>4 DEF new

LEMMA OpenFrees ==
    ASSUME NEW m \in FileSystem, Resting(m), NEW i \in Live(m), NEW l,
           l.i = i, l.block = m.directory[i].start_block
    PROVE  Freeing(m, l)
<1>1. i \in Entries /\ Heads(m)[i] = l.block /\ l.block \in Blocks
  BY HeadsSizes DEF Live, Heads
<1>2. l.block # EOF
  BY <1>1, SizesAssumption DEF Blocks
<1>3. [Heads(m) EXCEPT ![i] = l.block] = Heads(m)
  BY <1>1, HeadsSizes
<1> QED
  BY <1>2, <1>3 DEF Resting, Freeing

LEMMA BlockFrees ==
    ASSUME NEW m \in FileSystem, NEW l \in Locals, Freeing(m, l),
           l.block # EOF
    PROVE  /\ m.fat_table[l.block] # Free
           /\ Freeing(Freed(m, l.block),
                      [l EXCEPT !.block = m.fat_table[l.block]])
<1> DEFINE m2 == Freed(m, l.block)
           next == m.fat_table[l.block]
           new == [l EXCEPT !.block = next]
           h == [Heads(m) EXCEPT ![l.i] = l.block]
<1>1. /\ m2.fat_table = [m.fat_table EXCEPT ![l.block] = Free]
      /\ m2.directory = m.directory
  BY DEF Freed, FileSystem
<1>2. Live(m2) = Live(m) /\ Heads(m2) = Heads(m) /\ Sizes(m2) = Sizes(m)
  BY <1>1 DEF Live, Heads, Sizes
<1>3. PICK own \in Owners, bo \in Places :
          Placed(m.fat_table, Live(m), h, Sizes(m), own, bo)
  BY DEF Freeing
<1>4. /\ l.i \in Live(m) /\ l.i \in Entries /\ l.block \in Blocks
      /\ m.fat_table \in Fats /\ h \in [Entries -> Blocks]
      /\ h[l.i] = l.block /\ Sizes(m) \in [Entries -> Nat]
      /\ Live(m) \in SUBSET Entries /\ Heads(m) \in [Entries -> Blocks]
  BY HeadsSizes DEF Freeing, Live, Locals
<1>5. next # Free
  BY <1>3, <1>4 DEF Placed
<1>6. new.i = l.i /\ new.block = next
  BY DEF Locals
<1> HIDE DEF m2, h, next, new
<1>7. next = m.fat_table[h[l.i]] /\ m2.fat_table = [m.fat_table EXCEPT ![h[l.i]] = Free]
  BY <1>1, <1>4 DEF next
<1>8. PICK w \in Places :
          IF next = EOF
          THEN Placed(m2.fat_table, Live(m) \ {l.i}, h, Sizes(m), own, w)
          ELSE Placed(m2.fat_table, Live(m), [h EXCEPT ![l.i] = next],
                      Sizes(m), own, w)
  BY <1>3, <1>4, <1>7, PlacedFree
<1>9. /\ [h EXCEPT ![l.i] = next] = [Heads(m) EXCEPT ![l.i] = next]
      /\ \A j \in Live(m) \ {l.i} : h[j] = Heads(m)[j]
  BY <1>4 DEF h
<1>10. CASE next = EOF
  <2>1. Placed(m2.fat_table, Live(m) \ {l.i}, Heads(m), Sizes(m), own, w)
    BY <1>8, <1>9, <1>10 DEF Placed
  <2> QED
    BY <1>2, <1>4, <1>5, <1>6, <1>10, <2>1 DEF Freeing, m2, next, new
<1>11. CASE next # EOF
  <2>1. Placed(m2.fat_table, Live(m), [Heads(m) EXCEPT ![l.i] = next],
               Sizes(m), own, w)
    BY <1>8, <1>9, <1>11
  <2> QED
    BY <1>2, <1>4, <1>5, <1>6, <1>11, <2>1 DEF Freeing, m2, next, new
<1> QED
  BY <1>10, <1>11

LEMMA RemoveRests ==
    ASSUME NEW m \in FileSystem, NEW l, Freeing(m, l), l.block = EOF, NEW n
    PROVE  Resting(Removed(m, l.i, n))
<1> DEFINE new == Removed(m, l.i, n)
<1>1. l.i \in Entries
  BY DEF Freeing, Live
<1>2. /\ new.fat_table = m.fat_table
      /\ new.directory = [m.directory EXCEPT ![l.i] =
                             [m.directory[l.i] EXCEPT !.filename = NoName]]
  BY DEF Removed, FileSystem
<1> HIDE DEF new
<1>3. /\ Live(new) = Live(m) \ {l.i} /\ Heads(new) = Heads(m)
      /\ Sizes(new) = Sizes(m)
  BY <1>1, <1>2, HeadsSizes DEF Live, Heads, Sizes, FileEntry
<1>4. Resting(new)
  BY <1>2, <1>3 DEF Freeing, Resting
<1> QED
  BY <1>4 DEF new

LEMMA ChainStep == TypeInv /\ ChainInv /\ [Next]_vars => ChainInv'
<1> SUFFICES ASSUME TypeInv, ChainInv, [Next]_vars, Undamaged'
             PROVE  ChainInv'
  BY DEF ChainInv
<1>1. /\ disk \in FileSystem /\ mem \in [Procs -> FileSystem]
      /\ pc \in [Procs -> PCs] /\ loc \in [Procs -> Locals]
  BY DEF TypeInv, TypeOK
<1>2. CASE UNCHANGED vars
  BY <1>2 DEF vars, ChainInv, DiskInv, Undamaged
<1>3. ASSUME NEW p \in Procs, Load(p) \/ execute_cmd(p) \/ Step(p) \/ Crash(p)
      PROVE  ChainInv'
  <2>1. Undamaged /\ deviations \subseteq deviations'
    BY <1>3 DEF Undamaged, execute_cmd, Step, Load, Crash, Other, create_file,
       WriteOpen, WriteWalk, WriteSeek, WriteChunk, WriteDone, ReadOpen,
       ReadBlock, ReadDone, DeleteOpen, DeleteBlock, DeleteDone, SaveOpen,
       SaveFails, SavePart, SaveLast, Note
  <2>2. DiskInv
    BY <2>1 DEF ChainInv
  <2> DEFINE m == mem[p]
             l == loc[p]
  <2>3. /\ m \in FileSystem /\ l \in Locals
        /\ InFlight(pc[p], m, l) /\ LocOK(pc[p], m, l)
        /\ mem = [mem EXCEPT ![p] = m]
        /\ loc = [loc EXCEPT ![p] = l]
        /\ pc = [pc EXCEPT ![p] = pc[p]]
    BY <1>1, <2>1, Same DEF TypeInv, ChainInv
  <2>4. ASSUME NEW n \in Args, Matches(m, n) # {}, n # NoName
        PROVE  Min(Matches(m, n)) \in Live(m)
    BY <2>4, FirstMatch DEF Live
  <2> HIDE DEF m, l
  <2>5. CASE Load(p)
    <3>1. "torn" \notin deviations' /\ pc[p] = "idle"
      BY <2>5 DEF Undamaged, Load
    <3>2. \A q \in Procs : pc[q] # "flush"
      BY <2>5, <3>1 DEF Load, Saving
    <3>3. InFlight("exec", disk, l)
      BY <2>2, <3>2 DEF InFlight, DiskInv
    <3> QED
      BY <2>1, <2>3, <2>5, <3>3, ChainFrame DEF Load, Goto
  <2>6. CASE Other(p)
    <3>1. InFlight("save", m, l)
      BY <2>3, <2>6 DEF InFlight, Other
    <3> QED
      BY <2>1, <2>3, <2>6, <3>1, ChainFrame DEF Other, Goto
  <2>7. ASSUME NEW n \in Args, create_file(p, n)
        PROVE  ChainInv'
    <3>1. Resting(m)
      BY <2>3, <2>7 DEF InFlight, create_file
    <3>2. Resting(Created(m, n))
      BY <2>3, <3>1, CreateRests
    <3>3. InFlight("save", Created(m, n), [l EXCEPT !.arg = n])
      BY <3>2 DEF InFlight
    <3>4. /\ loc' = [loc EXCEPT ![p] = [l EXCEPT !.arg = n]]
          /\ mem' = [mem EXCEPT ![p] = Created(m, n)]
      BY <1>1, <2>7 DEF create_file, l, m
    <3> QED
      BY <2>1, <2>3, <2>7, <3>3, <3>4, ChainFrame DEF create_file, Goto
  <2>8. ASSUME NEW n \in Args, NEW d \in Data, WriteOpen(p, n, d)
        PROVE  ChainInv'
    <3> DEFINE found == Matches(m, n)
               i     == Min(found)
               new   == [NoLocals EXCEPT !.arg = n, !.i = i,
                            !.block = m.directory[i].start_block,
                            !.remain = m.directory[i].size, !.data = d]
    <3>1. Resting(m)
      BY <2>3, <2>8 DEF InFlight, WriteOpen
    <3>2. CASE found = {}
      <4>1. InFlight("save", m, l)
        BY <3>1 DEF InFlight
      <4> QED
        BY <2>1, <2>3, <2>8, <3>2, <4>1, ChainFrame
           DEF WriteOpen, Goto, m
    <3>3. CASE found # {}
      <4>1. /\ loc' = [loc EXCEPT ![p] = new] /\ mem' = mem
            /\ pc' = [pc EXCEPT ![p] = "walk"] /\ disk' = disk
            /\ pc[p] = "exec"
            /\ n = NoName => "no_name" \in deviations'
        BY <2>8, <3>3 DEF WriteOpen, Goto, Note, m
      <4>2. i \in Live(m)
        BY <2>4, <3>3, <4>1 DEF Undamaged
      <4> HIDE DEF i
      <4>3. /\ new.i = i /\ new.n = 0
            /\ new.block = m.directory[i].start_block
            /\ new.remain = m.directory[i].size
        BY DEF NoLocals
      <4> HIDE DEF new
      <4>4. InFlight("walk", m, new)
        BY <2>3, <3>1, <4>2, <4>3, OpenWalks DEF InFlight
      <4> QED
        BY <2>1, <2>3, <4>1, <4>4, ChainFrame
    <3> QED
      BY <3>2, <3>3
  <2>9. ASSUME NEW n \in Args, ReadOpen(p, n)
        PROVE  ChainInv'
    <3>1. PICK c \in {"save", "read"} : \E k :
              /\ pc' = [pc EXCEPT ![p] = c] /\ loc' = [loc EXCEPT ![p] = k]
              /\ mem' = mem /\ disk' = disk /\ pc[p] = "exec"
      BY <2>3, <2>9 DEF ReadOpen, Goto
    <3>2. PICK k : loc' = [loc EXCEPT ![p] = k]
      BY <3>1
    <3>3. InFlight(c, m, k)
      BY <2>3, <3>1 DEF InFlight
    <3> QED
      BY <2>1, <2>3, <3>1, <3>2, <3>3, ChainFrame
  <2>10. ASSUME NEW n \in Args, DeleteOpen(p, n)
        PROVE  ChainInv'
    <3> DEFINE found == Matches(m, n)
               i     == Min(found)
               new   == [NoLocals EXCEPT !.arg = n, !.i = i,
                            !.block = m.directory[i].start_block]
    <3>1. Resting(m)
      BY <2>3, <2>10 DEF InFlight, DeleteOpen
    <3>2. CASE found = {}
      <4>1. InFlight("save", m, l)
        BY <3>1 DEF InFlight
      <4> QED
        BY <2>1, <2>3, <2>10, <3>2, <4>1, ChainFrame
           DEF DeleteOpen, Goto, m
    <3>3. CASE found # {}
      <4>1. /\ loc' = [loc EXCEPT ![p] = new] /\ mem' = mem
            /\ pc' = [pc EXCEPT ![p] = "free"] /\ disk' = disk
            /\ pc[p] = "exec"
            /\ n = NoName => "no_name" \in deviations'
        BY <2>10, <3>3 DEF DeleteOpen, Goto, Note, m
      <4>2. i \in Live(m)
        BY <2>4, <3>3, <4>1 DEF Undamaged
      <4> HIDE DEF i
      <4>3. new.i = i /\ new.block = m.directory[i].start_block
        BY DEF NoLocals
      <4> HIDE DEF new
      <4>4. InFlight("free", m, new)
        BY <2>3, <3>1, <4>2, <4>3, OpenFrees DEF InFlight
      <4> QED
        BY <2>1, <2>3, <4>1, <4>4, ChainFrame
    <3> QED
      BY <3>2, <3>3
  <2>11. CASE WriteWalk(p)
    <3> DEFINE new == [l EXCEPT !.remain = l.remain - BLOCK_SIZE,
                                !.block = m.fat_table[l.block]]
    <3>1. /\ pc[p] = "walk" /\ l.remain >= BLOCK_SIZE
          /\ m.fat_table[l.block] # EOF
          /\ loc' = [loc EXCEPT ![p] = new]
          /\ UNCHANGED <<disk, mem, pc>>
      BY <1>1, <2>11 DEF WriteWalk, WalkOn, m, l
    <3>2. l.block \in Blocks /\ Walking(m, l)
      BY <2>3, <3>1 DEF LocOK, InFlight
    <3>3. Walking(m, new)
      BY <2>3, <3>1, <3>2, WalkWalks
    <3> HIDE DEF new
    <3>4. InFlight("walk", m, new)
      BY <3>3 DEF InFlight
    <3> QED
      BY <2>1, <2>3, <3>1, <3>4, ChainFrame
  <2>12. CASE WriteSeek(p)
    <3> DEFINE new == [l EXCEPT !.off = m.directory[l.i].size % BLOCK_SIZE]
    <3>1. /\ pc[p] = "walk"
          /\ ~ (l.remain >= BLOCK_SIZE /\ m.fat_table[l.block] # EOF)
          /\ loc' = [loc EXCEPT ![p] = new]
          /\ pc' = [pc EXCEPT ![p] = "append"]
          /\ UNCHANGED <<disk, mem>>
      BY <1>1, <2>12 DEF WriteSeek, WalkOn, Goto, m, l
    <3>2. l.block \in Blocks /\ Walking(m, l)
      BY <2>3, <3>1 DEF LocOK, InFlight
    <3>3. Appending(m, new)
      BY <2>3, <3>1, <3>2, SeekAppends
    <3> HIDE DEF new
    <3>4. InFlight("append", m, new)
      BY <3>3 DEF InFlight
    <3> QED
      BY <2>1, <2>3, <3>1, <3>4, ChainFrame
  <2>13. CASE WriteChunk(p)
    <3> DEFINE full == l.off = BLOCK_SIZE
               nb   == find_free_block(m)
               img  == IF full THEN Linked(m, l.block, nb) ELSE m
               b    == IF full THEN nb ELSE l.block
               off  == IF full THEN 0 ELSE l.off
               k    == Min({Pending(p), BLOCK_SIZE - off})
               cell == Copied(img.data_area[b], off, l.data, l.n, k)
               new  == [l EXCEPT !.block = b, !.off = off + k, !.n = l.n + k]
               mid  == [l EXCEPT !.block = b, !.off = off]
    <3>1. /\ pc[p] = "append" /\ Pending(p) > 0 /\ ~ NoSpace(p)
          /\ mem' = [mem EXCEPT ![p] = Stored(img, b, cell)]
          /\ loc' = [loc EXCEPT ![p] = new]
          /\ full /\ b = Free => "zero_link" \in deviations'
          /\ UNCHANGED <<disk, pc>>
      BY <1>1, <2>13 DEF WriteChunk, Note, m, l
    <3>2. /\ l.block \in Blocks /\ l.n \in Nat /\ l.n <= Len(l.data)
          /\ l.off \in 0 .. BLOCK_SIZE /\ l.data \in Seq(Bytes)
          /\ Appending(m, l)
      BY <2>3, <3>1 DEF LocOK, Locals, InFlight
    <3>3. full => nb \in FreeBlocks(m) /\ nb \in Blocks /\ nb # Free
      BY <3>1, FirstFree DEF NoSpace, FreeBlocks, Undamaged, m, l
    <3>4. /\ img \in FileSystem /\ b \in Blocks /\ mid \in Locals
          /\ off \in 0 .. BLOCK_SIZE - 1
      <4>1. b \in Blocks /\ off \in 0 .. BLOCK_SIZE - 1
        BY <3>2, <3>3, SizesAssumption
      <4>2. img \in FileSystem
        BY <2>3, <3>2, <3>3 DEF Linked, FileSystem
      <4>3. off \in 0 .. BLOCK_SIZE
        BY <4>1, SizesAssumption
      <4> HIDE DEF b, off
      <4>4. mid \in Locals
        BY <2>3, <4>1, <4>3 DEF Locals
      <4> QED
        BY <4>1, <4>2, <4>4 DEF b, off
    <3>5. Appending(img, mid)
      <4>1. CASE full
        BY <2>3, <3>2, <3>3, <4>1, LinkAppends
      <4>2. CASE ~ full
        <5>1. mid = l
          BY <2>3, <4>2 DEF Locals
        <5> QED
          BY <3>2, <4>2, <5>1
      <4> QED
        BY <4>1, <4>2
    <3>6. Pending(p) \in Nat /\ BLOCK_SIZE - off \in Nat
      <4> HIDE DEF off
      <4>1. Len(l.data) \in Nat
        BY <3>2
      <4>2. Pending(p) = Len(l.data) - l.n
        BY DEF Pending, l
      <4>3. Pending(p) \in Nat
        BY <3>1, <3>2, <4>1, <4>2
      <4>4. BLOCK_SIZE - off \in Nat
        BY <3>4, SizesAssumption
      <4> QED
        BY <4>3, <4>4
    <3> HIDE DEF full, nb, img, b, off
    <3>7. k \in Nat
      BY <3>6, MinOfTwo
    <3> HIDE DEF k, cell
    <3>8. /\ new.i = mid.i /\ new.block = mid.block /\ new.off = mid.off + k
          /\ new.n = mid.n + k /\ mid.block \in Blocks
      BY <2>3, <3>4 DEF Locals
    <3> HIDE DEF new, mid
    <3>9. Appending(Stored(img, b, cell), new)
      BY <3>4, <3>5, <3>7, <3>8, CopyAppends
    <3>10. InFlight("append", Stored(img, b, cell), new)
      BY <3>9 DEF InFlight
    <3> QED
      BY <2>1, <2>3, <3>1, <3>10, ChainFrame
  <2>14. CASE WriteDone(p)
    <3> DEFINE s   == SubSeq(l.data, 1, l.n)
               new == Grown(m, l.i, l.arg, s)
    <3>1. /\ pc[p] = "append"
          /\ mem' = [mem EXCEPT ![p] = new]
          /\ pc' = [pc EXCEPT ![p] = "save"]
          /\ UNCHANGED <<disk, loc>>
      BY <1>1, <2>14 DEF WriteDone, Goto, m, l
    <3>2. /\ l.n \in Nat /\ l.n <= Len(l.data) /\ l.data \in Seq(Bytes)
          /\ Appending(m, l)
      BY <2>3, <3>1 DEF LocOK, Locals, InFlight
    <3>3. Len(s) = l.n
      BY <3>2
    <3> HIDE DEF s
    <3>4. Resting(new)
      BY <2>3, <3>2, <3>3, DoneRests
    <3> HIDE DEF new
    <3>5. InFlight("save", new, l)
      BY <3>4 DEF InFlight
    <3> QED
      BY <2>1, <2>3, <3>1, <3>5, ChainFrame
  <2>15. CASE ReadBlock(p)
    <3>1. PICK k : /\ loc' = [loc EXCEPT ![p] = k] /\ pc[p] = "read"
                   /\ UNCHANGED <<disk, mem, pc>>
      BY <2>15 DEF ReadBlock
    <3>2. InFlight("read", m, k)
      BY <2>3, <3>1 DEF InFlight
    <3> QED
      BY <2>1, <2>3, <3>1, <3>2, ChainFrame
  <2>16. CASE ReadDone(p)
    <3>1. InFlight("printed", m, l)
      BY <2>3, <2>16 DEF InFlight, ReadDone
    <3> QED
      BY <2>1, <2>3, <2>16, <3>1, ChainFrame DEF ReadDone, Goto
  <2>17. CASE DeleteBlock(p)
    <3> DEFINE new == [l EXCEPT !.block = m.fat_table[l.block]]
    <3>1. /\ pc[p] = "free" /\ l.block # EOF
          /\ loc' = [loc EXCEPT ![p] = new]
          /\ mem' = [mem EXCEPT ![p] = Freed(m, l.block)]
          /\ UNCHANGED <<disk, pc>>
      BY <1>1, <2>17 DEF DeleteBlock, m, l
    <3>2. Freeing(m, l)
      BY <2>3, <3>1 DEF InFlight
    <3>3. Freeing(Freed(m, l.block), new)
      BY <2>3, <3>1, <3>2, BlockFrees
    <3> HIDE DEF new
    <3>4. InFlight("free", Freed(m, l.block), new)
      BY <3>3 DEF InFlight
    <3> QED
      BY <2>1, <2>3, <3>1, <3>4, ChainFrame
  <2>18. CASE DeleteDone(p)
    <3>1. /\ pc[p] = "free" /\ l.block = EOF
          /\ mem' = [mem EXCEPT ![p] = Removed(m, l.i, l.arg)]
          /\ pc' = [pc EXCEPT ![p] = "save"]
          /\ UNCHANGED <<disk, loc>>
      BY <1>1, <2>18 DEF DeleteDone, Goto, m, l
    <3>2. Resting(Removed(m, l.i, l.arg))
      BY <2>3, <3>1, RemoveRests DEF InFlight
    <3>3. InFlight("save", Removed(m, l.i, l.arg), l)
      BY <3>2 DEF InFlight
    <3> QED
      BY <2>1, <2>3, <3>1, <3>3, ChainFrame
  <2>19. CASE SaveOpen(p)
    <3> DEFINE new == [l EXCEPT !.n = 0]
    <3>1. InFlight("flush", m, new)
      BY <2>3, <2>19 DEF InFlight, SaveOpen
    <3>2. \A q \in Procs \ {p} : pc[q] # "flush"
      BY <2>19 DEF Undamaged, SaveOpen, Note, Saving
    <3>3. /\ loc' = [loc EXCEPT ![p] = new] /\ disk' = ZeroImage /\ mem' = mem
          /\ pc' = [pc EXCEPT ![p] = "flush"]
      BY <1>1, <2>19 DEF SaveOpen, Goto, l
    <3>4. Overlaid(ZeroImage, m, 0, 0) = ZeroImage
      BY OverlaidStarts
    <3>5. DiskInv'
      <4>1. \A q \in Procs : pc'[q] = "flush" <=> q = p
        BY <1>1, <3>2, <3>3
      <4>2. loc'[p].n = 0 /\ mem'[p] = m /\ 0 < Parts
        BY <1>1, <2>3, <3>3, SizesAssumption DEF Locals, Parts, m
      <4> QED
        BY <3>3, <3>4, <4>1, <4>2 DEF DiskInv
    <3> HIDE DEF new
    <3> QED
      BY <2>1, <2>3, <3>1, <3>3, <3>5, ChainFrameDisk
  <2>20. InFlight("idle", ZeroImage, NoLocals)
    BY ZeroImageRests DEF InFlight
  <2>21. CASE SaveFails(p)
    BY <2>1, <2>20, <2>21, ChainFrame DEF SaveFails, Exit, Goto
  <2>22. CASE SaveLast(p)
    <3>1. /\ pc[p] = "flush" /\ l.n \in Nat /\ l.n < Parts
          /\ disk = Overlaid(ZeroImage, m, 0, l.n)
          /\ \A q \in Procs : pc[q] = "flush" => q = p
          /\ disk' = Overlaid(disk, m, l.n, Parts)
          /\ pc' = [pc EXCEPT ![p] = "idle"]
      BY <2>2, <2>3, <2>22 DEF SaveLast, Exit, Goto, DiskInv, Locals, m, l
    <3>2. Resting(m)
      BY <2>3, <3>1 DEF InFlight
    <3>3. disk' = m
      BY <2>3, <3>1, OverlaidCompletes
    <3>4. \A q \in Procs : pc'[q] # "flush"
      BY <1>1, <3>1
    <3>5. DiskInv'
      BY <3>2, <3>3, <3>4 DEF DiskInv
    <3> QED
      BY <2>1, <2>20, <2>22, <3>5, ChainFrameDisk DEF SaveLast, Exit, Goto
  <2>23. CASE Crash(p)
    <3>1. pc[p] # "flush"
      BY <2>23 DEF Undamaged, Crash, Note
    <3> QED
      BY <2>1, <2>20, <2>23, <3>1, ChainFrame DEF Crash, Exit, Goto
  <2>24. ASSUME NEW cut \in Cuts, SavePart(p, cut)
         PROVE  ChainInv'
    <3> DEFINE new == [l EXCEPT !.n = cut]
    <3>1. /\ pc[p] = "flush" /\ l.n \in Nat /\ l.n < cut
          /\ disk = Overlaid(ZeroImage, m, 0, l.n)
          /\ \A q \in Procs : pc[q] = "flush" => q = p
          /\ disk' = Overlaid(disk, m, l.n, cut)
          /\ mem' = mem /\ pc' = pc
          /\ loc' = [loc EXCEPT ![p] = new]
      BY <1>1, <2>2, <2>3, <2>24 DEF SavePart, DiskInv, Locals, m, l
    <3>2. cut \in Nat /\ cut < Parts
      BY CutsAssumption, SizesAssumption DEF Parts
    <3>3. disk' = Overlaid(ZeroImage, m, 0, cut)
      BY <2>3, <3>1, <3>2, OverlaidJoins
    <3>4. InFlight("flush", m, new)
      BY <2>3, <3>1 DEF InFlight
    <3>5. DiskInv'
      <4>1. loc'[p].n = cut /\ mem'[p] = m
        BY <1>1, <2>3, <3>1 DEF Locals, m
      <4> QED
        BY <3>1, <3>2, <3>3, <4>1 DEF DiskInv
    <3> HIDE DEF new
    <3> QED
      BY <2>1, <2>3, <3>1, <3>4, <3>5, ChainFrameDisk
  <2> QED
    BY <1>3, <2>5, <2>6, <2>7, <2>8, <2>9, <2>10, <2>11, <2>12, <2>13, <2>14,
       <2>15, <2>16, <2>17, <2>18, <2>19, <2>21, <2>22, <2>23,
       <2>24 DEF execute_cmd, Step
<1> QED
  BY <1>2, <1>3 DEF Next

(* The place of every block in use tells which entry or link claims it. *)
LEMMA RestingClaimedOnce ==
    ASSUME NEW m \in FileSystem, Resting(m)
    PROVE  ClaimedOnce(m)
<1> DEFINE fat == m.fat_table
           Links == {b \in Blocks : fat[b] \notin {Free, EOF}}
           head(i) == m.directory[i].start_block
<1>1. PICK own \in Owners, bo \in Places :
          Placed(fat, Live(m), Heads(m), Sizes(m), own, bo)
  BY DEF Resting
<1>2. \A b \in Blocks : fat[b] \in Blocks \cup {EOF} /\ bo[b] \in Nat
  BY HeadsSizes DEF Fats, Places
<1>3. EOF # Free /\ EOF \notin Blocks
  BY SizesAssumption DEF Blocks
<1>4. \A i \in Live(m) : /\ head(i) \in Blocks /\ fat[head(i)] # Free
                         /\ own[head(i)] = i /\ bo[head(i)] = 0
  BY <1>1 DEF Placed, Heads, Live
<1>5. \A b \in Links : /\ fat[b] \in Blocks /\ fat[fat[b]] # Free
                       /\ own[fat[b]] = own[b]
                       /\ bo[fat[b]] = bo[b] + BLOCK_SIZE
  BY <1>1, <1>2 DEF Placed
<1>6. \A i, j \in Live(m) : head(i) = head(j) => i = j
  BY <1>4
<1>7. \A b, c \in Links : fat[b] = fat[c] => b = c
  <2> SUFFICES ASSUME NEW b \in Links, NEW c \in Links, fat[b] = fat[c]
               PROVE  b = c
    OBVIOUS
  <2>1. own[b] = own[c] /\ bo[b] = bo[c]
    BY <1>2, <1>5, SizesAssumption
  <2> QED
    BY <1>1, <2>1 DEF Placed
<1>8. \A i \in Live(m), b \in Links : head(i) # fat[b]
  BY <1>2, <1>4, <1>5, SizesAssumption
<1>9. ASSUME NEW b \in Blocks, fat[b] # Free
      PROVE  (\E i \in Live(m) : b = head(i)) \/ \E c \in Links : b = fat[c]
  <2>1. CASE bo[b] = 0
    <3>1. own[b] \in Live(m)
      BY <1>1, <1>9 DEF Placed
    <3>2. b = head(own[b])
      BY <1>1, <1>4, <1>9, <2>1, <3>1 DEF Placed
    <3> QED
      BY <3>1, <3>2
  <2>2. CASE bo[b] > 0
    <3>1. PICK c \in Blocks : fat[c] # Free /\ fat[c] = b
      BY <1>1, <1>9, <2>2 DEF Placed
    <3> QED
      BY <1>3, <3>1
  <2> QED
    BY <1>2, <2>1, <2>2
<1>10. \A b \in Blocks : b \notin FreeBlocks(m) <=> fat[b] # Free
  BY DEF FreeBlocks
<1>11. \A b \in Blocks : b \notin FreeBlocks(m) <=>
          (\E i \in Live(m) : b = head(i)) \/ \E c \in Links : b = fat[c]
  BY <1>4, <1>5, <1>9, <1>10
<1> QED
  BY <1>6, <1>7, <1>8, <1>11 DEF ClaimedOnce

LEMMA Invariance == Spec => [](TypeInv /\ ChainInv)
<1>1. Init => TypeInv
  BY InitTypeInv
<1>2. Init => ChainInv
  BY ZeroImageRests DEF Init, ChainInv, DiskInv, InFlight
<1>3. TypeInv /\ ChainInv /\ [Next]_vars => (TypeInv /\ ChainInv)'
  BY TypeStep, ChainStep
<1> QED
  BY <1>1, <1>2, <1>3, PTL DEF Spec

(* Whatever commands, kills and overlapping invocations come in whatever   *)
(* order, create_file, write_file and delete_file leave every block in use *)
(* claimed by exactly one directory entry or link and every other block    *)
(* free, until block 0 is linked behind another block, the empty name is   *)
(* used, or a save is cut short or overlapped.                             *)
THEOREM ClaimsCorrect == Spec => []BlocksClaimedOnce
<1>1. TypeInv /\ ChainInv => BlocksClaimedOnce
  <2> SUFFICES ASSUME TypeInv, ChainInv, Undamaged, NEW img \in AtRest
               PROVE  ClaimedOnce(img)
    BY DEF BlocksClaimedOnce
  <2>1. img \in FileSystem /\ Resting(img)
    BY DEF AtRest, ChainInv, DiskInv, InFlight, TypeInv, TypeOK
  <2> QED
    BY <2>1, RestingClaimedOnce
<1> QED
  BY <1>1, Invariance, PTL

(* Under the same condition every iteration of the loop of delete_file     *)
(* frees a block that was in use, so the loop cannot go round for ever.    *)
THEOREM DeleteProgresses == Spec => []DeleteFreesUsedBlocks
<1>1. TypeInv /\ ChainInv => DeleteFreesUsedBlocks
  <2> SUFFICES ASSUME TypeInv, ChainInv, Undamaged, NEW p \in Procs,
                      pc[p] = "free", loc[p].block # EOF
               PROVE  loc[p].block \notin FreeBlocks(mem[p])
    BY DEF DeleteFreesUsedBlocks
  <2>1. Freeing(mem[p], loc[p]) /\ mem[p] \in FileSystem /\ loc[p] \in Locals
    BY DEF ChainInv, InFlight, TypeInv, TypeOK
  <2>2. mem[p].fat_table[loc[p].block] # Free
    BY <2>1, BlockFrees
  <2> QED
    BY <2>2 DEF FreeBlocks
<1> QED
  BY <1>1, Invariance, PTL

=============================================================================
