------------------------------ MODULE JosFsProofs -----------------------------
(***************************************************************************)
(* Proofs about JosFs, for any number of files, blocks and crashes.        *)
(***************************************************************************)
EXTENDS JosFs, WellFoundedInduction, TLAPS

\* Blocks and slots: <<g, k>> for block k of file g, <<g, -1>> for its indirect
\* block.
Numbers == 0..NBLOCKS
Size == NDIRECT + NINDIRECT
AllSlots == Files \X (-1..(Size - 1))
FSlot(g) == <<g, -1>>
DSlot(g, k) == <<g, k>>
ISlot(g, e) == <<g, e + NDIRECT>>

\* An image of the disk.
FileStruct == [size : 0..Size, direct : [Direct -> Numbers], indirect : Numbers]
Image == [bitmap : SUBSET Blocks, dir : [Files -> FileStruct], ind : [Blocks -> [Entry -> Numbers]]]

Types ==
  /\ mem \in Image /\ disk \in Image
  /\ pc \in {"serve", "clear", "slot", "flush", "sync", "panic"}
  /\ f \in Files \cup {NoFile}
  /\ clean \in [Files -> BOOLEAN] /\ cut \in SUBSET (Files \cup {NoFile})

\* Where the server is.  A File structure on the disk lags behind the cache
\* only by the blocks allocated since, and the bitmap only by the blocks freed.
Control ==
  /\ pc \in {"clear", "slot", "flush"} => f \in Files
  /\ pc \in {"clear", "slot"} => /\ mem.dir[f].indirect # 0
                                 /\ bno \in NDIRECT..(Size - 1)
  /\ pc = "clear" => disk.dir[f].indirect = 0 /\ ~clean[f]
  /\ pc = "flush" => disk.dir = mem.dir
  /\ disk.bitmap \subseteq mem.bitmap
  /\ \A g \in Files :
       /\ disk.dir[g].size = mem.dir[g].size
       /\ disk.dir[g].indirect \in {0, mem.dir[g].indirect}
       /\ \A k \in Direct : disk.dir[g].direct[k] \in {0, mem.dir[g].direct[k]}

\* The numbers in the slots of the image m; the entries of the indirect block of
\* file z, which is about to be cleared, do not count.
CacheOf(m, z) == [s \in AllSlots |-> IF s[1] = z /\ s[2] >= NDIRECT THEN 0 ELSE At(m, s)]

\* The file whose indirect block is about to be cleared.
Target == IF pc = "clear" THEN f ELSE NoFile
Cache == CacheOf(mem, Target)

\* The blocks that v gives to the slots are in use, and different.
Apart(v, B) ==
  /\ \A s \in AllSlots : v[s] # 0 => v[s] \notin B
  /\ \A s, t \in AllSlots : v[s] # 0 /\ v[s] = v[t] => s = t

\* An indirect block on the disk lags behind the cache only by the blocks
\* allocated since, unless the file has been cut.
IndirectLags ==
  \A g \in Files \ cut :
    g # Target /\ mem.dir[g].indirect # 0 =>
      \A e \in Entry :
        disk.ind[mem.dir[g].indirect][e] \in {0, mem.ind[mem.dir[g].indirect][e]}

\* A file that is clean has all its block numbers on the disk.
CleanFiles ==
  \A g \in Files : clean[g] =>
    /\ disk.dir[g] = mem.dir[g]
    /\ mem.dir[g].indirect # 0 =>
         disk.ind[mem.dir[g].indirect] = mem.ind[mem.dir[g].indirect]

\* Until a crash has hit a file that was cut short.
Cached == Apart(Cache, mem.bitmap) /\ IndirectLags /\ CleanFiles

IInv == Types /\ Control /\ (NoFile \notin cut => Cached)

-------------------------------------------------------------------------------

-------------------------------------------------------------------------------
(***************************************************************************)
(* Blocks, slots and images                                                *)
(***************************************************************************)

\* A set of numbers that is not empty has a least one, which alloc_block takes.
LEMMA MinIn ==
  ASSUME NEW B, B \subseteq Nat, B # {}
  PROVE  Min(B) \in B
<1> DEFINE R == OpToRel(<, Nat)
<1>1. IsWellFoundedOn(R, Nat)
  BY NatLessThanWellFounded
<1>2. \A x, y \in Nat : <<y, x>> \in R <=> y < x
  BY DEF OpToRel
<1> HIDE DEF R
<1>3. \E x \in B : \A y \in B : ~(<<y, x>> \in R)
  BY <1>1, WFMin, Zenon
<1>4. PICK x \in B : \A y \in B : ~(<<y, x>> \in R)
  BY <1>3
<1>5. \A y \in B : x =< y
  <2> TAKE y \in B
  <2>1. x \in Nat /\ y \in Nat
    OBVIOUS
  <2>2. ~(y < x)
    BY <1>2, <1>4, <2>1, Zenon
  <2> QED BY <2>1, <2>2
<1> QED BY <1>5, Zenon DEF Min

\* The ranges of numbers.
LEMMA Ranges ==
  /\ NDIRECT \in Nat /\ NDIRECT > 0 /\ NINDIRECT \in Nat /\ NINDIRECT > 0
  /\ Size \in Nat /\ Size = NDIRECT + NINDIRECT /\ NBLOCKS \in Nat
  /\ Blocks \subseteq Numbers /\ 0 \notin Blocks /\ Blocks \subseteq Nat /\ 0 \in Numbers
  /\ \A b \in Numbers : b # 0 => b \in Blocks
BY FsConstants DEF Size, Numbers, Blocks

\* A block of a file is in the File structure or in the indirect block.
LEMMA Index ==
  ASSUME NEW k \in 0..(Size - 1)
  PROVE  \/ k \in Direct /\ k < NDIRECT
         \/ ~(k < NDIRECT) /\ \E e \in Entry : k = e + NDIRECT /\ k - NDIRECT = e
<1>1. CASE k < NDIRECT
  BY <1>1, Ranges DEF Direct
<1>2. CASE ~(k < NDIRECT)
  <2>1. k - NDIRECT \in Entry /\ k = (k - NDIRECT) + NDIRECT
    BY <1>2, Ranges DEF Entry
  <2> QED BY <1>2, <2>1
<1> QED BY <1>1, <1>2

\* What the slots of an image hold.
LEMMA Slot ==
  ASSUME NEW m, NEW g \in Files
  PROVE  /\ FSlot(g) \in AllSlots /\ At(m, FSlot(g)) = m.dir[g].indirect
         /\ \A k \in Direct : DSlot(g, k) \in AllSlots /\ At(m, DSlot(g, k)) = m.dir[g].direct[k]
         /\ \A e \in Entry : /\ ISlot(g, e) \in AllSlots
                              /\ At(m, ISlot(g, e)) = IF m.dir[g].indirect = 0 THEN 0
                                                      ELSE m.ind[m.dir[g].indirect][e]
<1>1. FSlot(g) \in AllSlots /\ At(m, FSlot(g)) = m.dir[g].indirect
  BY Ranges DEF FSlot, AllSlots, At
<1>2. ASSUME NEW k \in Direct
      PROVE  DSlot(g, k) \in AllSlots /\ At(m, DSlot(g, k)) = m.dir[g].direct[k]
  <2>1. k \in -1..(Size - 1) /\ k # -1 /\ k < NDIRECT
    BY Ranges DEF Direct
  <2> QED BY <2>1 DEF DSlot, AllSlots, At, DiskBno
<1>3. ASSUME NEW e \in Entry
      PROVE  /\ ISlot(g, e) \in AllSlots
             /\ At(m, ISlot(g, e)) = IF m.dir[g].indirect = 0 THEN 0
                                     ELSE m.ind[m.dir[g].indirect][e]
  <2> DEFINE k == e + NDIRECT
  <2>1. k \in -1..(Size - 1) /\ k # -1 /\ ~(k < NDIRECT) /\ k - NDIRECT = e
    BY Ranges DEF Entry
  <2> HIDE DEF k
  <2>2. ISlot(g, e) = <<g, k>>
    BY DEF ISlot, k
  <2> QED BY <2>1, <2>2 DEF AllSlots, At, DiskBno
<1> QED BY <1>1, <1>2, <1>3

\* There are three kinds of slots.
LEMMA Kinds ==
  ASSUME NEW s \in AllSlots
  PROVE  \E g \in Files : \/ s = FSlot(g)
                          \/ \E k \in Direct : s = DSlot(g, k)
                          \/ \E e \in Entry : s = ISlot(g, e)
<1>1. PICK g \in Files, k \in -1..(Size - 1) : s = <<g, k>>
  BY DEF AllSlots
<1>2. k = -1 \/ k \in 0..(Size - 1)
  BY Ranges
<1>3. CASE k = -1
  BY <1>1, <1>3 DEF FSlot
<1>4. CASE k \in 0..(Size - 1)
  BY <1>1, <1>4, Index DEF DSlot, ISlot
<1> QED BY <1>2, <1>3, <1>4

\* Slots of different kinds, files or places are different.
LEMMA Distinct ==
  /\ \A g, h \in Files : FSlot(g) = FSlot(h) => g = h
  /\ \A g, h \in Files, k, l \in Direct : DSlot(g, k) = DSlot(h, l) => g = h /\ k = l
  /\ \A g, h \in Files, d, e \in Entry : ISlot(g, d) = ISlot(h, e) => g = h /\ d = e
  /\ \A g, h \in Files, k \in Direct : FSlot(g) # DSlot(h, k)
  /\ \A g, h \in Files, e \in Entry : FSlot(g) # ISlot(h, e)
  /\ \A g, h \in Files, k \in Direct, e \in Entry : DSlot(g, k) # ISlot(h, e)
<1>1. \A d, e \in Entry : d + NDIRECT = e + NDIRECT => d = e
  BY Ranges DEF Entry
<1>2. \A k \in Direct, e \in Entry : k # e + NDIRECT /\ k # -1 /\ e + NDIRECT # -1
  BY Ranges DEF Entry, Direct
<1>3. \A g, h \in Files : FSlot(g) = FSlot(h) => g = h
  BY DEF FSlot
<1>4. \A g, h \in Files, k, l \in Direct : DSlot(g, k) = DSlot(h, l) => g = h /\ k = l
  BY DEF DSlot
<1>5. \A g, h \in Files, d, e \in Entry : ISlot(g, d) = ISlot(h, e) => g = h /\ d = e
  BY <1>1 DEF ISlot
<1>6. \A g, h \in Files, k \in Direct : FSlot(g) # DSlot(h, k)
  BY <1>2, Ranges DEF FSlot, DSlot, Entry, Direct
<1>7. \A g, h \in Files, e \in Entry : FSlot(g) # ISlot(h, e)
  BY Ranges DEF FSlot, ISlot, Entry
<1>8. \A g, h \in Files, k \in Direct, e \in Entry : DSlot(g, k) # ISlot(h, e)
  BY <1>2 DEF DSlot, ISlot
<1> QED BY <1>3, <1>4, <1>5, <1>6, <1>7, <1>8

\* What holds of the slots of the three kinds holds of all.
LEMMA EverySlot ==
  ASSUME NEW S,
         \A g \in Files : FSlot(g) \in S,
         \A g \in Files, k \in Direct : DSlot(g, k) \in S,
         \A g \in Files, e \in Entry : ISlot(g, e) \in S
  PROVE  \A s \in AllSlots : s \in S
<1> TAKE s \in AllSlots
<1>1. PICK g \in Files : \/ s = FSlot(g)
                         \/ \E k \in Direct : s = DSlot(g, k)
                         \/ \E e \in Entry : s = ISlot(g, e)
  BY Kinds
<1> QED BY <1>1

\* A block that was free is put in one slot.
LEMMA Grows ==
  ASSUME NEW v, NEW w, NEW B, NEW b \in B, b # 0, Apart(v, B), NEW z \in AllSlots, w[z] = b,
         \A s \in AllSlots : s # z => w[s] = 0 \/ w[s] = v[s]
  PROVE  Apart(w, B \ {b})
BY DEF Apart

\* Blocks that are given up leave the others apart.
LEMMA ShrinkSlots ==
  ASSUME NEW v, NEW w, NEW B, NEW C, Apart(v, B), C \subseteq B,
         \A g \in Files : w[FSlot(g)] \in {0, v[FSlot(g)]},
         \A g \in Files, k \in Direct : w[DSlot(g, k)] \in {0, v[DSlot(g, k)]},
         \A g \in Files, e \in Entry : w[ISlot(g, e)] \in {0, v[ISlot(g, e)]}
  PROVE  Apart(w, C)
<1> DEFINE S == {s \in AllSlots : w[s] \in {0, v[s]}}
<1>1. \A s \in AllSlots : s \in S
  <2>1. \A g \in Files : FSlot(g) \in S
    BY Slot, Zenon
  <2>2. \A g \in Files, k \in Direct : DSlot(g, k) \in S
    BY Slot
  <2>3. \A g \in Files, e \in Entry : ISlot(g, e) \in S
    BY Slot
  <2> HIDE DEF S
  <2> QED BY <2>1, <2>2, <2>3, EverySlot
<1>2. \A s \in AllSlots : w[s] = 0 \/ w[s] = v[s]
  BY <1>1
<1> HIDE DEF S
<1> QED BY <1>2 DEF Apart

\* Only slot z changes, and gets a block that was free.
LEMMA GrowSlots ==
  ASSUME NEW v, NEW w, NEW B, NEW b \in B, b # 0, Apart(v, B), NEW z \in AllSlots, w[z] = b,
         \A g \in Files : FSlot(g) # z => w[FSlot(g)] \in {0, v[FSlot(g)]},
         \A g \in Files, k \in Direct : DSlot(g, k) # z => w[DSlot(g, k)] \in {0, v[DSlot(g, k)]},
         \A g \in Files, e \in Entry : ISlot(g, e) # z => w[ISlot(g, e)] \in {0, v[ISlot(g, e)]}
  PROVE  Apart(w, B \ {b})
<1> DEFINE S == {s \in AllSlots : s # z => w[s] \in {0, v[s]}}
<1>1. \A s \in AllSlots : s \in S
  <2>1. \A g \in Files : FSlot(g) \in S
    BY Slot
  <2>2. \A g \in Files, k \in Direct : DSlot(g, k) \in S
    BY Slot
  <2>3. \A g \in Files, e \in Entry : ISlot(g, e) \in S
    BY Slot
  <2> HIDE DEF S
  <2> QED BY <2>1, <2>2, <2>3, EverySlot
<1>2. \A s \in AllSlots : s # z => w[s] = 0 \/ w[s] = v[s]
  BY <1>1
<1> HIDE DEF S
<1> QED BY <1>2, Grows

\* The number in a slot of the cache.
LEMMA CacheSlot ==
  ASSUME NEW m, NEW z, NEW g \in Files
  PROVE  /\ CacheOf(m, z)[FSlot(g)] = m.dir[g].indirect
         /\ \A k \in Direct : CacheOf(m, z)[DSlot(g, k)] = m.dir[g].direct[k]
         /\ \A e \in Entry : CacheOf(m, z)[ISlot(g, e)] =
                               IF m.dir[g].indirect = 0 \/ g = z THEN 0
                               ELSE m.ind[m.dir[g].indirect][e]
<1>1. CacheOf(m, z)[FSlot(g)] = m.dir[g].indirect
  <2>1. ~(FSlot(g)[2] >= NDIRECT)
    BY Ranges DEF FSlot
  <2> QED BY <2>1, Slot DEF CacheOf
<1>2. ASSUME NEW k \in Direct PROVE CacheOf(m, z)[DSlot(g, k)] = m.dir[g].direct[k]
  <2>1. ~(DSlot(g, k)[2] >= NDIRECT)
    BY Ranges DEF DSlot, Direct
  <2> QED BY <2>1, Slot DEF CacheOf
<1>3. ASSUME NEW e \in Entry
      PROVE  CacheOf(m, z)[ISlot(g, e)] = IF m.dir[g].indirect = 0 \/ g = z THEN 0
                                          ELSE m.ind[m.dir[g].indirect][e]
  <2>1. ISlot(g, e)[2] >= NDIRECT /\ ISlot(g, e)[1] = g
    BY Ranges DEF ISlot, Entry
  <2>2. ISlot(g, e) \in AllSlots
    BY Slot
  <2>3. CacheOf(m, z)[ISlot(g, e)] = IF g = z THEN 0 ELSE At(m, ISlot(g, e))
    BY <2>1, <2>2 DEF CacheOf
  <2> QED BY <2>3, Slot
<1> QED BY <1>1, <1>2, <1>3

\* The same, for an entry of an indirect block that counts.
LEMMA CacheEntry ==
  ASSUME NEW m, NEW z, NEW g \in Files, NEW e \in Entry, m.dir[g].indirect # 0, g # z
  PROVE  CacheOf(m, z)[ISlot(g, e)] = m.ind[m.dir[g].indirect][e]
BY CacheSlot

\* No two files have the same indirect block.
LEMMA IndirectApart ==
  ASSUME NEW m, NEW z, NEW B, Apart(CacheOf(m, z), B), NEW g \in Files, NEW h \in Files,
         m.dir[g].indirect # 0, m.dir[g].indirect = m.dir[h].indirect
  PROVE  g = h
<1>1. FSlot(g) \in AllSlots /\ FSlot(h) \in AllSlots
  BY Slot
<1>2. /\ CacheOf(m, z)[FSlot(g)] = m.dir[g].indirect
      /\ CacheOf(m, z)[FSlot(h)] = m.dir[h].indirect
  BY CacheSlot
<1>3. FSlot(g) = FSlot(h)
  BY <1>1, <1>2 DEF Apart
<1> QED BY <1>3, Distinct

\* The parts of an image.
LEMMA Parts ==
  ASSUME NEW m \in Image
  PROVE  /\ m.bitmap \subseteq Blocks
         /\ m.dir \in [Files -> FileStruct] /\ m.ind \in [Blocks -> [Entry -> Numbers]]
         /\ \A b \in Blocks, k \in Entry : m.ind[b][k] \in Numbers
         /\ \A g \in Files : /\ m.dir[g] \in FileStruct
                             /\ m.dir[g].size \in 0..Size
                             /\ m.dir[g].direct \in [Direct -> Numbers]
                             /\ m.dir[g].indirect \in Numbers
                             /\ m.dir[g].indirect # 0 => m.dir[g].indirect \in Blocks
<1>1. /\ m.bitmap \subseteq Blocks
      /\ m.dir \in [Files -> FileStruct] /\ m.ind \in [Blocks -> [Entry -> Numbers]]
  BY DEF Image
<1>2. \A b \in Blocks, k \in Entry : m.ind[b][k] \in Numbers
  BY <1>1
<1>3. ASSUME NEW g \in Files
      PROVE  /\ m.dir[g] \in FileStruct
             /\ m.dir[g].size \in 0..Size
             /\ m.dir[g].direct \in [Direct -> Numbers]
             /\ m.dir[g].indirect \in Numbers
             /\ m.dir[g].indirect # 0 => m.dir[g].indirect \in Blocks
  <2>1. m.dir[g] \in FileStruct
    BY <1>1
  <2>2. /\ m.dir[g].size \in 0..Size
        /\ m.dir[g].direct \in [Direct -> Numbers]
        /\ m.dir[g].indirect \in Numbers
    BY <2>1 DEF FileStruct
  <2> QED BY <2>1, <2>2, Ranges, Zenon
<1> QED BY <1>1, <1>3, <1>2

\* Every number in a slot is the number of a block, or 0.
LEMMA SlotType ==
  ASSUME NEW m \in Image, NEW g \in Files, NEW k \in 0..(Size - 1)
  PROVE  DiskBno(m, g, k) \in Numbers
<1>1. CASE k \in Direct /\ k < NDIRECT
  <2>1. m.dir[g].direct[k] \in Numbers
    BY <1>1, Parts
  <2> QED BY <1>1, <2>1 DEF DiskBno
<1>2. ASSUME NEW e \in Entry, ~(k < NDIRECT), k - NDIRECT = e PROVE DiskBno(m, g, k) \in Numbers
  <2>1. m.dir[g].indirect # 0 => m.ind[m.dir[g].indirect][e] \in Numbers
    BY Parts
  <2> QED BY <1>2, <2>1, Ranges DEF DiskBno
<1> QED BY <1>1, <1>2, Index

\* The parts of an image of which one part is written.
LEMMA WritePart ==
  ASSUME NEW m \in Image
  PROVE  /\ \A B \in SUBSET Blocks :
              [m EXCEPT !.bitmap = B] = [bitmap |-> B, dir |-> m.dir, ind |-> m.ind]
         /\ \A D \in [Files -> FileStruct] :
              [m EXCEPT !.dir = D] = [bitmap |-> m.bitmap, dir |-> D, ind |-> m.ind]
         /\ \A I \in [Blocks -> [Entry -> Numbers]] :
              [m EXCEPT !.ind = I] = [bitmap |-> m.bitmap, dir |-> m.dir, ind |-> I]
BY DEF Image

\* The number of the indirect block stored in a File structure.
LEMMA SetIndirect ==
  ASSUME NEW m \in Image, NEW g \in Files, NEW b \in Numbers
  PROVE  LET n == [m EXCEPT !.dir[g].indirect = b]
         IN  /\ n \in Image /\ n.bitmap = m.bitmap /\ n.ind = m.ind
             /\ \A h \in Files : /\ n.dir[h].size = m.dir[h].size
                                 /\ n.dir[h].direct = m.dir[h].direct
                                 /\ n.dir[h].indirect = IF h = g THEN b ELSE m.dir[h].indirect
                                 /\ h # g => n.dir[h] = m.dir[h]
<1> DEFINE old == m.dir[g]
           new == [size |-> old.size, direct |-> old.direct, indirect |-> b]
           D == [m.dir EXCEPT ![g] = new]
           n == [m EXCEPT !.dir[g].indirect = b]
<1>1. /\ m.bitmap \in SUBSET Blocks /\ m.dir \in [Files -> FileStruct]
      /\ m.ind \in [Blocks -> [Entry -> Numbers]] /\ old \in FileStruct
  BY Parts
<1>2. new \in FileStruct /\ [old EXCEPT !.indirect = b] = new
  BY <1>1 DEF FileStruct
<1>3. D \in [Files -> FileStruct] /\ \A h \in Files : D[h] = IF h = g THEN new ELSE m.dir[h]
  BY <1>1, <1>2
<1>4. n = [m EXCEPT !.dir = D]
  BY <1>2
<1>5. n = [bitmap |-> m.bitmap, dir |-> D, ind |-> m.ind]
  BY <1>3, <1>4, WritePart
<1>6. n \in Image
  BY <1>1, <1>3, <1>5 DEF Image
<1>7. n.bitmap = m.bitmap /\ n.ind = m.ind /\ n.dir = D
  BY <1>5
<1> QED BY <1>3, <1>6, <1>7

\* A number stored among the direct ones of a File structure.
PutDirect(m, g, k, b) == [m EXCEPT !.dir[g].direct[k] = b]

\* What that changes.
LEMMA SetDirect ==
  ASSUME NEW m \in Image, NEW g \in Files, NEW k \in Direct, NEW b \in Numbers,
         NEW n, n = PutDirect(m, g, k, b)
  PROVE  /\ n \in Image /\ n.bitmap = m.bitmap /\ n.ind = m.ind
         /\ \A h \in Files :
              /\ n.dir[h].size = m.dir[h].size
              /\ n.dir[h].indirect = m.dir[h].indirect
              /\ \A l \in Direct : n.dir[h].direct[l] = IF h = g /\ l = k THEN b
                                                        ELSE m.dir[h].direct[l]
              /\ h # g => n.dir[h] = m.dir[h]
<1> DEFINE old == m.dir[g]
           dir == [old.direct EXCEPT ![k] = b]
           new == [size |-> old.size, direct |-> dir, indirect |-> old.indirect]
           D == [m.dir EXCEPT ![g] = new]
<1>1. /\ m.bitmap \in SUBSET Blocks /\ m.dir \in [Files -> FileStruct]
      /\ m.ind \in [Blocks -> [Entry -> Numbers]] /\ old \in FileStruct
      /\ old.direct \in [Direct -> Numbers]
  BY Parts
<1>2. dir \in [Direct -> Numbers] /\ \A l \in Direct : dir[l] = IF l = k THEN b ELSE old.direct[l]
  BY <1>1
<1> HIDE DEF dir
<1>3. new \in FileStruct /\ [old EXCEPT !.direct = dir] = new
  BY <1>1, <1>2 DEF FileStruct
<1>4. D \in [Files -> FileStruct] /\ \A h \in Files : D[h] = IF h = g THEN new ELSE m.dir[h]
  BY <1>1, <1>3
<1>5. n = [m EXCEPT !.dir = D]
  BY <1>3 DEF dir, PutDirect
<1>6. n = [bitmap |-> m.bitmap, dir |-> D, ind |-> m.ind]
  BY <1>4, <1>5, WritePart
<1>7. n \in Image
  BY <1>1, <1>4, <1>6 DEF Image
<1>8. n.bitmap = m.bitmap /\ n.ind = m.ind /\ n.dir = D
  BY <1>6
<1> HIDE DEF D
<1>9. ASSUME NEW h \in Files
      PROVE  /\ n.dir[h].size = m.dir[h].size
             /\ n.dir[h].indirect = m.dir[h].indirect
             /\ \A l \in Direct : n.dir[h].direct[l] = IF h = g /\ l = k THEN b
                                                       ELSE m.dir[h].direct[l]
             /\ h # g => n.dir[h] = m.dir[h]
  <2>1. n.dir[h] = IF h = g THEN new ELSE m.dir[h]
    BY <1>4, <1>8
  <2>2. CASE h = g
    BY <1>2, <2>1, <2>2
  <2>3. CASE h # g
    BY <2>1, <2>3
  <2> QED BY <2>2, <2>3
<1> QED BY <1>7, <1>8, <1>9

\* An indirect block that is written.
LEMMA SetBlock ==
  ASSUME NEW m \in Image, NEW b \in Blocks, NEW e \in [Entry -> Numbers]
  PROVE  LET n == [m EXCEPT !.ind[b] = e]
         IN  /\ n \in Image /\ n.bitmap = m.bitmap /\ n.dir = m.dir
             /\ \A c \in Blocks : n.ind[c] = IF c = b THEN e ELSE m.ind[c]
<1> DEFINE I == [m.ind EXCEPT ![b] = e]
           n == [m EXCEPT !.ind[b] = e]
<1>1. /\ m.bitmap \in SUBSET Blocks /\ m.dir \in [Files -> FileStruct]
      /\ m.ind \in [Blocks -> [Entry -> Numbers]]
  BY Parts
<1>2. I \in [Blocks -> [Entry -> Numbers]] /\ \A c \in Blocks : I[c] = IF c = b THEN e ELSE m.ind[c]
  BY <1>1
<1>3. n = [m EXCEPT !.ind = I]
  OBVIOUS
<1>4. n = [bitmap |-> m.bitmap, dir |-> m.dir, ind |-> I]
  BY <1>2, <1>3, WritePart
<1>5. n \in Image
  BY <1>1, <1>2, <1>4, Zenon DEF Image
<1>6. n.bitmap = m.bitmap /\ n.dir = m.dir /\ n.ind = I
  BY <1>4
<1> QED BY <1>2, <1>5, <1>6

\* A number stored in an indirect block.
LEMMA SetEntry ==
  ASSUME NEW m \in Image, NEW b \in Blocks, NEW k \in Entry, NEW x \in Numbers
  PROVE  LET n == [m EXCEPT !.ind[b][k] = x]
         IN  /\ n \in Image /\ n.bitmap = m.bitmap /\ n.dir = m.dir
             /\ \A c \in Blocks : c # b => n.ind[c] = m.ind[c]
             /\ \A l \in Entry : n.ind[b][l] = IF l = k THEN x ELSE m.ind[b][l]
<1> DEFINE e == [m.ind[b] EXCEPT ![k] = x]
           n == [m EXCEPT !.ind[b][k] = x]
<1>1. m.ind[b] \in [Entry -> Numbers]
  BY Parts
<1>2. e \in [Entry -> Numbers] /\ \A l \in Entry : e[l] = IF l = k THEN x ELSE m.ind[b][l]
  BY <1>1
<1>3. n = [m EXCEPT !.ind[b] = e]
  OBVIOUS
<1> HIDE DEF e, n
<1>4. /\ n \in Image /\ n.bitmap = m.bitmap /\ n.dir = m.dir
      /\ \A c \in Blocks : n.ind[c] = IF c = b THEN e ELSE m.ind[c]
  BY <1>2, <1>3, SetBlock
<1> QED BY <1>2, <1>4 DEF n

\* The bitmap is written.
LEMMA SetBitmap ==
  ASSUME NEW m \in Image, NEW B \in SUBSET Blocks
  PROVE  LET n == [m EXCEPT !.bitmap = B]
         IN  n \in Image /\ n.bitmap = B /\ n.dir = m.dir /\ n.ind = m.ind
<1>1. [m EXCEPT !.bitmap = B] = [bitmap |-> B, dir |-> m.dir, ind |-> m.ind]
  BY WritePart
<1>2. /\ m.bitmap \in SUBSET Blocks /\ m.dir \in [Files -> FileStruct]
      /\ m.ind \in [Blocks -> [Entry -> Numbers]]
  BY Parts
<1> QED BY <1>1, <1>2 DEF Image

\* The block of the File structures is written.
LEMMA SetDir ==
  ASSUME NEW m \in Image, NEW D \in [Files -> FileStruct]
  PROVE  LET n == [m EXCEPT !.dir = D]
         IN  n \in Image /\ n.bitmap = m.bitmap /\ n.dir = D /\ n.ind = m.ind
<1>1. [m EXCEPT !.dir = D] = [bitmap |-> m.bitmap, dir |-> D, ind |-> m.ind]
  BY WritePart
<1>2. /\ m.bitmap \in SUBSET Blocks /\ m.dir \in [Files -> FileStruct]
      /\ m.ind \in [Blocks -> [Entry -> Numbers]]
  BY Parts
<1> QED BY <1>1, <1>2 DEF Image

\* The indirect blocks are written.
LEMMA SetInd ==
  ASSUME NEW m \in Image, NEW I \in [Blocks -> [Entry -> Numbers]]
  PROVE  LET n == [m EXCEPT !.ind = I]
         IN  n \in Image /\ n.bitmap = m.bitmap /\ n.dir = m.dir /\ n.ind = I
<1>1. [m EXCEPT !.ind = I] = [bitmap |-> m.bitmap, dir |-> m.dir, ind |-> I]
  BY WritePart
<1>2. /\ m.bitmap \in SUBSET Blocks /\ m.dir \in [Files -> FileStruct]
      /\ m.ind \in [Blocks -> [Entry -> Numbers]]
  BY Parts
<1> QED BY <1>1, <1>2 DEF Image
-------------------------------------------------------------------------------
(***************************************************************************)
(* Each step keeps the invariant                                           *)
(***************************************************************************)

\* While no indirect block is being cleared, all entries count.
LEMMA NoTarget ==
  ASSUME pc # "clear"
  PROVE  Target = NoFile /\ Cache = CacheOf(mem, NoFile) /\ \A g \in Files : g # Target
BY FsConstants DEF Target, Cache

\* What alloc_block does: the block it takes was free, and the bitmap is the
\* same in the cache and on the disk.
LEMMA AllocEffect ==
  ASSUME NEW m \in Image, mem \in Image, disk \in Image,
         m.bitmap = mem.bitmap, mem.bitmap # {}, alloc_block(m)
  PROVE  /\ Min(mem.bitmap) \in mem.bitmap /\ Min(mem.bitmap) # 0
         /\ mem' \in Image /\ mem'.bitmap = mem.bitmap \ {Min(mem.bitmap)}
         /\ mem'.dir = m.dir /\ mem'.ind = m.ind
         /\ disk' \in Image /\ disk'.bitmap = mem'.bitmap
         /\ disk'.dir = disk.dir /\ disk'.ind = disk.ind
<1> DEFINE nb == Min(mem.bitmap)
           B == mem.bitmap \ {nb}
<1>1. mem.bitmap \subseteq Blocks
  BY Parts
<1>2. nb \in mem.bitmap /\ nb # 0
  BY <1>1, MinIn, Ranges, Zenon
<1>3. B \in SUBSET Blocks
  BY <1>1
<1>4. mem' = [m EXCEPT !.bitmap = B] /\ disk' = [disk EXCEPT !.bitmap = B]
  BY DEF alloc_block, Flushed
<1> HIDE DEF B
<1>5. mem' \in Image /\ mem'.bitmap = B /\ mem'.dir = m.dir /\ mem'.ind = m.ind
  BY <1>3, <1>4, SetBitmap
<1>6. disk' \in Image /\ disk'.bitmap = B /\ disk'.dir = disk.dir /\ disk'.ind = disk.ind
  BY <1>3, <1>4, SetBitmap
<1> QED BY <1>2, <1>5, <1>6 DEF B

\* The indirect block is allocated, and does not count until it is cleared.
LEMMA WalkAlloc ==
  ASSUME IInv, NEW g \in Files, NEW k \in 0..(Size - 1), walk_alloc(g, k)
  PROVE  IInv'
<1> DEFINE nb == Min(mem.bitmap)
           m == [mem EXCEPT !.dir[g].indirect = nb]
<1>1. /\ mem \in Image /\ disk \in Image /\ mem.bitmap \subseteq Blocks
      /\ clean \in [Files -> BOOLEAN] /\ cut \in SUBSET (Files \cup {NoFile})
  BY Parts DEF IInv, Types
<1>2. /\ pc = "serve" /\ k >= NDIRECT /\ mem.dir[g].indirect = 0 /\ mem.bitmap # {}
      /\ alloc_block(m) /\ pc' = "clear" /\ f' = g /\ bno' = k
      /\ clean' = [clean EXCEPT ![g] = FALSE] /\ cut' = cut
  BY DEF walk_alloc, Indirect, Needs
<1>3. nb \in mem.bitmap /\ nb \in Numbers
  BY <1>1, <1>2, MinIn, Ranges
<1> HIDE DEF nb
<1>4. /\ m \in Image /\ m.bitmap = mem.bitmap /\ m.ind = mem.ind
      /\ \A h \in Files : /\ m.dir[h].size = mem.dir[h].size
                          /\ m.dir[h].direct = mem.dir[h].direct
                          /\ m.dir[h].indirect = IF h = g THEN nb ELSE mem.dir[h].indirect
                          /\ h # g => m.dir[h] = mem.dir[h]
  BY <1>1, <1>3, SetIndirect
<1> HIDE DEF m
<1>5. /\ nb # 0
      /\ mem' \in Image /\ mem'.bitmap = mem.bitmap \ {nb} /\ mem'.dir = m.dir /\ mem'.ind = mem.ind
      /\ disk' \in Image /\ disk'.bitmap = mem'.bitmap /\ disk'.dir = disk.dir /\ disk'.ind = disk.ind
  BY <1>1, <1>2, <1>4, AllocEffect DEF nb
<1>6. clean' \in [Files -> BOOLEAN] /\ ~clean'[g] /\ \A h \in Files : clean'[h] => h # g /\ clean[h]
  BY <1>1, <1>2
<1>7. Types'
  BY <1>1, <1>2, <1>5, <1>6 DEF Types
<1>8. Control'
  <2>1. bno' \in NDIRECT..(Size - 1)
    BY <1>2, Ranges, SMT, Z3
  <2>2. \A h \in Files : /\ disk.dir[h].size = mem.dir[h].size
                         /\ disk.dir[h].indirect \in {0, mem.dir[h].indirect}
                         /\ \A l \in Direct : disk.dir[h].direct[l] \in {0, mem.dir[h].direct[l]}
    BY Zenon DEF IInv, Control
  <2>3. ASSUME NEW h \in Files
        PROVE  /\ disk'.dir[h].size = mem'.dir[h].size
               /\ disk'.dir[h].indirect \in {0, mem'.dir[h].indirect}
               /\ \A l \in Direct : disk'.dir[h].direct[l] \in {0, mem'.dir[h].direct[l]}
    <3>1. /\ mem'.dir[h].size = mem.dir[h].size /\ mem'.dir[h].direct = mem.dir[h].direct
          /\ h # g => mem'.dir[h].indirect = mem.dir[h].indirect
      BY <1>4, <1>5
    <3>2. /\ disk'.dir[h].size = mem.dir[h].size
          /\ disk'.dir[h].indirect \in {0, mem.dir[h].indirect}
          /\ \A l \in Direct : disk'.dir[h].direct[l] \in {0, mem.dir[h].direct[l]}
      BY <1>5, <2>2, Zenon
    <3>3. disk'.dir[h].indirect \in {0, mem'.dir[h].indirect}
      BY <1>2, <3>1, <3>2
    <3> QED BY <3>1, <3>2, <3>3
  <2>4. mem'.dir[g].indirect # 0 /\ disk'.dir[g].indirect = 0
    BY <1>2, <1>4, <1>5, <2>2
  <2> QED BY <1>2, <1>5, <1>6, <2>1, <2>3, <2>4 DEF Control
<1>9. ASSUME NoFile \notin cut' PROVE Cached'
  <2>1. /\ Apart(CacheOf(mem, NoFile), mem.bitmap) /\ IndirectLags /\ CleanFiles
        /\ \A h \in Files : h # Target /\ h # NoFile
    BY <1>2, <1>9, NoTarget DEF IInv, Cached
  <2> DEFINE v == CacheOf(mem, NoFile)
             w == CacheOf(mem', g)
  <2>2. Target' = g /\ Cache' = w
    BY <1>2 DEF Target, Cache
  <2>3. Apart(w, mem'.bitmap)
    <3>1. /\ FSlot(g) \in AllSlots /\ w[FSlot(g)] = nb
      BY <1>4, <1>5, Slot, CacheSlot
    <3>2. ASSUME NEW h \in Files, FSlot(h) # FSlot(g) PROVE w[FSlot(h)] \in {0, v[FSlot(h)]}
      <4>1. h # g
        BY <3>2
      <4> QED BY <1>4, <1>5, <4>1, CacheSlot
    <3>3. ASSUME NEW h \in Files, NEW l \in Direct PROVE w[DSlot(h, l)] \in {0, v[DSlot(h, l)]}
      BY <1>4, <1>5, CacheSlot
    <3>4. ASSUME NEW h \in Files, NEW e \in Entry PROVE w[ISlot(h, e)] \in {0, v[ISlot(h, e)]}
      <4>1. CASE h = g
        BY <4>1, CacheSlot
      <4>2. CASE h # g
        BY <1>4, <1>5, <2>1, <4>2, CacheSlot
      <4> QED BY <4>1, <4>2
    <3> HIDE DEF v, w
    <3>5. Apart(v, mem.bitmap)
      BY <2>1 DEF v
    <3>6. Apart(w, mem.bitmap \ {nb})
      BY <1>3, <1>5, <3>1, <3>2, <3>3, <3>4, <3>5, GrowSlots
    <3> QED BY <1>5, <3>6
  <2>4. IndirectLags'
    <3> SUFFICES ASSUME NEW h \in Files \ cut', h # Target', mem'.dir[h].indirect # 0,
                        NEW e \in Entry
                 PROVE  disk'.ind[mem'.dir[h].indirect][e]
                          \in {0, mem'.ind[mem'.dir[h].indirect][e]}
      BY Zenon DEF IndirectLags
    <3>1. h # g /\ h \in Files \ cut /\ h # Target
      BY <1>2, <2>1, <2>2
    <3>2. mem'.dir[h].indirect = mem.dir[h].indirect
      BY <1>4, <1>5, <3>1, Zenon
    <3>3. disk.ind[mem.dir[h].indirect][e] \in {0, mem.ind[mem.dir[h].indirect][e]}
      BY <2>1, <3>1, <3>2, Zenon DEF IndirectLags
    <3> QED BY <1>5, <3>2, <3>3, Zenon
  <2>5. CleanFiles'
    <3> SUFFICES ASSUME NEW h \in Files, clean'[h]
                 PROVE  /\ disk'.dir[h] = mem'.dir[h]
                        /\ mem'.dir[h].indirect # 0 =>
                             disk'.ind[mem'.dir[h].indirect] = mem'.ind[mem'.dir[h].indirect]
      BY DEF CleanFiles
    <3>1. h # g /\ clean[h]
      BY <1>6
    <3>2. mem'.dir[h] = mem.dir[h]
      BY <1>4, <1>5, <3>1
    <3> QED BY <1>5, <2>1, <3>1, <3>2 DEF CleanFiles
  <2> QED BY <2>2, <2>3, <2>4, <2>5 DEF Cached
<1> QED BY <1>7, <1>8, <1>9 DEF IInv

\* The indirect block is cleared in the cache and on the disk; no other file has it.
LEMMA Clear ==
  ASSUME IInv, clear
  PROVE  IInv'
<1> DEFINE b == mem.dir[f].indirect
           e0 == [k \in Entry |-> 0]
<1>1. /\ mem \in Image /\ disk \in Image /\ clean \in [Files -> BOOLEAN]
      /\ cut \in SUBSET (Files \cup {NoFile}) /\ f \in Files \cup {NoFile}
  BY DEF IInv, Types
<1>2. /\ pc = "clear" /\ pc' = "slot" /\ f' = f /\ bno' = bno /\ clean' = clean /\ cut' = cut
      /\ mem' = [mem EXCEPT !.ind[b] = e0] /\ disk' = [disk EXCEPT !.ind[b] = e0]
  BY DEF clear
<1>3. /\ f \in Files /\ b # 0 /\ bno \in NDIRECT..(Size - 1) /\ ~clean[f]
      /\ disk.bitmap \subseteq mem.bitmap
  BY <1>2 DEF IInv, Control
<1>4. b \in Blocks /\ e0 \in [Entry -> Numbers] /\ \A e \in Entry : e0[e] = 0
  BY <1>1, <1>3, Parts, Ranges
<1> HIDE DEF b, e0
<1>5. /\ mem' \in Image /\ mem'.bitmap = mem.bitmap /\ mem'.dir = mem.dir
      /\ \A c \in Blocks : mem'.ind[c] = IF c = b THEN e0 ELSE mem.ind[c]
  BY <1>1, <1>2, <1>4, SetBlock
<1>6. /\ disk' \in Image /\ disk'.bitmap = disk.bitmap /\ disk'.dir = disk.dir
      /\ \A c \in Blocks : disk'.ind[c] = IF c = b THEN e0 ELSE disk.ind[c]
  BY <1>1, <1>2, <1>4, SetBlock
<1>7. Types'
  BY <1>1, <1>2, <1>5, <1>6, Zenon DEF Types
<1>8. Control'
  BY <1>2, <1>3, <1>5, <1>6 DEF IInv, Control, b
<1>9. ASSUME NoFile \notin cut' PROVE Cached'
  <2>1. /\ Apart(CacheOf(mem, f), mem.bitmap) /\ IndirectLags /\ CleanFiles /\ Target = f
    BY <1>2, <1>9 DEF IInv, Cached, Cache, Target
  <2>2. ASSUME NEW h \in Files, h # f, mem.dir[h].indirect # 0
        PROVE  /\ mem'.ind[mem.dir[h].indirect] = mem.ind[mem.dir[h].indirect]
               /\ disk'.ind[mem.dir[h].indirect] = disk.ind[mem.dir[h].indirect]
    <3>1. mem.dir[h].indirect # b
      BY <1>3, <2>1, <2>2, IndirectApart DEF b
    <3>2. mem.dir[h].indirect \in Blocks
      BY <1>1, <2>2, Parts
    <3> QED BY <1>5, <1>6, <3>1, <3>2
  <2> DEFINE v == CacheOf(mem, f)
             w == CacheOf(mem', NoFile)
  <2>3. Target' = NoFile /\ Cache' = w
    BY <1>2 DEF Target, Cache
  <2>4. Apart(w, mem'.bitmap)
    <3>1. \A h \in Files : w[FSlot(h)] \in {0, v[FSlot(h)]}
      BY <1>5, CacheSlot
    <3>2. ASSUME NEW h \in Files, NEW k \in Direct PROVE w[DSlot(h, k)] \in {0, v[DSlot(h, k)]}
      BY <1>5, CacheSlot
    <3>3. ASSUME NEW h \in Files, NEW e \in Entry PROVE w[ISlot(h, e)] \in {0, v[ISlot(h, e)]}
      <4>1. CASE mem.dir[h].indirect = 0
        BY <1>5, <4>1, CacheSlot
      <4>2. CASE h = f /\ mem.dir[h].indirect # 0
        <5>1. w[ISlot(h, e)] = mem'.ind[b][e] \/ w[ISlot(h, e)] = 0
          BY <1>5, <4>2, CacheSlot, SMT, Z3 DEF b
        <5> QED BY <1>4, <1>5, <5>1
      <4>3. CASE h # f /\ mem.dir[h].indirect # 0
        <5>1. v[ISlot(h, e)] = mem.ind[mem.dir[h].indirect][e]
          BY <4>3, CacheSlot
        <5>2. w[ISlot(h, e)] \in {0, mem'.ind[mem.dir[h].indirect][e]}
          BY <1>5, <4>3, CacheSlot
        <5> QED BY <2>2, <4>3, <5>1, <5>2
      <4> QED BY <4>1, <4>2, <4>3
    <3> HIDE DEF v, w
    <3>4. Apart(v, mem.bitmap)
      BY <2>1, Zenon DEF v
    <3> QED BY <1>5, <3>1, <3>2, <3>3, <3>4, ShrinkSlots
  <2>5. IndirectLags'
    <3> SUFFICES ASSUME NEW h \in Files \ cut', mem'.dir[h].indirect # 0, NEW e \in Entry
                 PROVE  disk'.ind[mem'.dir[h].indirect][e]
                          \in {0, mem'.ind[mem'.dir[h].indirect][e]}
      BY Zenon DEF IndirectLags
    <3>1. CASE h = f
      BY <1>4, <1>5, <1>6, <3>1, Zenon DEF b
    <3>2. CASE h # f
      <4>1. disk.ind[mem.dir[h].indirect][e] \in {0, mem.ind[mem.dir[h].indirect][e]}
        BY <1>2, <1>5, <2>1, <3>2, Zenon DEF IndirectLags
      <4> QED BY <1>5, <2>2, <3>2, <4>1, Zenon
    <3> QED BY <3>1, <3>2, Zenon
  <2>6. CleanFiles'
    <3> SUFFICES ASSUME NEW h \in Files, clean'[h]
                 PROVE  /\ disk'.dir[h] = mem'.dir[h]
                        /\ mem'.dir[h].indirect # 0 =>
                             disk'.ind[mem'.dir[h].indirect] = mem'.ind[mem'.dir[h].indirect]
      BY DEF CleanFiles
    <3>1. h # f /\ clean[h]
      BY <1>2, <1>3
    <3>2. /\ disk.dir[h] = mem.dir[h]
          /\ mem.dir[h].indirect # 0 =>
               disk.ind[mem.dir[h].indirect] = mem.ind[mem.dir[h].indirect]
      BY <2>1, <3>1 DEF CleanFiles
    <3> QED BY <1>5, <1>6, <2>2, <3>1, <3>2
  <2> QED BY <2>3, <2>4, <2>5, <2>6 DEF Cached
<1> QED BY <1>7, <1>8, <1>9 DEF IInv

\* A number goes into a slot of the File structure.
LEMMA SlotDirect ==
  ASSUME IInv, NEW g \in Files, NEW k \in Direct, k < NDIRECT, slot_alloc(g, k)
  PROVE  IInv'
<1> DEFINE nb == Min(mem.bitmap)
           m == PutDirect(mem, g, k, nb)
<1>1. /\ mem \in Image /\ disk \in Image /\ mem.bitmap \subseteq Blocks
      /\ clean \in [Files -> BOOLEAN] /\ cut \in SUBSET (Files \cup {NoFile})
  BY Parts DEF IInv, Types
<1>2. /\ pc # "clear" /\ mem.dir[g].direct[k] = 0 /\ mem.bitmap # {}
      /\ alloc_block(m) /\ pc' = "serve" /\ f' = NoFile
      /\ clean' = [clean EXCEPT ![g] = FALSE] /\ cut' = cut
  BY DEF slot_alloc, Found, Needs, DiskBno, Stored, Return, PutDirect
<1>3. nb \in mem.bitmap /\ nb \in Numbers
  BY <1>1, <1>2, MinIn, Ranges, Zenon
<1> HIDE DEF nb
<1>4. /\ m \in Image /\ m.bitmap = mem.bitmap /\ m.ind = mem.ind
      /\ \A h \in Files :
           /\ m.dir[h].size = mem.dir[h].size
           /\ m.dir[h].indirect = mem.dir[h].indirect
           /\ \A l \in Direct : m.dir[h].direct[l] = IF h = g /\ l = k THEN nb
                                                     ELSE mem.dir[h].direct[l]
           /\ h # g => m.dir[h] = mem.dir[h]
  BY <1>1, <1>3, SetDirect
<1> HIDE DEF m
<1>5. /\ nb # 0
      /\ mem' \in Image /\ mem'.bitmap = mem.bitmap \ {nb} /\ mem'.dir = m.dir /\ mem'.ind = mem.ind
      /\ disk' \in Image /\ disk'.bitmap = mem'.bitmap /\ disk'.dir = disk.dir /\ disk'.ind = disk.ind
  BY <1>1, <1>2, <1>4, AllocEffect DEF nb
<1>6. clean' \in [Files -> BOOLEAN] /\ \A h \in Files : clean'[h] => h # g /\ clean[h]
  BY <1>1, <1>2
<1>7. Types'
  BY <1>1, <1>2, <1>5, <1>6 DEF Types
<1>8. Control'
  <2>1. ASSUME NEW h \in Files
        PROVE  /\ disk'.dir[h].size = mem'.dir[h].size
               /\ disk'.dir[h].indirect \in {0, mem'.dir[h].indirect}
               /\ \A l \in Direct : disk'.dir[h].direct[l] \in {0, mem'.dir[h].direct[l]}
    <3>1. /\ disk'.dir[h].size = mem.dir[h].size
          /\ disk'.dir[h].indirect \in {0, mem.dir[h].indirect}
          /\ \A l \in Direct : disk'.dir[h].direct[l] \in {0, mem.dir[h].direct[l]}
      BY <1>5 DEF IInv, Control
    <3>2. mem'.dir[h].size = mem.dir[h].size /\ mem'.dir[h].indirect = mem.dir[h].indirect
      BY <1>4, <1>5, Zenon
    <3>3. ASSUME NEW l \in Direct PROVE disk'.dir[h].direct[l] \in {0, mem'.dir[h].direct[l]}
      <4>1. mem'.dir[h].direct[l] = mem.dir[h].direct[l] \/ mem.dir[h].direct[l] = 0
        BY <1>2, <1>4, <1>5
      <4> QED BY <3>1, <4>1
    <3> QED BY <3>1, <3>2, <3>3
  <2> QED BY <1>2, <1>5, <2>1, Zenon DEF Control
<1>9. ASSUME NoFile \notin cut' PROVE Cached'
  <2>1. /\ Apart(CacheOf(mem, NoFile), mem.bitmap) /\ IndirectLags /\ CleanFiles
        /\ \A h \in Files : h # Target /\ h # NoFile
    BY <1>2, <1>9, NoTarget DEF IInv, Cached
  <2> DEFINE v == CacheOf(mem, NoFile)
             w == CacheOf(mem', NoFile)
  <2>2. Target' = NoFile /\ Cache' = w
    BY <1>2 DEF Target, Cache
  <2>3. Apart(w, mem'.bitmap)
    <3>1. DSlot(g, k) \in AllSlots /\ w[DSlot(g, k)] = nb
      BY <1>4, <1>5, Slot, CacheSlot
    <3>2. \A h \in Files : w[FSlot(h)] \in {0, v[FSlot(h)]}
      BY <1>4, <1>5, CacheSlot
    <3>3. ASSUME NEW h \in Files, NEW l \in Direct, DSlot(h, l) # DSlot(g, k)
          PROVE  w[DSlot(h, l)] \in {0, v[DSlot(h, l)]}
      <4>1. ~(h = g /\ l = k)
        BY <3>3
      <4> QED BY <1>4, <1>5, <4>1, CacheSlot
    <3>4. ASSUME NEW h \in Files, NEW e \in Entry PROVE w[ISlot(h, e)] \in {0, v[ISlot(h, e)]}
      <4>1. mem'.dir[h].indirect = mem.dir[h].indirect
        BY <1>4, <1>5
      <4>2. CASE mem.dir[h].indirect = 0
        BY <4>1, <4>2, CacheSlot
      <4>3. CASE mem.dir[h].indirect # 0
        <5>1. v[ISlot(h, e)] = mem.ind[mem.dir[h].indirect][e]
          BY <2>1, <4>3, CacheEntry
        <5>2. mem'.dir[h].indirect # 0 /\ h # NoFile
          BY <2>1, <4>1, <4>3
        <5>3. w[ISlot(h, e)] = mem'.ind[mem'.dir[h].indirect][e]
          BY <5>2, CacheEntry
        <5> QED BY <1>5, <4>1, <5>1, <5>3
      <4> QED BY <4>2, <4>3
    <3> HIDE DEF v, w
    <3>5. Apart(v, mem.bitmap)
      BY <2>1 DEF v
    <3>6. Apart(w, mem.bitmap \ {nb})
      BY <1>3, <1>5, <3>1, <3>2, <3>3, <3>4, <3>5, GrowSlots
    <3> QED BY <1>5, <3>6, Zenon
  <2>4. IndirectLags'
    <3> SUFFICES ASSUME NEW h \in Files \ cut', mem'.dir[h].indirect # 0, NEW e \in Entry
                 PROVE  disk'.ind[mem'.dir[h].indirect][e]
                          \in {0, mem'.ind[mem'.dir[h].indirect][e]}
      BY Zenon DEF IndirectLags
    <3>1. mem'.dir[h].indirect = mem.dir[h].indirect
      BY <1>4, <1>5, Zenon
    <3>2. disk.ind[mem.dir[h].indirect][e] \in {0, mem.ind[mem.dir[h].indirect][e]}
      BY <1>2, <2>1, <3>1, Zenon DEF IndirectLags
    <3> QED BY <1>5, <3>1, <3>2, Zenon
  <2>5. CleanFiles'
    <3> SUFFICES ASSUME NEW h \in Files, clean'[h]
                 PROVE  /\ disk'.dir[h] = mem'.dir[h]
                        /\ mem'.dir[h].indirect # 0 =>
                             disk'.ind[mem'.dir[h].indirect] = mem'.ind[mem'.dir[h].indirect]
      BY DEF CleanFiles
    <3>1. h # g /\ clean[h]
      BY <1>6
    <3>2. mem'.dir[h] = mem.dir[h]
      BY <1>4, <1>5, <3>1
    <3> QED BY <1>5, <2>1, <3>1, <3>2 DEF CleanFiles
  <2> QED BY <2>2, <2>3, <2>4, <2>5 DEF Cached
<1> QED BY <1>7, <1>8, <1>9 DEF IInv

\* A number goes into a slot of the indirect block, which no other file has.
LEMMA SlotEntry ==
  ASSUME IInv, NEW g \in Files, NEW k \in 0..(Size - 1), ~(k < NDIRECT),
         NEW d \in Entry, k - NDIRECT = d, slot_alloc(g, k)
  PROVE  IInv'
<1> DEFINE nb == Min(mem.bitmap)
           b == mem.dir[g].indirect
           m == [mem EXCEPT !.ind[b][d] = nb]
<1>1. /\ mem \in Image /\ disk \in Image /\ mem.bitmap \subseteq Blocks
      /\ clean \in [Files -> BOOLEAN] /\ cut \in SUBSET (Files \cup {NoFile})
  BY Parts DEF IInv, Types
<1>2. /\ pc # "clear" /\ b # 0 /\ mem.ind[b][d] = 0 /\ mem.bitmap # {}
      /\ alloc_block(m) /\ pc' = "serve" /\ f' = NoFile
      /\ clean' = [clean EXCEPT ![g] = FALSE] /\ cut' = cut
  <2>1. /\ Found(g, k) /\ DiskBno(mem, g, k) = 0 /\ mem.bitmap # {}
        /\ alloc_block(m) /\ pc' = "serve" /\ f' = NoFile
        /\ clean' = [clean EXCEPT ![g] = FALSE] /\ cut' = cut
    BY DEF slot_alloc, Stored, Return
  <2>2. pc # "clear" /\ b # 0
    BY <2>1 DEF Found, Needs, IInv, Control
  <2>3. mem.ind[b][d] = 0
    BY <2>1, <2>2 DEF DiskBno
  <2> QED BY <2>1, <2>2, <2>3
<1>3. nb \in mem.bitmap /\ nb \in Numbers /\ b \in Blocks
  BY <1>1, <1>2, MinIn, Ranges, Parts, Zenon
<1> HIDE DEF nb, b
<1>4. /\ m \in Image /\ m.bitmap = mem.bitmap /\ m.dir = mem.dir
      /\ \A c \in Blocks : c # b => m.ind[c] = mem.ind[c]
      /\ \A l \in Entry : m.ind[b][l] = IF l = d THEN nb ELSE mem.ind[b][l]
  BY <1>1, <1>3, SetEntry
<1> HIDE DEF m
<1>5. /\ nb # 0
      /\ mem' \in Image /\ mem'.bitmap = mem.bitmap \ {nb} /\ mem'.dir = mem.dir /\ mem'.ind = m.ind
      /\ disk' \in Image /\ disk'.bitmap = mem'.bitmap /\ disk'.dir = disk.dir /\ disk'.ind = disk.ind
  BY <1>1, <1>2, <1>4, AllocEffect DEF nb
<1>6. clean' \in [Files -> BOOLEAN] /\ \A h \in Files : clean'[h] => h # g /\ clean[h]
  BY <1>1, <1>2
<1>7. Types'
  BY <1>1, <1>2, <1>5, <1>6 DEF Types
<1>8. Control'
  BY <1>2, <1>5 DEF IInv, Control
<1>9. ASSUME NoFile \notin cut' PROVE Cached'
  <2>1. /\ Apart(CacheOf(mem, NoFile), mem.bitmap) /\ IndirectLags /\ CleanFiles
        /\ \A h \in Files : h # Target /\ h # NoFile
    BY <1>2, <1>9, NoTarget DEF IInv, Cached
  <2>2. ASSUME NEW h \in Files, h # g, mem.dir[h].indirect # 0
        PROVE  mem'.ind[mem.dir[h].indirect] = mem.ind[mem.dir[h].indirect]
    <3>1. mem.dir[h].indirect # b
      BY <1>2, <2>1, <2>2, IndirectApart DEF b
    <3>2. mem.dir[h].indirect \in Blocks
      BY <1>1, <2>2, Parts
    <3> QED BY <1>4, <1>5, <3>1, <3>2
  <2> DEFINE v == CacheOf(mem, NoFile)
             w == CacheOf(mem', NoFile)
  <2>3. Target' = NoFile /\ Cache' = w
    BY <1>2 DEF Target, Cache
  <2>4. Apart(w, mem'.bitmap)
    <3>1. ISlot(g, d) \in AllSlots /\ w[ISlot(g, d)] = nb
      <4>1. mem'.dir[g].indirect # 0 /\ g # NoFile
        BY <1>2, <1>5, <2>1 DEF b
      <4>2. w[ISlot(g, d)] = mem'.ind[mem'.dir[g].indirect][d]
        BY <4>1, CacheEntry
      <4> QED BY <1>4, <1>5, <4>2, Slot, Zenon DEF b
    <3>2. \A h \in Files : w[FSlot(h)] \in {0, v[FSlot(h)]}
      BY <1>5, CacheSlot
    <3>3. ASSUME NEW h \in Files, NEW l \in Direct PROVE w[DSlot(h, l)] \in {0, v[DSlot(h, l)]}
      <4>1. v[DSlot(h, l)] = mem.dir[h].direct[l] /\ w[DSlot(h, l)] = mem'.dir[h].direct[l]
        BY CacheSlot
      <4> QED BY <1>5, <4>1
    <3>4. ASSUME NEW h \in Files, NEW e \in Entry, ISlot(h, e) # ISlot(g, d)
          PROVE  w[ISlot(h, e)] \in {0, v[ISlot(h, e)]}
      <4>1. CASE mem.dir[h].indirect = 0
        BY <1>5, <4>1, CacheSlot
      <4>2. CASE mem.dir[h].indirect # 0
        <5>1. v[ISlot(h, e)] = mem.ind[mem.dir[h].indirect][e]
          BY <2>1, <4>2, CacheEntry
        <5>2. mem'.dir[h].indirect # 0 /\ h # NoFile
          BY <1>5, <2>1, <4>2
        <5>3. w[ISlot(h, e)] = mem'.ind[mem'.dir[h].indirect][e]
          BY <5>2, CacheEntry
        <5>4. /\ v[ISlot(h, e)] = mem.ind[mem.dir[h].indirect][e]
              /\ w[ISlot(h, e)] = mem'.ind[mem.dir[h].indirect][e]
          BY <1>5, <5>1, <5>3, Zenon
        <5>5. CASE h = g
          <6>1. e # d
            BY <3>4, <5>5, Zenon
          <6> QED BY <1>4, <1>5, <5>4, <5>5, <6>1, Zenon DEF b
        <5>6. CASE h # g
          BY <2>2, <4>2, <5>4, <5>6, Zenon
        <5> QED BY <5>5, <5>6
      <4> QED BY <4>1, <4>2
    <3> HIDE DEF v, w
    <3>5. Apart(v, mem.bitmap)
      BY <2>1, Zenon DEF v
    <3>6. Apart(w, mem.bitmap \ {nb})
      BY <1>3, <1>5, <3>1, <3>2, <3>3, <3>4, <3>5, GrowSlots, SMT, Z3
    <3> QED BY <1>5, <3>6, Zenon
  <2>5. IndirectLags'
    <3> SUFFICES ASSUME NEW h \in Files \ cut', mem'.dir[h].indirect # 0, NEW e \in Entry
                 PROVE  disk'.ind[mem'.dir[h].indirect][e]
                          \in {0, mem'.ind[mem'.dir[h].indirect][e]}
      BY Zenon DEF IndirectLags
    <3>1. disk.ind[mem.dir[h].indirect][e] \in {0, mem.ind[mem.dir[h].indirect][e]}
      BY <1>2, <1>5, <2>1, Zenon DEF IndirectLags
    <3>2. CASE h = g
      <4>1. mem'.ind[b][e] = mem.ind[b][e] \/ mem.ind[b][e] = 0
        BY <1>2, <1>4, <1>5, Zenon
      <4> QED BY <1>5, <3>1, <3>2, <4>1, Zenon DEF b
    <3>3. CASE h # g
      BY <1>5, <2>2, <3>1, <3>3, Zenon
    <3> QED BY <3>2, <3>3, Zenon
  <2>6. CleanFiles'
    <3> SUFFICES ASSUME NEW h \in Files, clean'[h]
                 PROVE  /\ disk'.dir[h] = mem'.dir[h]
                        /\ mem'.dir[h].indirect # 0 =>
                             disk'.ind[mem'.dir[h].indirect] = mem'.ind[mem'.dir[h].indirect]
      BY DEF CleanFiles
    <3>1. h # g /\ clean[h]
      BY <1>6
    <3>2. /\ disk.dir[h] = mem.dir[h]
          /\ mem.dir[h].indirect # 0 =>
               disk.ind[mem.dir[h].indirect] = mem.ind[mem.dir[h].indirect]
      BY <2>1, <3>1, Zenon DEF CleanFiles
    <3> QED BY <1>5, <2>2, <3>1, <3>2
  <2> QED BY <2>3, <2>4, <2>5, <2>6 DEF Cached
<1> QED BY <1>7, <1>8, <1>9 DEF IInv

\* What file_set_size leaves of the image: no number of block 0 is freed, and the
\* numbers of the blocks that go are cleared.
Shrunk(R, g, n) ==
  /\ R \in Image /\ mem.bitmap \subseteq R.bitmap
  /\ \A x \in R.bitmap :
       \/ x \in mem.bitmap
       \/ x = mem.dir[g].indirect /\ x # 0 /\ R.dir[g].indirect = 0
       \/ x # 0 /\ \E k \in 0..(Size - 1) : /\ k \in n..(mem.dir[g].size - 1)
                                            /\ x = DiskBno(mem, g, k)
  /\ \A h \in Files : h # g => R.dir[h] = mem.dir[h]
  /\ R.dir[g].indirect \in {0, mem.dir[g].indirect}
  /\ \A k \in Direct : R.dir[g].direct[k] = IF k \in n..(mem.dir[g].size - 1) THEN 0
                                            ELSE mem.dir[g].direct[k]
  /\ \A b \in Blocks : b # mem.dir[g].indirect => R.ind[b] = mem.ind[b]
  /\ mem.dir[g].indirect # 0 =>
       \A e \in Entry : R.ind[mem.dir[g].indirect][e] =
                          IF e + NDIRECT \in n..(mem.dir[g].size - 1) THEN 0
                          ELSE mem.ind[mem.dir[g].indirect][e]

\* That is what Resized computes.
LEMMA ResizedEffect ==
  ASSUME mem \in Image, NEW g \in Files, NEW n \in 0..Size
  PROVE  Shrunk(Resized(g, n), g, n)
<1> DEFINE old == mem.dir[g]
           gone == n..(old.size - 1)
           drop == old.size > n /\ n <= NDIRECT /\ old.indirect # 0
           B == mem.bitmap \cup Freed(g, n) \cup (IF drop THEN {old.indirect} ELSE {})
           direct == [k \in Direct |-> IF k \in gone THEN 0 ELSE old.direct[k]]
           indirect == IF drop THEN 0 ELSE old.indirect
           new == [size |-> n, direct |-> direct, indirect |-> indirect]
           D == [mem.dir EXCEPT ![g] = new]
           row(b) == [k \in Entry |-> IF k + NDIRECT \in gone THEN 0 ELSE mem.ind[b][k]]
           I == [b \in Blocks |-> IF b # old.indirect THEN mem.ind[b] ELSE row(b)]
           R == Resized(g, n)
<1>1. R = [bitmap |-> B, dir |-> D, ind |-> I]
  BY DEF Resized
<1> HIDE DEF R
<1>2. /\ mem.bitmap \subseteq Blocks /\ mem.dir \in [Files -> FileStruct]
      /\ mem.ind \in [Blocks -> [Entry -> Numbers]]
      /\ old.size \in 0..Size /\ old.direct \in [Direct -> Numbers]
      /\ old.indirect \in Numbers /\ (old.indirect # 0 => old.indirect \in Blocks)
  BY Parts
<1> HIDE DEF old
<1>3. gone \subseteq 0..(Size - 1)
  BY <1>2, Ranges
<1> HIDE DEF gone
<1>4. \A x \in Freed(g, n) : x # 0 /\ x \in Blocks /\ \E k \in 0..(Size - 1) :
                               k \in gone /\ x = DiskBno(mem, g, k)
  <2> SUFFICES ASSUME NEW x \in Freed(g, n)
               PROVE  x # 0 /\ x \in Blocks /\ \E k \in 0..(Size - 1) :
                               k \in gone /\ x = DiskBno(mem, g, k)
    OBVIOUS
  <2>1. x # 0 /\ \E k \in gone : x = DiskBno(mem, g, k)
    BY DEF Freed, gone, old
  <2>2. PICK k \in 0..(Size - 1) : k \in gone /\ x = DiskBno(mem, g, k)
    BY <1>3, <2>1
  <2>3. x \in Numbers
    BY <2>2, SlotType
  <2> QED BY <2>1, <2>2, <2>3, Ranges
<1>5. /\ B \in SUBSET Blocks /\ mem.bitmap \subseteq B
      /\ \A x \in B : \/ x \in mem.bitmap
                      \/ x = old.indirect /\ x # 0 /\ indirect = 0
                      \/ x \in Freed(g, n)
  <2> DEFINE L == IF drop THEN {old.indirect} ELSE {}
  <2>1. L \subseteq Blocks /\ \A x \in L : x = old.indirect /\ x # 0 /\ indirect = 0
    BY <1>2
  <2>2. B = mem.bitmap \cup Freed(g, n) \cup L
    OBVIOUS
  <2> HIDE DEF B, L, indirect, drop
  <2> QED BY <1>2, <1>4, <2>1, <2>2
<1>6. indirect \in {0, old.indirect} /\ indirect \in Numbers
  BY <1>2, Ranges
<1>7. /\ direct \in [Direct -> Numbers]
      /\ \A k \in Direct : direct[k] = IF k \in gone THEN 0 ELSE old.direct[k]
  BY <1>2, Ranges
<1> HIDE DEF B, indirect, direct, drop
<1>8. new \in FileStruct
  BY <1>6, <1>7 DEF FileStruct
<1>9. D \in [Files -> FileStruct] /\ D[g] = new /\ \A h \in Files : h # g => D[h] = mem.dir[h]
  BY <1>2, <1>8
<1>10. ASSUME NEW b \in Blocks
       PROVE  /\ row(b) \in [Entry -> Numbers]
              /\ \A k \in Entry : row(b)[k] = IF k + NDIRECT \in gone THEN 0 ELSE mem.ind[b][k]
  BY <1>2, Ranges
<1> HIDE DEF row
<1>11. /\ I \in [Blocks -> [Entry -> Numbers]]
       /\ \A b \in Blocks : I[b] = IF b # old.indirect THEN mem.ind[b] ELSE row(b)
  BY <1>2, <1>10
<1> HIDE DEF D, I
<1>12. R \in Image
  BY <1>1, <1>5, <1>9, <1>11 DEF Image
<1>13. R.bitmap = B /\ R.dir = D /\ R.ind = I
  BY <1>1
<1>14. R.dir[g].indirect = indirect /\ R.dir[g].direct = direct
  BY <1>9, <1>13
<1>15. \A b \in Blocks : b # old.indirect => R.ind[b] = mem.ind[b]
  BY <1>11, <1>13
<1>16. ASSUME old.indirect # 0, NEW e \in Entry
       PROVE  R.ind[old.indirect][e] = IF e + NDIRECT \in gone THEN 0
                                       ELSE mem.ind[old.indirect][e]
  <2>1. old.indirect \in Blocks /\ R.ind[old.indirect] = row(old.indirect)
    BY <1>2, <1>11, <1>13, <1>16
  <2> QED BY <1>10, <2>1
<1>17. \A x \in R.bitmap :
         \/ x \in mem.bitmap
         \/ x = old.indirect /\ x # 0 /\ R.dir[g].indirect = 0
         \/ x # 0 /\ \E k \in 0..(Size - 1) : k \in gone /\ x = DiskBno(mem, g, k)
  BY <1>4, <1>5, <1>13, <1>14
<1>18. mem.bitmap \subseteq R.bitmap /\ \A h \in Files : h # g => R.dir[h] = mem.dir[h]
  BY <1>5, <1>9, <1>13
<1>19. R.dir[g].indirect \in {0, old.indirect}
  BY <1>6, <1>14
<1>20. \A k \in Direct : R.dir[g].direct[k] = IF k \in gone THEN 0 ELSE old.direct[k]
  BY <1>7, <1>14
<1> QED BY <1>12, <1>15, <1>16, <1>17, <1>18, <1>19, <1>20, Zenon DEF Shrunk, old, gone, R

\* A file is given a new size; what it keeps is apart from what is freed.
LEMMA SetSize ==
  ASSUME IInv, NEW g \in Files, NEW n \in Sizes, file_set_size(g, n)
  PROVE  IInv'
<1> DEFINE R == Resized(g, n)
           gone == n..(mem.dir[g].size - 1)
<1>1. /\ mem \in Image /\ disk \in Image /\ clean \in [Files -> BOOLEAN]
      /\ cut \in SUBSET (Files \cup {NoFile}) /\ f \in Files \cup {NoFile}
      /\ disk.bitmap \subseteq mem.bitmap
  BY DEF IInv, Types, Control
<1>2. n \in 0..Size
  BY FsConstants DEF Size
<1>3. /\ pc = "serve" /\ pc' = pc /\ f' = f /\ mem' = R /\ disk' = [disk EXCEPT !.dir = R.dir]
      /\ clean' = [clean EXCEPT ![g] = FALSE]
      /\ cut' = IF R.dir[g].indirect = 0 THEN cut \ {g}
                ELSE IF R.ind = mem.ind THEN cut ELSE cut \cup {g}
  BY Zenon DEF file_set_size
<1> HIDE DEF R
<1>4. /\ mem' \in Image /\ mem.bitmap \subseteq mem'.bitmap
      /\ \A x \in mem'.bitmap :
           \/ x \in mem.bitmap
           \/ x = mem.dir[g].indirect /\ x # 0 /\ mem'.dir[g].indirect = 0
           \/ x # 0 /\ \E k \in 0..(Size - 1) : k \in gone /\ x = DiskBno(mem, g, k)
      /\ \A h \in Files : h # g => mem'.dir[h] = mem.dir[h]
      /\ mem'.dir[g].indirect \in {0, mem.dir[g].indirect}
      /\ \A k \in Direct : mem'.dir[g].direct[k] = IF k \in gone THEN 0 ELSE mem.dir[g].direct[k]
      /\ \A b \in Blocks : b # mem.dir[g].indirect => mem'.ind[b] = mem.ind[b]
      /\ mem.dir[g].indirect # 0 =>
           \A e \in Entry : mem'.ind[mem.dir[g].indirect][e] =
                              IF e + NDIRECT \in gone THEN 0
                              ELSE mem.ind[mem.dir[g].indirect][e]
  <2>1. Shrunk(mem', g, n)
    BY <1>1, <1>2, <1>3, ResizedEffect DEF R
  <2> QED BY <2>1 DEF Shrunk
<1> HIDE DEF gone
<1>5. disk' \in Image /\ disk'.bitmap = disk.bitmap /\ disk'.dir = mem'.dir /\ disk'.ind = disk.ind
  <2>1. mem'.dir \in [Files -> FileStruct]
    BY <1>4, Parts
  <2>2. disk' = [disk EXCEPT !.dir = mem'.dir]
    BY <1>3
  <2> QED BY <1>1, <2>1, <2>2, SetDir, Zenon
<1>6. clean' \in [Files -> BOOLEAN] /\ \A h \in Files : clean'[h] => h # g /\ clean[h]
  BY <1>1, <1>3
<1>7. /\ cut' \in SUBSET (Files \cup {NoFile}) /\ (NoFile \in cut => NoFile \in cut')
      /\ \A h \in Files : h # g /\ h \in cut => h \in cut'
      /\ g \in cut' \/ mem'.dir[g].indirect = 0 \/ (mem'.ind = mem.ind /\ cut' = cut)
  <2>1. g # NoFile
    BY FsConstants
  <2>2. CASE mem'.dir[g].indirect = 0
    <3>1. cut' = cut \ {g}
      BY <1>3, <2>2
    <3> QED BY <1>1, <2>1, <2>2, <3>1
  <2>3. CASE mem'.dir[g].indirect # 0 /\ mem'.ind = mem.ind
    BY <1>1, <1>3, <2>3
  <2>4. CASE mem'.dir[g].indirect # 0 /\ mem'.ind # mem.ind
    <3>1. cut' = cut \cup {g}
      BY <1>3, <2>4, Zenon
    <3> QED BY <1>1, <3>1
  <2> QED BY <2>2, <2>3, <2>4
<1>8. Types'
  BY <1>1, <1>3, <1>4, <1>5, <1>6, <1>7, Zenon DEF IInv, Types
<1>9. Control'
  BY <1>1, <1>3, <1>4, <1>5 DEF Control
<1>10. ASSUME NoFile \notin cut' PROVE Cached'
  <2>1. /\ Apart(CacheOf(mem, NoFile), mem.bitmap) /\ IndirectLags /\ CleanFiles
        /\ \A h \in Files : h # Target /\ h # NoFile
    BY <1>3, <1>7, <1>10, NoTarget, Zenon DEF IInv, Cached
  <2>2. ASSUME NEW h \in Files, h # g, mem.dir[h].indirect # 0
        PROVE  mem'.ind[mem.dir[h].indirect] = mem.ind[mem.dir[h].indirect]
    <3>1. mem.dir[h].indirect # mem.dir[g].indirect
      BY <2>1, <2>2, IndirectApart, Zenon
    <3>2. mem.dir[h].indirect \in Blocks
      BY <1>1, <2>2, Parts
    <3> QED BY <1>4, <3>1, <3>2
  <2> DEFINE v == CacheOf(mem, NoFile)
             w == CacheOf(mem', NoFile)
  <2>3. Target' = NoFile /\ Cache' = w
    BY <1>3 DEF Target, Cache
  <2>4. Apart(w, mem'.bitmap)
    <3>1. \A s \in AllSlots : w[s] \in {0, v[s]}
      <4>1. ASSUME NEW h \in Files PROVE w[FSlot(h)] \in {0, v[FSlot(h)]}
        <5>1. w[FSlot(h)] = mem'.dir[h].indirect /\ v[FSlot(h)] = mem.dir[h].indirect
          BY CacheSlot, SMT, Z3
        <5> QED BY <1>4, <5>1, Zenon
      <4>2. ASSUME NEW h \in Files, NEW k \in Direct PROVE w[DSlot(h, k)] \in {0, v[DSlot(h, k)]}
        <5>1. w[DSlot(h, k)] = mem'.dir[h].direct[k] /\ v[DSlot(h, k)] = mem.dir[h].direct[k]
          BY CacheSlot, SMT, Z3
        <5> QED BY <1>4, <5>1, Zenon
      <4>3. ASSUME NEW h \in Files, NEW e \in Entry PROVE w[ISlot(h, e)] \in {0, v[ISlot(h, e)]}
        <5>1. CASE mem'.dir[h].indirect = 0
          BY <5>1, CacheSlot
        <5>2. CASE mem'.dir[h].indirect # 0
          <6>1. mem'.dir[h].indirect = mem.dir[h].indirect
            BY <1>4, <5>2
          <6>2. h # NoFile /\ mem.dir[h].indirect # 0
            BY <2>1, <5>2, <6>1, Zenon
          <6>3. v[ISlot(h, e)] = mem.ind[mem.dir[h].indirect][e]
            BY <6>2, CacheEntry, SMT, Z3
          <6>4. w[ISlot(h, e)] = mem'.ind[mem'.dir[h].indirect][e]
            BY <5>2, <6>2, CacheEntry, SMT, Z3
          <6>5. CASE h = g
            BY <1>4, <6>1, <6>2, <6>3, <6>4, <6>5, Zenon
          <6>6. CASE h # g
            BY <2>2, <6>1, <6>2, <6>3, <6>4, <6>6, Zenon
          <6> QED BY <6>5, <6>6, Zenon
        <5> QED BY <5>1, <5>2, Zenon
      <4> HIDE DEF v, w
      <4> DEFINE S == {s \in AllSlots : w[s] \in {0, v[s]}}
      <4>4. \A h \in Files : FSlot(h) \in S
        BY <4>1, Slot, Zenon
      <4>5. \A h \in Files, k \in Direct : DSlot(h, k) \in S
        BY <4>2, Slot, Zenon
      <4>6. \A h \in Files, e \in Entry : ISlot(h, e) \in S
        BY <4>3, Slot
      <4> HIDE DEF S
      <4>7. \A s \in AllSlots : s \in S
        BY <4>4, <4>5, <4>6, EverySlot, Zenon
      <4> QED BY <4>7, Zenon DEF S
    <3>2. ASSUME NEW k \in 0..(Size - 1), k \in gone
          PROVE  /\ <<g, k>> \in AllSlots /\ w[<<g, k>>] = 0
                 /\ v[<<g, k>>] = DiskBno(mem, g, k)
      <4>1. CASE k \in Direct /\ k < NDIRECT
        <5>1. <<g, k>> = DSlot(g, k)
          BY Zenon DEF DSlot
        <5>2. DSlot(g, k) \in AllSlots /\ v[DSlot(g, k)] = mem.dir[g].direct[k]
          BY <4>1, Slot, CacheSlot, SMT, Z3
        <5>3. w[DSlot(g, k)] = mem'.dir[g].direct[k]
          BY <4>1, CacheSlot, SMT, Z3
        <5>4. mem'.dir[g].direct[k] = 0
          BY <1>4, <3>2, <4>1, Zenon
        <5> QED BY <4>1, <5>1, <5>2, <5>3, <5>4 DEF DiskBno
      <4>2. ASSUME NEW e \in Entry, ~(k < NDIRECT), k = e + NDIRECT, k - NDIRECT = e
            PROVE  /\ <<g, k>> \in AllSlots /\ w[<<g, k>>] = 0
                   /\ v[<<g, k>>] = DiskBno(mem, g, k)
        <5>1. <<g, k>> = ISlot(g, e)
          BY <4>2, Zenon DEF ISlot
        <5>2. ISlot(g, e) \in AllSlots
          BY Slot, Zenon
        <5>3. v[ISlot(g, e)] = DiskBno(mem, g, k)
          BY <2>1, <4>2, CacheSlot DEF DiskBno
        <5>4. w[ISlot(g, e)] = 0
          <6>1. CASE mem'.dir[g].indirect = 0
            BY <6>1, CacheSlot, SMT, Z3
          <6>2. CASE mem'.dir[g].indirect # 0
            <7>1. mem'.dir[g].indirect = mem.dir[g].indirect
              BY <1>4, <6>2
            <7>2. g # NoFile
              BY <2>1, Zenon
            <7>3. w[ISlot(g, e)] = mem'.ind[mem'.dir[g].indirect][e]
              BY <6>2, <7>2, CacheEntry
            <7>4. e + NDIRECT \in gone
              BY <3>2, <4>2, Zenon
            <7>5. mem'.ind[mem.dir[g].indirect][e] = 0
              BY <1>4, <6>2, <7>1, <7>4, Zenon
            <7> QED BY <7>1, <7>3, <7>5, Zenon
          <6> QED BY <6>1, <6>2
        <5> QED BY <5>1, <5>2, <5>3, <5>4
      <4> QED BY <4>1, <4>2, Index, Zenon
    <3>3. /\ FSlot(g) \in AllSlots /\ v[FSlot(g)] = mem.dir[g].indirect
          /\ w[FSlot(g)] = mem'.dir[g].indirect
      <4>1. FSlot(g) \in AllSlots
        BY Slot, Zenon
      <4>2. v[FSlot(g)] = mem.dir[g].indirect
        BY CacheSlot, SMT, Z3
      <4>3. w[FSlot(g)] = mem'.dir[g].indirect
        BY CacheSlot
      <4> QED BY <4>1, <4>2, <4>3, Zenon
    <3> HIDE DEF v, w
    <3>4. Apart(v, mem.bitmap)
      BY <2>1, Zenon DEF v
    <3>5. ASSUME NEW s \in AllSlots, w[s] # 0 PROVE w[s] \notin mem'.bitmap
      <4>1. w[s] = v[s] /\ v[s] # 0 /\ v[s] \notin mem.bitmap
        BY <3>1, <3>4, <3>5 DEF Apart
      <4>2. ASSUME NEW t \in AllSlots, v[t] = v[s], w[t] = 0 PROVE FALSE
        BY <3>4, <3>5, <4>1, <4>2 DEF Apart
      <4>3. ASSUME v[s] = mem.dir[g].indirect, mem'.dir[g].indirect = 0 PROVE FALSE
        BY <3>3, <4>2, <4>3, Zenon
      <4>4. ASSUME NEW k \in 0..(Size - 1), k \in gone, v[s] = DiskBno(mem, g, k) PROVE FALSE
        BY <3>2, <4>2, <4>4, Zenon
      <4> QED BY <1>4, <4>1, <4>3, <4>4
    <3> QED BY <3>1, <3>4, <3>5 DEF Apart
  <2>5. IndirectLags'
    <3> SUFFICES ASSUME NEW h \in Files \ cut', mem'.dir[h].indirect # 0, NEW e \in Entry
                 PROVE  disk'.ind[mem'.dir[h].indirect][e]
                          \in {0, mem'.ind[mem'.dir[h].indirect][e]}
      BY Zenon DEF IndirectLags
    <3>1. mem'.dir[h].indirect = mem.dir[h].indirect /\ h \notin cut
      BY <1>4, <1>7, Zenon
    <3>2. disk.ind[mem.dir[h].indirect][e] \in {0, mem.ind[mem.dir[h].indirect][e]}
      BY <2>1, <3>1, Zenon DEF IndirectLags
    <3>3. mem'.ind[mem.dir[h].indirect] = mem.ind[mem.dir[h].indirect]
      BY <1>7, <2>2, <3>1, Zenon
    <3> QED BY <1>5, <3>1, <3>2, <3>3, Zenon
  <2>6. CleanFiles'
    <3> SUFFICES ASSUME NEW h \in Files, clean'[h]
                 PROVE  /\ disk'.dir[h] = mem'.dir[h]
                        /\ mem'.dir[h].indirect # 0 =>
                             disk'.ind[mem'.dir[h].indirect] = mem'.ind[mem'.dir[h].indirect]
      BY DEF CleanFiles
    <3>1. h # g /\ clean[h]
      BY <1>6, Zenon
    <3>2. mem.dir[h].indirect # 0 =>
               disk.ind[mem.dir[h].indirect] = mem.ind[mem.dir[h].indirect]
      BY <2>1, <3>1 DEF CleanFiles
    <3>3. mem'.dir[h] = mem.dir[h]
      BY <1>4, <3>1
    <3> QED BY <1>5, <2>2, <3>1, <3>2, <3>3, Zenon
  <2> QED BY <2>3, <2>4, <2>5, <2>6 DEF Cached
<1> QED BY <1>8, <1>9, <1>10, Zenon DEF IInv

\* Where the cache stays as it is, and the server clears no indirect block.
LEMMA SameCache ==
  ASSUME IInv, mem' = mem, pc # "clear", pc' # "clear", NoFile \notin cut
  PROVE  /\ Apart(Cache', mem'.bitmap) /\ IndirectLags /\ CleanFiles
         /\ \A g \in Files : g # Target
<1>1. /\ Apart(CacheOf(mem, NoFile), mem.bitmap) /\ IndirectLags /\ CleanFiles
      /\ \A g \in Files : g # Target
  BY NoTarget DEF IInv, Cached
<1>2. Cache' = CacheOf(mem, NoFile)
  BY DEF Cache, Target
<1> QED BY <1>1, <1>2

\* Steps that only write to the disk, or nothing.
LEMMA DiskWrites ==
  ASSUME IInv, mem' = mem, pc # "clear", pc' \notin {"clear", "slot"},
         pc' \in {"serve", "flush", "sync", "panic"}, f' \in Files \cup {NoFile},
         pc' = "flush" => f' \in Files /\ disk'.dir = mem.dir,
         clean' = clean, cut' = cut, disk' \in Image,
         disk'.bitmap \in {disk.bitmap, mem.bitmap}, disk'.dir \in {disk.dir, mem.dir},
         \A b \in Blocks : disk'.ind[b] \in {disk.ind[b], mem.ind[b]}
  PROVE  IInv'
<1>1. Types'
  BY Zenon DEF IInv, Types
<1>2. Control'
  <2>1. disk'.bitmap \subseteq mem'.bitmap
    BY Zenon DEF IInv, Control
  <2>2. \A g \in Files : /\ disk.dir[g].size = mem.dir[g].size
                         /\ disk.dir[g].indirect \in {0, mem.dir[g].indirect}
                         /\ \A k \in Direct : disk.dir[g].direct[k] \in {0, mem.dir[g].direct[k]}
    BY Zenon DEF IInv, Control
  <2>3. \A g \in Files : /\ disk'.dir[g].size = mem'.dir[g].size
                         /\ disk'.dir[g].indirect \in {0, mem'.dir[g].indirect}
                         /\ \A k \in Direct : disk'.dir[g].direct[k] \in {0, mem'.dir[g].direct[k]}
    <3>1. CASE disk'.dir = disk.dir
      BY <2>2, <3>1
    <3>2. CASE disk'.dir = mem.dir
      BY <3>2, Zenon
    <3> QED BY <3>1, <3>2
  <2> QED BY <2>1, <2>3, Zenon DEF Control
<1>3. ASSUME NoFile \notin cut' PROVE Cached'
  <2>1. /\ Apart(Cache', mem'.bitmap) /\ IndirectLags /\ CleanFiles /\ \A g \in Files : g # Target
    BY <1>3, SameCache
  <2>2. \A g \in Files : mem.dir[g].indirect # 0 => mem.dir[g].indirect \in Blocks
    BY Parts, Zenon DEF IInv, Types
  <2>3. IndirectLags'
    <3> SUFFICES ASSUME NEW h \in Files \ cut', mem'.dir[h].indirect # 0, NEW e \in Entry
                 PROVE  disk'.ind[mem'.dir[h].indirect][e]
                          \in {0, mem'.ind[mem'.dir[h].indirect][e]}
      BY DEF IndirectLags
    <3>1. disk.ind[mem.dir[h].indirect][e] \in {0, mem.ind[mem.dir[h].indirect][e]}
      BY <2>1, Zenon DEF IndirectLags
    <3>2. disk'.ind[mem.dir[h].indirect] \in {disk.ind[mem.dir[h].indirect], mem.ind[mem.dir[h].indirect]}
      BY <2>2, Zenon
    <3> QED BY <3>1, <3>2, Zenon
  <2>4. CleanFiles'
    <3> SUFFICES ASSUME NEW h \in Files, clean'[h]
                 PROVE  /\ disk'.dir[h] = mem'.dir[h]
                        /\ mem'.dir[h].indirect # 0 =>
                             disk'.ind[mem'.dir[h].indirect] = mem'.ind[mem'.dir[h].indirect]
      BY Zenon DEF CleanFiles
    <3>1. /\ disk.dir[h] = mem.dir[h]
          /\ mem.dir[h].indirect # 0 =>
               disk.ind[mem.dir[h].indirect] = mem.ind[mem.dir[h].indirect]
      BY <2>1, Zenon DEF CleanFiles
    <3>2. disk'.dir[h] = mem'.dir[h]
      BY <3>1, Zenon
    <3>3. mem.dir[h].indirect # 0 =>
            disk'.ind[mem.dir[h].indirect] \in {disk.ind[mem.dir[h].indirect], mem.ind[mem.dir[h].indirect]}
      BY <2>2
    <3> QED BY <3>1, <3>2, <3>3, Zenon
  <2> QED BY <2>1, <2>3, <2>4 DEF Cached
<1> QED BY <1>1, <1>2, <1>3 DEF IInv

\* file_flush writes the File structures, as they are in the cache.
LEMMA Flush ==
  ASSUME IInv, NEW g \in Files, file_flush(g)
  PROVE  IInv'
<1>1. mem \in Image /\ disk \in Image /\ mem.dir \in [Files -> FileStruct]
  BY Parts DEF IInv, Types
<1>2. /\ pc = "serve" /\ disk' = [disk EXCEPT !.dir = mem.dir] /\ f' = g /\ pc' = "flush"
      /\ mem' = mem /\ clean' = clean /\ cut' = cut
  BY DEF file_flush
<1>3. disk' \in Image /\ disk'.bitmap = disk.bitmap /\ disk'.dir = mem.dir /\ disk'.ind = disk.ind
  BY <1>1, <1>2, SetDir
<1> QED BY <1>2, <1>3, DiskWrites

\* The file is clean once its indirect block is written too.
LEMMA FlushIndirect ==
  ASSUME IInv, flush_indirect
  PROVE  IInv'
<1> DEFINE b == mem.dir[f].indirect
           I == FlushedIndirect
<1>1. /\ mem \in Image /\ disk \in Image /\ clean \in [Files -> BOOLEAN]
      /\ cut \in SUBSET (Files \cup {NoFile})
  BY DEF IInv, Types
<1>2. /\ pc = "flush" /\ disk' = [disk EXCEPT !.ind = I] /\ clean' = [clean EXCEPT ![f] = TRUE]
      /\ cut' = cut \ {f} /\ pc' = "serve" /\ f' = NoFile /\ mem' = mem
  BY DEF flush_indirect, Return
<1>3. f \in Files /\ disk.dir = mem.dir /\ disk.bitmap \subseteq mem.bitmap
  BY <1>2, Zenon DEF IInv, Control
<1>4. /\ mem.ind \in [Blocks -> [Entry -> Numbers]] /\ disk.ind \in [Blocks -> [Entry -> Numbers]]
      /\ b # 0 => b \in Blocks
  BY <1>1, <1>3, Parts
<1> HIDE DEF b
<1>5. /\ I \in [Blocks -> [Entry -> Numbers]]
      /\ \A c \in Blocks : I[c] \in {disk.ind[c], mem.ind[c]} /\ (c = b => I[c] = mem.ind[c])
  <2>1. CASE b = 0
    BY <1>4, <2>1, Ranges, Zenon DEF FlushedIndirect, b
  <2>2. CASE b # 0
    <3>1. I = [disk.ind EXCEPT ![b] = mem.ind[b]] /\ b \in Blocks
      BY <1>4, <2>2 DEF FlushedIndirect, b
    <3> HIDE DEF I
    <3> QED BY <1>4, <3>1
  <2> QED BY <2>1, <2>2
<1> HIDE DEF I
<1>6. disk' \in Image /\ disk'.bitmap = disk.bitmap /\ disk'.dir = disk.dir /\ disk'.ind = I
  BY <1>1, <1>2, <1>5, SetInd
<1>7. /\ clean' \in [Files -> BOOLEAN] /\ \A g \in Files : clean'[g] => g = f \/ clean[g]
      /\ cut' \in SUBSET (Files \cup {NoFile}) /\ (NoFile \in cut => NoFile \in cut')
  BY <1>1, <1>2, <1>3, FsConstants
<1>8. Types'
  BY <1>1, <1>2, <1>6, <1>7, Zenon DEF Types
<1>9. Control'
  BY <1>2, <1>3, <1>6 DEF Control
<1>10. ASSUME NoFile \notin cut' PROVE Cached'
  <2>1. /\ Apart(Cache', mem'.bitmap) /\ IndirectLags /\ CleanFiles /\ \A g \in Files : g # Target
    BY <1>2, <1>7, <1>10, SameCache, Zenon
  <2>2. ASSUME NEW h \in Files, mem.dir[h].indirect # 0
        PROVE  /\ disk'.ind[mem.dir[h].indirect]
                    \in {disk.ind[mem.dir[h].indirect], mem.ind[mem.dir[h].indirect]}
               /\ h = f => disk'.ind[mem.dir[h].indirect] = mem.ind[mem.dir[h].indirect]
    <3>1. mem.dir[h].indirect \in Blocks
      BY <1>1, <2>2, Parts
    <3> QED BY <1>5, <1>6, <3>1 DEF b
  <2>3. IndirectLags'
    <3> SUFFICES ASSUME NEW h \in Files \ cut', mem'.dir[h].indirect # 0, NEW e \in Entry
                 PROVE  disk'.ind[mem'.dir[h].indirect][e]
                          \in {0, mem'.ind[mem'.dir[h].indirect][e]}
      BY DEF IndirectLags
    <3>1. CASE h = f
      BY <1>2, <2>2, <3>1, Zenon
    <3>2. CASE h # f
      <4>1. disk.ind[mem.dir[h].indirect][e] \in {0, mem.ind[mem.dir[h].indirect][e]}
        BY <1>2, <2>1, <3>2, Zenon DEF IndirectLags
      <4>2. disk'.ind[mem.dir[h].indirect]
              \in {disk.ind[mem.dir[h].indirect], mem.ind[mem.dir[h].indirect]}
        BY <1>2, <2>2
      <4> QED BY <1>2, <4>1, <4>2, Zenon
    <3> QED BY <3>1, <3>2, Zenon
  <2>4. CleanFiles'
    <3> SUFFICES ASSUME NEW h \in Files, clean'[h]
                 PROVE  /\ disk'.dir[h] = mem'.dir[h]
                        /\ mem'.dir[h].indirect # 0 =>
                             disk'.ind[mem'.dir[h].indirect] = mem'.ind[mem'.dir[h].indirect]
      BY DEF CleanFiles
    <3>1. disk'.dir[h] = mem'.dir[h]
      BY <1>2, <1>3, <1>6, Zenon
    <3>2. ASSUME mem.dir[h].indirect # 0
          PROVE  disk'.ind[mem.dir[h].indirect] = mem.ind[mem.dir[h].indirect]
      <4>1. h = f \/ disk.ind[mem.dir[h].indirect] = mem.ind[mem.dir[h].indirect]
        BY <1>7, <2>1, <3>2 DEF CleanFiles
      <4> QED BY <2>2, <3>2, <4>1
    <3> QED BY <1>2, <3>1, <3>2
  <2> QED BY <2>1, <2>3, <2>4 DEF Cached
<1> QED BY <1>8, <1>9, <1>10 DEF IInv

\* fs_sync writes one block after the other, as they are in the cache.
LEMMA Sync ==
  ASSUME IInv, fs_sync \/ sync_block
  PROVE  IInv'
<1>1. /\ mem \in Image /\ disk \in Image /\ mem.bitmap \in SUBSET Blocks
      /\ mem.dir \in [Files -> FileStruct] /\ mem.ind \in [Blocks -> [Entry -> Numbers]]
      /\ f \in Files \cup {NoFile}
  BY Parts DEF IInv, Types
<1>2. /\ pc \in {"serve", "sync"} /\ pc' = "sync" /\ f' = f
      /\ mem' = mem /\ clean' = clean /\ cut' = cut
  BY DEF fs_sync, sync_block
<1>3. \/ disk' = [disk EXCEPT !.bitmap = mem.bitmap]
      \/ disk' = [disk EXCEPT !.dir = mem.dir]
      \/ \E b \in Blocks : disk' = [disk EXCEPT !.ind[b] = mem.ind[b]]
  BY DEF fs_sync, sync_block
<1>4. /\ disk' \in Image /\ disk'.bitmap \in {disk.bitmap, mem.bitmap}
      /\ disk'.dir \in {disk.dir, mem.dir}
      /\ \A b \in Blocks : disk'.ind[b] \in {disk.ind[b], mem.ind[b]}
  <2>1. CASE disk' = [disk EXCEPT !.bitmap = mem.bitmap]
    BY <1>1, <2>1, SetBitmap, Zenon
  <2>2. CASE disk' = [disk EXCEPT !.dir = mem.dir]
    BY <1>1, <2>2, SetDir
  <2>3. ASSUME NEW b \in Blocks, disk' = [disk EXCEPT !.ind[b] = mem.ind[b]]
        PROVE  /\ disk' \in Image /\ disk'.bitmap = disk.bitmap /\ disk'.dir = disk.dir
               /\ \A c \in Blocks : disk'.ind[c] \in {disk.ind[c], mem.ind[c]}
    <3>1. PICK e \in [Entry -> Numbers] : e = mem.ind[b] /\ disk' = [disk EXCEPT !.ind[b] = e]
      BY <1>1, <2>3, Zenon
    <3>2. /\ disk' \in Image /\ disk'.bitmap = disk.bitmap /\ disk'.dir = disk.dir
          /\ \A c \in Blocks : disk'.ind[c] = IF c = b THEN e ELSE disk.ind[c]
      BY <1>1, <3>1, SetBlock
    <3> QED BY <3>1, <3>2
  <2> QED BY <1>3, <2>1, <2>2, <2>3
<1> QED BY <1>1, <1>2, <1>4, DiskWrites

\* Where the cache and the disk are the same, all files are clean.
LEMMA SyncDone ==
  ASSUME IInv, sync_done
  PROVE  IInv'
<1>1. /\ pc = "sync" /\ disk = mem /\ clean' = [g \in Files |-> TRUE] /\ cut' = cut \ Files
      /\ pc' = "serve" /\ f' = NoFile /\ mem' = mem /\ disk' = disk
  BY DEF sync_done, Return
<1>2. Types'
  BY <1>1 DEF IInv, Types
<1>3. Control'
  BY <1>1 DEF IInv, Control
<1>4. ASSUME NoFile \notin cut' PROVE Cached'
  <2>1. NoFile \notin cut
    BY <1>1, <1>4, FsConstants
  <2>2. Apart(Cache', mem'.bitmap)
    BY <1>1, <2>1, SameCache
  <2> QED BY <1>1, <2>2 DEF Cached, IndirectLags, CleanFiles
<1> QED BY <1>2, <1>3, <1>4 DEF IInv

\* The blocks that the disk gives to the slots are in use, and different, while
\* no file is cut.
LEMMA DiskApart ==
  ASSUME IInv, cut = {}
  PROVE  Apart(CacheOf(disk, NoFile), disk.bitmap)
<1> DEFINE v == CacheOf(mem, Target)
           w == CacheOf(disk, NoFile)
<1>1. Apart(v, mem.bitmap) /\ IndirectLags
  BY Zenon DEF IInv, Cached, Cache
<1>2. /\ disk.bitmap \subseteq mem.bitmap
      /\ pc = "clear" => disk.dir[f].indirect = 0
      /\ \A g \in Files : /\ disk.dir[g].indirect \in {0, mem.dir[g].indirect}
                          /\ \A k \in Direct : disk.dir[g].direct[k] \in {0, mem.dir[g].direct[k]}
  BY Zenon DEF IInv, Control
<1>3. ASSUME NEW g \in Files PROVE w[FSlot(g)] \in {0, v[FSlot(g)]}
  <2>1. w[FSlot(g)] = disk.dir[g].indirect /\ v[FSlot(g)] = mem.dir[g].indirect
    BY CacheSlot, SMT, Z3
  <2> QED BY <1>2, <2>1
<1>4. ASSUME NEW g \in Files, NEW k \in Direct PROVE w[DSlot(g, k)] \in {0, v[DSlot(g, k)]}
  <2>1. w[DSlot(g, k)] = disk.dir[g].direct[k] /\ v[DSlot(g, k)] = mem.dir[g].direct[k]
    BY CacheSlot
  <2> QED BY <1>2, <2>1
<1>5. ASSUME NEW g \in Files, NEW e \in Entry PROVE w[ISlot(g, e)] \in {0, v[ISlot(g, e)]}
  <2>1. CASE disk.dir[g].indirect = 0
    BY <2>1, CacheSlot, SMT, Z3
  <2>2. CASE disk.dir[g].indirect # 0
    <3>1. disk.dir[g].indirect = mem.dir[g].indirect
      BY <1>2, <2>2
    <3>2. mem.dir[g].indirect # 0
      BY <2>2, <3>1, Zenon
    <3>3. g # Target
      BY <1>2, <2>2, FsConstants DEF Target
    <3>4. g # NoFile
      BY FsConstants
    <3>5. v[ISlot(g, e)] = mem.ind[mem.dir[g].indirect][e]
      BY <3>3, <3>2, CacheEntry
    <3>6. w[ISlot(g, e)] = disk.ind[disk.dir[g].indirect][e]
      BY <2>2, <3>4, CacheEntry, SMT, Z3
    <3>7. disk.ind[mem.dir[g].indirect][e] \in {0, mem.ind[mem.dir[g].indirect][e]}
      BY <1>1, <3>3, <3>2, Zenon DEF IndirectLags
    <3> QED BY <3>1, <3>5, <3>6, <3>7, Zenon
  <2> QED BY <2>1, <2>2
<1> HIDE DEF v, w
<1>6. Apart(w, disk.bitmap)
  BY <1>1, <1>2, <1>3, <1>4, <1>5, ShrinkSlots
<1> QED BY <1>6 DEF w

\* After a crash the cache is what is on the disk.
LEMMA Crash ==
  ASSUME IInv, crash
  PROVE  IInv'
<1>1. /\ mem' = disk /\ disk' = disk /\ clean' = clean /\ pc' = "serve" /\ f' = NoFile
      /\ cut' = IF cut = {} THEN {} ELSE cut \cup {NoFile}
  BY DEF crash, Return
<1>2. Types'
  BY <1>1 DEF IInv, Types
<1>3. Control'
  BY <1>1 DEF Control
<1>4. ASSUME NoFile \notin cut' PROVE Cached'
  <2>1. cut = {}
    BY <1>1, <1>4
  <2>2. Cache' = CacheOf(disk, NoFile)
    BY <1>1 DEF Cache, Target
  <2>3. Apart(Cache', mem'.bitmap)
    BY <1>1, <2>1, <2>2, DiskApart
  <2> QED BY <1>1, <2>3 DEF Cached, IndirectLags, CleanFiles
<1> QED BY <1>2, <1>3, <1>4 DEF IInv

-------------------------------------------------------------------------------
(***************************************************************************)
(* Theorems                                                                *)
(***************************************************************************)

\* The disk that fsformat writes.
LEMMA InitInv == Init => IInv
<1> SUFFICES ASSUME Init PROVE IInv
  OBVIOUS
<1>1. mem = Formatted /\ disk = Formatted /\ pc = "serve" /\ f = NoFile
      /\ clean = [g \in Files |-> TRUE] /\ cut = {}
  BY DEF Init
<1> DEFINE F == [size |-> 0, direct |-> [k \in Direct |-> 0], indirect |-> 0]
<1>2. F \in FileStruct
  BY Ranges, SMT, Z3 DEF FileStruct
<1>3. /\ mem.bitmap = Blocks /\ mem.dir = [g \in Files |-> F]
      /\ mem.ind = [b \in Blocks |-> [k \in Entry |-> 0]]
  BY <1>1, Zenon DEF Formatted
<1>4. mem.ind \in [Blocks -> [Entry -> Numbers]]
  BY <1>3, Ranges, SMT, Z3
<1>5. mem = [bitmap |-> mem.bitmap, dir |-> mem.dir, ind |-> mem.ind]
  BY <1>1 DEF Formatted
<1>6. \A g \in Files : mem.dir[g].indirect = 0 /\ \A k \in Direct : mem.dir[g].direct[k] = 0
  BY <1>3
<1> HIDE DEF F
<1>7. mem \in Image
  BY <1>2, <1>3, <1>4, <1>5 DEF Image
<1>8. Types
  BY <1>1, <1>7 DEF Types
<1>9. Control
  BY <1>1, Zenon DEF Control
<1>10. Cached
  <2> DEFINE v == CacheOf(mem, NoFile)
             S == {s \in AllSlots : v[s] = 0}
  <2>1. \A g \in Files : FSlot(g) \in S
    BY <1>6, Slot, CacheSlot, SMT, Z3
  <2>2. ASSUME NEW g \in Files, NEW k \in Direct PROVE DSlot(g, k) \in S
    BY <1>6, Slot, CacheSlot, SMT, Z3
  <2>3. ASSUME NEW g \in Files, NEW e \in Entry PROVE ISlot(g, e) \in S
    <3>1. v[ISlot(g, e)] = 0
      BY <1>6, CacheSlot
    <3> QED BY <3>1, Slot
  <2> HIDE DEF S, v
  <2>4. \A s \in AllSlots : s \in S
    BY <2>1, <2>2, <2>3, EverySlot
  <2>5. Apart(v, mem.bitmap)
    BY <2>4 DEF Apart, S
  <2>6. Cache = v
    BY <1>1, NoTarget DEF v
  <2> QED BY <1>1, <2>5, <2>6, Zenon DEF Cached, IndirectLags, CleanFiles
<1> QED BY <1>8, <1>9, <1>10 DEF IInv

\* A number goes into a slot that is found.
LEMMA SlotAlloc ==
  ASSUME IInv, NEW g \in Files, NEW k \in 0..(Size - 1), slot_alloc(g, k)
  PROVE  IInv'
<1>1. CASE k \in Direct /\ k < NDIRECT
  BY <1>1, SlotDirect
<1>2. ASSUME NEW e \in Entry, ~(k < NDIRECT), k - NDIRECT = e PROVE IInv'
  BY <1>2, SlotEntry
<1> QED BY <1>1, <1>2, Index

\* Nothing is left: the request fails, or the server panics.
LEMMA Full ==
  ASSUME IInv, NEW g \in Files, NEW k \in 0..(Size - 1), walk_panic(g, k) \/ slot_full(g, k)
  PROVE  IInv'
<1>1. /\ mem' = mem /\ disk' = disk /\ clean' = clean /\ cut' = cut
      /\ pc # "clear" /\ pc' \in {"serve", "panic"} /\ f' \in {f, NoFile}
  BY DEF walk_panic, slot_full, Return, Indirect, Needs, Found
<1>2. disk' \in Image /\ f' \in Files \cup {NoFile}
  BY <1>1 DEF IInv, Types
<1> QED BY <1>1, <1>2, DiskWrites, Zenon

\* Every step keeps the invariant.
LEMMA StepInv == IInv /\ [Next]_vars => IInv'
<1> SUFFICES ASSUME IInv, [Next]_vars PROVE IInv'
  OBVIOUS
<1>1. ASSUME NEW g \in Files, NEW k \in 0..(NDIRECT + NINDIRECT - 1), file_get_block(g, k)
      PROVE  IInv'
  <2>1. k \in 0..(Size - 1)
    BY Ranges
  <2>2. CASE walk_alloc(g, k)
    BY <2>1, <2>2, WalkAlloc
  <2>3. CASE slot_alloc(g, k)
    BY <2>1, <2>3, SlotAlloc
  <2>4. CASE walk_panic(g, k) \/ slot_full(g, k)
    BY <2>1, <2>4, Full
  <2> QED BY <1>1, <2>2, <2>3, <2>4 DEF file_get_block
<1>2. ASSUME NEW g \in Files, NEW n \in Sizes, file_set_size(g, n) PROVE IInv'
  BY <1>2, SetSize
<1>3. ASSUME NEW g \in Files, file_flush(g) PROVE IInv'
  BY <1>3, Flush
<1>4. CASE clear
  BY <1>4, Clear
<1>5. CASE flush_indirect
  BY <1>5, FlushIndirect
<1>6. CASE fs_sync \/ sync_block
  BY <1>6, Sync, Zenon
<1>7. CASE sync_done
  BY <1>7, SyncDone
<1>8. CASE crash
  BY <1>8, Crash
<1>9. CASE UNCHANGED vars
  BY <1>9, Zenon DEF vars, IInv, Types, Control, Cached, Cache, Target, IndirectLags, CleanFiles
<1> QED BY <1>1, <1>2, <1>3, <1>4, <1>5, <1>6, <1>7, <1>8, <1>9 DEF Next

\* The inductive invariant of the block layer holds in every state, whatever
\* requests and crashes there have been.
THEOREM Invariance == Spec => []IInv
<1>1. Init => IInv
  BY InitInv
<1>2. IInv /\ [Next]_vars => IInv'
  BY StepInv, Zenon
<1> QED BY <1>1, <1>2, PTL DEF Spec

\* An image whose slots are apart is sound.
LEMMA ApartSound ==
  ASSUME NEW m \in Image, Apart(CacheOf(m, NoFile), m.bitmap)
  PROVE  Sound(m)
<1> DEFINE v == CacheOf(m, NoFile)
<1>1. \A s \in AllSlots : v[s] = At(m, s)
  <2> TAKE s \in AllSlots
  <2>1. s[1] \in Files
    BY DEF AllSlots
  <2>2. s[1] # NoFile
    BY <2>1, FsConstants
  <2> QED BY <2>2 DEF CacheOf
<1>2. Slots(m) = {s \in AllSlots : At(m, s) # 0}
  <2>1. -1..(Size - 1) = -1..(NDIRECT + NINDIRECT - 1)
    BY Ranges
  <2> QED BY <2>1, Zenon DEF Slots, AllSlots
<1>3. m.bitmap \subseteq Blocks
  BY Parts
<1> HIDE DEF v
<1>4. Apart(v, m.bitmap)
  BY DEF v
<1> QED BY <1>1, <1>2, <1>3, <1>4 DEF Sound, Apart

\* "A block is allocated iff its value is != 0": in the cache no two files share
\* a block and no block of a file is free, for any number of files, blocks,
\* requests and crashes, until a crash hits a file that was cut short.
THEOREM CacheIsSound == Spec => []CacheSound
<1>1. IInv => CacheSound
  <2> SUFFICES ASSUME IInv, pc # "clear", NoFile \notin cut PROVE Sound(mem)
    BY DEF CacheSound
  <2>1. mem \in Image
    BY DEF IInv, Types
  <2>2. Apart(CacheOf(mem, NoFile), mem.bitmap)
    BY NoTarget DEF IInv, Cached
  <2> QED BY <2>1, <2>2, ApartSound
<1> QED BY <1>1, Invariance, PTL

\* The same of the disk between any two writes, so wherever the machine stops,
\* while no indirect block of a file that was cut short is unflushed.
THEOREM DiskIsSound == Spec => []DiskSound
<1>1. IInv => DiskSound
  <2> SUFFICES ASSUME IInv, cut = {} PROVE Sound(disk)
    BY DEF DiskSound
  <2>1. disk \in Image
    BY DEF IInv, Types
  <2>2. Apart(CacheOf(disk, NoFile), disk.bitmap)
    BY DiskApart
  <2> QED BY <2>1, <2>2, ApartSound
<1> QED BY <1>1, Invariance, PTL

\* A file that file_flush has written, and that was not changed since, has all
\* its block numbers on the disk, so that a crash loses none of them.
THEOREM FlushedFilesStay == Spec => []FlushedStays
<1>1. IInv => FlushedStays
  <2> SUFFICES ASSUME IInv, NoFile \notin cut, NEW g \in Files, clean[g]
               PROVE  View(disk, g) = View(mem, g)
    BY DEF FlushedStays
  <2>1. /\ disk.dir[g] = mem.dir[g]
        /\ mem.dir[g].indirect # 0 =>
             disk.ind[mem.dir[g].indirect] = mem.ind[mem.dir[g].indirect]
    BY DEF IInv, Cached, CleanFiles
  <2>2. \A k : DiskBno(disk, g, k) = DiskBno(mem, g, k)
    BY <2>1 DEF DiskBno
  <2> QED BY <2>1, <2>2 DEF View
<1> QED BY <1>1, Invariance, PTL
===============================================================================
