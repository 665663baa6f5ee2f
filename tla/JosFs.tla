-------------------------------- MODULE JosFs ---------------------------------
(***************************************************************************)
(* The block layer of the JOS file server (lab6-net/fs/fs.c, bc.c): the    *)
(* free block bitmap, the block pointers of files and the block cache,     *)
(* with crashes.                                                           *)
(*                                                                         *)
(* The server serves one request at a time.  The cache never writes a      *)
(* block by itself, so a step ends where flush_block writes to the disk,   *)
(* and a crash hits between two such writes.  After a crash fs_init just   *)
(* reads what is on the disk.  The files are in one directory block.       *)
(***************************************************************************)
EXTENDS Integers, FiniteSets, FiniteSetsExt

CONSTANTS
  Files, NoFile,
  NBLOCKS,              \* blocks that alloc_block may hand out: 1..NBLOCKS
  NDIRECT, NINDIRECT,
  Sizes,                \* sizes, in blocks, that clients ask for
  MaxCrashes            \* bound: crashes

ASSUME FsConstants ==
  /\ NoFile \notin Files /\ NBLOCKS \in Nat /\ NDIRECT \in Nat \ {0} /\ NINDIRECT \in Nat \ {0}
  /\ Sizes \subseteq 0..(NDIRECT + NINDIRECT) /\ MaxCrashes \in Nat

Blocks == 1..NBLOCKS
Direct == 0..(NDIRECT - 1)
Entry == 0..(NINDIRECT - 1)

VARIABLES
  mem, disk,    \* the cached and the written bitmap, File structures and indirect blocks
  pc, f, bno,   \* what the server does, for which file and which block of it
  clean,        \* history: files not changed since they were last flushed
  cut,          \* history: files cut short inside their indirect block since then,
                \* and NoFile once a crash has hit one of them
  crashes

vars == <<mem, disk, pc, f, bno, clean, cut, crashes>>

\* The disk that fsformat writes: every file is empty, every block free.
Formatted ==
  [bitmap |-> Blocks,
   dir    |-> [g \in Files |-> [size |-> 0, direct |-> [k \in Direct |-> 0], indirect |-> 0]],
   ind    |-> [b \in Blocks |-> [k \in Entry |-> 0]]]

Init ==
  /\ mem = Formatted /\ disk = Formatted
  /\ pc = "serve" /\ f = NoFile /\ bno = 0
  /\ clean = [g \in Files |-> TRUE] /\ cut = {} /\ crashes = 0

-------------------------------------------------------------------------------
(***************************************************************************)
(* file_block_walk and file_get_block                                      *)
(***************************************************************************)

\* *ppdiskbno for block k of file g in the image m, 0 if there is none.
DiskBno(m, g, k) ==
  IF k < NDIRECT THEN m.dir[g].direct[k]
  ELSE IF m.dir[g].indirect = 0 THEN 0 ELSE m.ind[m.dir[g].indirect][k - NDIRECT]

\* A read or a write needs block k of file g.
Needs(g, k) == pc = "serve" /\ k < mem.dir[g].size

\* file_block_walk has found the slot of block k of file g.
Found(g, k) ==
  \/ Needs(g, k) /\ (k < NDIRECT \/ mem.dir[g].indirect # 0)
  \/ pc = "slot" /\ g = f /\ k = bno

\* Mutant: alloc_block leaves the bitmap to the next flush.
Flushed_later(d, bitmap) == d

\* The disk after the changed bitmap block is flushed.
Flushed(d, bitmap) == [d EXCEPT !.bitmap = bitmap]

\* alloc_block takes the first free block and flushes the bitmap; m is the
\* cache once the caller has stored the number.
alloc_block(m) ==
  /\ mem' = [m EXCEPT !.bitmap = @ \ {Min(@)}]
  /\ disk' = Flushed(disk, mem.bitmap \ {Min(mem.bitmap)})

\* The slot is in an indirect block that is not there yet.
Indirect(g, k) == Needs(g, k) /\ k >= NDIRECT /\ mem.dir[g].indirect = 0

\* It is allocated, and cleared next.
walk_alloc(g, k) ==
  /\ Indirect(g, k) /\ mem.bitmap # {}
  /\ alloc_block([mem EXCEPT !.dir[g].indirect = Min(mem.bitmap)])
  /\ pc' = "clear" /\ f' = g /\ bno' = k
  /\ clean' = [clean EXCEPT ![g] = FALSE]
  /\ UNCHANGED <<cut, crashes>>

\* -E_NO_DISK is stored in an unsigned variable, so the test for an error
\* never holds, and diskaddr panics on the number.
walk_panic(g, k) ==
  /\ Indirect(g, k) /\ mem.bitmap = {}
  /\ pc' = "panic"
  /\ UNCHANGED <<mem, disk, f, bno, clean, cut, crashes>>

\* Mutant: the indirect block is not cleared.
clear_not ==
  /\ pc = "clear"
  /\ pc' = "slot"
  /\ UNCHANGED <<mem, disk, f, bno, clean, cut, crashes>>

clear ==
  /\ pc = "clear"
  /\ mem' = [mem EXCEPT !.ind[mem.dir[f].indirect] = [k \in Entry |-> 0]]
  /\ disk' = [disk EXCEPT !.ind[mem.dir[f].indirect] = [k \in Entry |-> 0]]
  /\ pc' = "slot"
  /\ UNCHANGED <<f, bno, clean, cut, crashes>>

\* The cache with the number b in the slot of block k of file g.
Stored(g, k, b) ==
  IF k < NDIRECT THEN [mem EXCEPT !.dir[g].direct[k] = b]
  ELSE [mem EXCEPT !.ind[mem.dir[g].indirect][k - NDIRECT] = b]

\* The answer to the request.
Return == pc' = "serve" /\ f' = NoFile /\ bno' = 0

slot_alloc(g, k) ==
  /\ Found(g, k) /\ DiskBno(mem, g, k) = 0 /\ mem.bitmap # {}
  /\ alloc_block(Stored(g, k, Min(mem.bitmap)))
  /\ Return /\ clean' = [clean EXCEPT ![g] = FALSE]
  /\ UNCHANGED <<cut, crashes>>

\* There is none left for the slot: -E_NO_DISK.
slot_full(g, k) ==
  /\ Found(g, k) /\ DiskBno(mem, g, k) = 0 /\ mem.bitmap = {}
  /\ Return
  /\ UNCHANGED <<mem, disk, clean, cut, crashes>>

file_get_block(g, k) ==
  walk_alloc(g, k) \/ walk_panic(g, k) \/ slot_alloc(g, k) \/ slot_full(g, k)

-------------------------------------------------------------------------------
(***************************************************************************)
(* file_set_size, file_flush, fs_sync                                      *)
(***************************************************************************)

\* The blocks that file_free_block frees when file g shrinks to n blocks.
Freed(g, n) == {DiskBno(mem, g, k) : k \in n..(mem.dir[g].size - 1)} \ {0}

\* file_truncate_blocks, if the file shrinks; then the new size.
Resized(g, n) ==
  LET old  == mem.dir[g]
      gone == n..(old.size - 1)
      drop == old.size > n /\ n <= NDIRECT /\ old.indirect # 0
  IN  [bitmap |-> mem.bitmap \cup Freed(g, n) \cup (IF drop THEN {old.indirect} ELSE {}),
       dir    |-> [mem.dir EXCEPT ![g] =
                     [size     |-> n,
                      direct   |-> [k \in Direct |-> IF k \in gone THEN 0 ELSE old.direct[k]],
                      indirect |-> IF drop THEN 0 ELSE old.indirect]],
       ind    |-> [b \in Blocks |->
                     IF b # old.indirect THEN mem.ind[b]
                     ELSE [k \in Entry |-> IF k + NDIRECT \in gone THEN 0 ELSE mem.ind[b][k]]]]

\* file_set_size flushes the block of the File structure, and with it those
\* of the other files of the directory, but not the indirect block.
file_set_size(g, n) ==
  /\ pc = "serve"
  /\ mem' = Resized(g, n)
  /\ disk' = [disk EXCEPT !.dir = Resized(g, n).dir]
  /\ clean' = [clean EXCEPT ![g] = FALSE]
  /\ cut' = IF Resized(g, n).dir[g].indirect = 0 THEN cut \ {g}
            ELSE IF Resized(g, n).ind = mem.ind THEN cut ELSE cut \cup {g}
  /\ UNCHANGED <<pc, f, bno, crashes>>

\* file_flush: the File structure ...
file_flush(g) ==
  /\ pc = "serve"
  /\ disk' = [disk EXCEPT !.dir = mem.dir]
  /\ f' = g /\ pc' = "flush"
  /\ UNCHANGED <<mem, bno, clean, cut, crashes>>

\* Mutant: file_flush forgets the indirect block.
FlushedIndirect_not == disk.ind

FlushedIndirect ==
  LET b == mem.dir[f].indirect
  IN  IF b = 0 THEN disk.ind ELSE [disk.ind EXCEPT ![b] = mem.ind[b]]

\* ... and then the indirect block.
flush_indirect ==
  /\ pc = "flush"
  /\ disk' = [disk EXCEPT !.ind = FlushedIndirect]
  /\ clean' = [clean EXCEPT ![f] = TRUE] /\ cut' = cut \ {f}
  /\ Return
  /\ UNCHANGED <<mem, crashes>>

\* fs_sync: the bitmap comes first, ...
fs_sync ==
  /\ pc = "serve"
  /\ disk' = [disk EXCEPT !.bitmap = mem.bitmap]
  /\ pc' = "sync"
  /\ UNCHANGED <<mem, f, bno, clean, cut, crashes>>

\* ... and the others in the order of their numbers, which for the directory
\* block depends on the disk.
sync_block ==
  /\ pc = "sync"
  /\ \/ disk' = [disk EXCEPT !.dir = mem.dir]
     \/ \E b \in Blocks :
          /\ mem.ind[b] # disk.ind[b] /\ \A c \in 1..(b - 1) : mem.ind[c] = disk.ind[c]
          /\ disk' = [disk EXCEPT !.ind[b] = mem.ind[b]]
  /\ UNCHANGED <<mem, pc, f, bno, clean, cut, crashes>>

sync_done ==
  /\ pc = "sync" /\ disk = mem
  /\ clean' = [g \in Files |-> TRUE] /\ cut' = cut \ Files
  /\ Return
  /\ UNCHANGED <<mem, disk, crashes>>

\* The machine stops and starts again.
crash ==
  /\ crashes < MaxCrashes
  /\ mem' = disk /\ Return /\ crashes' = crashes + 1
  /\ cut' = IF cut = {} THEN {} ELSE cut \cup {NoFile}
  /\ UNCHANGED <<disk, clean>>

Next ==
  \/ \E g \in Files :
       \/ \E k \in 0..(NDIRECT + NINDIRECT - 1) : file_get_block(g, k)
       \/ \E n \in Sizes : file_set_size(g, n)
       \/ file_flush(g)
  \/ clear \/ flush_indirect \/ fs_sync \/ sync_block \/ sync_done
  \/ crash

Spec == Init /\ [][Next]_vars

-------------------------------------------------------------------------------
(***************************************************************************)
(* Properties                                                              *)
(***************************************************************************)

\* The slots of an image that hold a block number: <<g, k>> for block k of
\* file g, whatever its size, and <<g, -1>> for its indirect block.
At(m, s) == IF s[2] = -1 THEN m.dir[s[1]].indirect ELSE DiskBno(m, s[1], s[2])
Slots(m) == {s \in Files \X (-1..(NDIRECT + NINDIRECT - 1)) : At(m, s) # 0}

\* Every block in a slot is in use and in no other slot, and block 0 has not
\* been freed ("attempt to free zero block").
Sound(m) ==
  /\ m.bitmap \subseteq Blocks
  /\ \A s \in Slots(m) : At(m, s) \notin m.bitmap
  /\ \A s, t \in Slots(m) : At(m, s) = At(m, t) => s = t

\* "A block is allocated iff its value is != 0", in the cache: no two files
\* share a block, and no block of a file is free, across crashes, except those
\* that hit a file whose indirect block file_set_size has left unflushed.
CacheSound == pc # "clear" /\ NoFile \notin cut => Sound(mem)

\* The same of the disk at every moment, so whenever the machine stops, except
\* while the indirect block of a file that was cut short is unflushed.
DiskSound == cut = {} => Sound(disk)

\* "Flush the contents and metadata of file f out to disk": the blocks of a
\* file that was flushed, and not changed since, are found after a crash, with
\* the exception of CacheSound.
View(m, g) == <<m.dir[g], {<<k, DiskBno(m, g, k)>> : k \in 0..(NDIRECT + NINDIRECT - 1)}>>
FlushedStays == NoFile \notin cut => \A g \in Files : clean[g] => View(disk, g) = View(mem, g)
===============================================================================
