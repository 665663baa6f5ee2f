-------------------------------- MODULE JosMem --------------------------------
(***************************************************************************)
(* Physical pages, page tables and reference counts of the JOS kernel of   *)
(* xv6-rev11/lab6-net: kern/pmap.c, the address spaces of kern/env.c, and  *)
(* the system calls of kern/syscall.c that map pages, page transfer by IPC *)
(* included.                                                               *)
(*                                                                         *)
(* A page directory and a page table are physical pages too, so their      *)
(* entries are kept where the code keeps them, in the page: pte[p, i] is   *)
(* entry i of page p.  What user programs store in a page is abstracted to *)
(* whether the page is dirty, that is, not known to be all zeroes.         *)
(*                                                                         *)
(* A system call runs under the big kernel lock and is one step.  The      *)
(* scheduling of environments, with the rendezvous of sender and receiver, *)
(* is the subject of module JosEnv; here every environment may take a      *)
(* step, and may be receiving at any address.                              *)
(***************************************************************************)
EXTENDS Integers, FiniteSets

CONSTANTS
  Pages,      \* the physical pages page_init puts on the free list
  NoPage,     \* an entry without PTE_P, a NULL env_pgdir
  Envs,       \* the slots of envs[]
  NoEnv,      \* no parent
  NIDX,       \* entries of a directory below PDX(UTOP), and of a table
  RefMod,     \* 2^w for a pp_ref of w bits; w is 16 in inc/memlayout.h
  PermArgs    \* the permissions system calls are made with

ASSUME PagesAssumption == IsFiniteSet(Pages) /\ NoPage \notin Pages
ASSUME EnvsAssumption == IsFiniteSet(Envs) /\ NoEnv \notin Envs
ASSUME NIDXAssumption == NIDX \in Nat \ {0}
ASSUME RefModAssumption == RefMod \in Nat \ {0, 1}

Idx  == 0..(NIDX - 1)
VAs  == Idx \X Idx          \* <<PDX(va), PTX(va)>>, below UTOP
PermBits == {"PTE_P", "PTE_U", "PTE_W"}

ASSUME PermArgsAssumption == PermArgs \subseteq SUBSET PermBits

Slots == Pages \X Idx       \* where a pde_t or a pte_t is stored

VARIABLES
  page_free_list,           \* as a set: the order decides nothing here
  pp_ref,
  pte, pte_perm,            \* entries of directories and tables
  dirty,                    \* pages a program has stored something in
  env_pgdir, env_parent

memVars == <<page_free_list, pp_ref, pte, pte_perm, dirty>>
vars == <<memVars, env_pgdir, env_parent>>

-------------------------------------------------------------------------------
(***************************************************************************)
(* kern/pmap.c                                                             *)
(***************************************************************************)

\* Unsigned arithmetic of pp_ref.
Wrap(n) == IF n >= RefMod THEN n - RefMod ELSE IF n < 0 THEN n + RefMod ELSE n

Incref(ref, p) == [ref EXCEPT ![p] = Wrap(@ + 1)]
page_decref(ref, p) == IF p = NoPage THEN ref ELSE [ref EXCEPT ![p] = Wrap(@ - 1)]

\* What page_decref puts on the free list, given the count it leaves.
Freed(ref, p) == IF p # NoPage /\ ref[p] = 0 THEN {p} ELSE {}

\* The slot of the entry that maps va in the space of e, and what it holds.
PageTable(e, va) == pte[<<env_pgdir[e], va[1]>>]
PteSlot(e, va)   == <<PageTable(e, va), va[2]>>
page_lookup(e, va) == IF PageTable(e, va) = NoPage THEN NoPage ELSE pte[PteSlot(e, va)]

\* page_insert succeeds if va has a page table or one can be allocated.
\* fr is page_free_list at the time of the call.
CanInsert(e, va, fr) == PageTable(e, va) # NoPage \/ fr # {}

\* Clearing page p with ALLOC_ZERO, as a table: no entry is present.
Cleared(p) == [x \in Slots |-> IF x[1] = p THEN NoPage ELSE pte[x]]
ClearedPerm(p) == [x \in Slots |-> IF x[1] = p THEN {} ELSE pte_perm[x]]

\* Fills an entry of an existing table, or of a new one.
Overwrite(e, pp, va, perm, ref, fr, dt) ==
  /\ PageTable(e, va) # NoPage
  /\ pte' = [pte EXCEPT ![PteSlot(e, va)] = pp]
  /\ pte_perm' = [pte_perm EXCEPT ![PteSlot(e, va)] = perm \cup {"PTE_P"}]
  /\ pp_ref' = ref
  /\ page_free_list' = fr
  /\ dirty' = dt

NewTable(e, pp, va, perm, t, fr, dt) ==
  /\ PageTable(e, va) = NoPage
  /\ pte' = [Cleared(t) EXCEPT ![<<env_pgdir[e], va[1]>>] = t, ![<<t, va[2]>>] = pp]
  /\ pte_perm' = [ClearedPerm(t) EXCEPT ![<<env_pgdir[e], va[1]>>] = PermBits,
                                        ![<<t, va[2]>>] = perm \cup {"PTE_P"}]
  /\ pp_ref' = Incref(Incref(pp_ref, t), pp)
  /\ page_free_list' = fr \ {t}
  /\ dirty' = dt

\* Mutant: the page that was mapped at va is not removed.
page_insert_leak(e, pp, va, perm, fr, dt) ==
  \/ Overwrite(e, pp, va, perm, Incref(pp_ref, pp), fr, dt)
  \/ \E t \in fr : NewTable(e, pp, va, perm, t, fr, dt \ {t})

\* Mutant: the old page is removed before the new one is counted.
page_insert_late(e, pp, va, perm, fr, dt) ==
  LET old == page_lookup(e, va)
      ref == page_decref(pp_ref, old)
  IN \/ Overwrite(e, pp, va, perm, Incref(ref, pp), fr \cup Freed(ref, old), dt)
     \/ \E t \in fr : NewTable(e, pp, va, perm, t, fr, dt \ {t})

\* Mutant: a new page table is not cleared.
page_insert_raw(e, pp, va, perm, fr, dt) ==
  LET old == page_lookup(e, va)
      ref == page_decref(Incref(pp_ref, pp), old)
  IN \/ Overwrite(e, pp, va, perm, ref, fr \cup Freed(ref, old), dt)
     \/ \E t \in fr : NewTable(e, pp, va, perm, t, fr, dt)

\* page_insert of page pp at va of e; fr and dt are page_free_list and dirty
\* at the time of the call.  pp is counted before the old page is removed, so
\* mapping a page again where it is mapped already does not free it.
page_insert(e, pp, va, perm, fr, dt) ==
  LET old == page_lookup(e, va)
      ref == page_decref(Incref(pp_ref, pp), old)
  IN \/ Overwrite(e, pp, va, perm, ref, fr \cup Freed(ref, old), dt)
     \/ \E t \in fr : NewTable(e, pp, va, perm, t, fr, dt \ {t})

page_remove(e, va) ==
  LET x   == PteSlot(e, va)
      old == pte[x]
      ref == page_decref(pp_ref, old)
  IN /\ pte' = [pte EXCEPT ![x] = NoPage]
     /\ pte_perm' = [pte_perm EXCEPT ![x] = {}]
     /\ pp_ref' = ref
     /\ page_free_list' = page_free_list \cup Freed(ref, old)
     /\ UNCHANGED dirty

-------------------------------------------------------------------------------
(***************************************************************************)
(* Address spaces: env_setup_vm and env_free.                              *)
(***************************************************************************)
Alive(e) == env_pgdir[e] # NoPage

\* envid2env with checkperm: the caller itself or a child of it.
MayChange(c, e) == Alive(e) /\ (e = c \/ env_parent[e] = c)

\* Mutant: the directory is copied from the parent instead of the kernel.
sys_exofork_copy(c) ==
  /\ Alive(c)
  /\ \E e \in Envs, p \in page_free_list :
       /\ ~Alive(e)
       /\ page_free_list' = page_free_list \ {p}
       /\ pp_ref' = Incref(pp_ref, p)
       /\ pte' = [x \in Slots |-> IF x[1] = p THEN pte[<<env_pgdir[c], x[2]>>] ELSE pte[x]]
       /\ pte_perm' = [x \in Slots |-> IF x[1] = p THEN PermBits ELSE pte_perm[x]]
       /\ dirty' = dirty \ {p}
       /\ env_pgdir' = [env_pgdir EXCEPT ![e] = p]
       /\ env_parent' = [env_parent EXCEPT ![e] = c]

\* env_alloc, for sys_exofork: a page directory with nothing below UTOP.
sys_exofork(c) ==
  /\ Alive(c)
  /\ \E e \in Envs, p \in page_free_list :
       /\ ~Alive(e)
       /\ page_free_list' = page_free_list \ {p}
       /\ pp_ref' = Incref(pp_ref, p)
       /\ pte' = Cleared(p)
       /\ pte_perm' = ClearedPerm(p)
       /\ dirty' = dirty \ {p}
       /\ env_pgdir' = [env_pgdir EXCEPT ![e] = p]
       /\ env_parent' = [env_parent EXCEPT ![e] = c]

\* The page tables of e, and every slot of its directory and its tables.
Tables(e) == {pte[<<env_pgdir[e], i>>] : i \in Idx} \ {NoPage}
SlotsOf(e) == ({env_pgdir[e]} \cup Tables(e)) \X Idx

\* How many references to p go away with e.
Drops(e, p) == Cardinality({x \in SlotsOf(e) : pte[x] = p})
                 + (IF env_pgdir[e] = p THEN 1 ELSE 0)

\* A page is freed by the reference whose removal leaves the count at 0.
env_free(e) ==
  /\ pp_ref' = [p \in Pages |-> Wrap(pp_ref[p] - Drops(e, p))]
  /\ page_free_list' = page_free_list
       \cup {p \in Pages : \E n \in 1..Drops(e, p) : Wrap(pp_ref[p] - n) = 0}
  /\ pte' = [x \in Slots |-> IF x \in SlotsOf(e) THEN NoPage ELSE pte[x]]
  /\ pte_perm' = [x \in Slots |-> IF x \in SlotsOf(e) THEN {} ELSE pte_perm[x]]
  /\ env_pgdir' = [env_pgdir EXCEPT ![e] = NoPage]
  \* a child whose parent is gone has an env_parent_id that names nobody
  /\ env_parent' = [f \in Envs |-> IF f = e \/ env_parent[f] = e
                                   THEN NoEnv ELSE env_parent[f]]
  /\ UNCHANGED dirty

sys_env_destroy(c, e) ==
  /\ Alive(c) /\ MayChange(c, e)
  /\ env_free(e)

-------------------------------------------------------------------------------
(***************************************************************************)
(* System calls that map pages.                                            *)
(***************************************************************************)
GoodPerm(perm) == perm # {}          \* perm & PTE_SYSCALL, and no other bit

\* The page whose page_insert fails is not given back.
sys_page_alloc(c, e, va, perm) ==
  /\ Alive(c) /\ MayChange(c, e) /\ GoodPerm(perm)
  /\ \E pp \in page_free_list :
       LET fr == page_free_list \ {pp}
       IN \/ /\ CanInsert(e, va, fr)
             /\ page_insert(e, pp, va, perm, fr, dirty \ {pp})
          \/ /\ ~CanInsert(e, va, fr)
             /\ page_free_list' = fr
             /\ dirty' = dirty \ {pp}
             /\ UNCHANGED <<pp_ref, pte, pte_perm>>
  /\ UNCHANGED <<env_pgdir, env_parent>>

\* Mutant: write permission is not checked.
MayMap_any(e, va, perm) == page_lookup(e, va) # NoPage

\* May the page at va of e be mapped elsewhere with permission perm?
MayMap(e, va, perm) ==
  /\ page_lookup(e, va) # NoPage
  /\ "PTE_W" \in perm => "PTE_W" \in pte_perm[PteSlot(e, va)]

sys_page_map(c, src, srcva, dst, dstva, perm) ==
  /\ Alive(c) /\ MayChange(c, src) /\ MayChange(c, dst) /\ GoodPerm(perm)
  /\ MayMap(src, srcva, perm)
  /\ page_insert(dst, page_lookup(src, srcva), dstva, perm, page_free_list, dirty)
  /\ UNCHANGED <<env_pgdir, env_parent>>

sys_page_unmap(c, e, va) ==
  /\ Alive(c) /\ MayChange(c, e)
  /\ page_lookup(e, va) # NoPage
  /\ page_remove(e, va)
  /\ UNCHANGED <<env_pgdir, env_parent>>

\* A program stores into a page it may write.
user_write(e, va) ==
  /\ Alive(e)
  /\ page_lookup(e, va) # NoPage
  /\ PermBits \subseteq pte_perm[PteSlot(e, va)]
  /\ dirty' = dirty \cup {page_lookup(e, va)}
  /\ UNCHANGED <<page_free_list, pp_ref, pte, pte_perm, env_pgdir, env_parent>>

\* The page part of sys_ipc_try_send: e is blocked in sys_ipc_recv and asked
\* for a page at dstva, and c sends the page it has at srcva.  Address 0
\* counts as not asking for a page; a receiver that asked for none at UTOP is
\* the subject of JosIpc.
ipc_page(c, srcva, e, dstva, perm) ==
  /\ Alive(c) /\ Alive(e) /\ c # e /\ dstva # <<0, 0>>
  /\ {"PTE_P", "PTE_U"} \subseteq perm
  /\ MayMap(c, srcva, perm)
  /\ page_insert(e, page_lookup(c, srcva), dstva, perm, page_free_list, dirty)
  /\ UNCHANGED <<env_pgdir, env_parent>>

-------------------------------------------------------------------------------
(***************************************************************************)
(* After boot: one environment with a page directory, a page table and a   *)
(* writable page that load_icode has filled.                               *)
(***************************************************************************)
Init ==
  \E e \in Envs, dir, t, p \in Pages :
    /\ dir # t /\ dir # p /\ t # p
    /\ page_free_list = Pages \ {dir, t, p}
    /\ pp_ref = [q \in Pages |-> IF q \in {dir, t, p} THEN 1 ELSE 0]
    /\ pte = [x \in Slots |-> IF x = <<dir, 0>> THEN t
                              ELSE IF x = <<t, 0>> THEN p ELSE NoPage]
    /\ pte_perm = [x \in Slots |-> IF x \in {<<dir, 0>>, <<t, 0>>} THEN PermBits ELSE {}]
    /\ dirty = {p}
    /\ env_pgdir = [f \in Envs |-> IF f = e THEN dir ELSE NoPage]
    /\ env_parent = [f \in Envs |-> NoEnv]

Next ==
  \E c \in Envs :
    \/ sys_exofork(c)
    \/ \E va \in VAs : user_write(c, va)
    \/ \E e \in Envs : sys_env_destroy(c, e)
    \/ \E e \in Envs, va \in VAs : sys_page_unmap(c, e, va)
    \/ \E e \in Envs, va \in VAs, perm \in PermArgs : sys_page_alloc(c, e, va, perm)
    \/ \E e \in Envs, srcva, dstva \in VAs, perm \in PermArgs :
         ipc_page(c, srcva, e, dstva, perm)
    \/ \E src, dst \in Envs, srcva, dstva \in VAs, perm \in PermArgs :
         sys_page_map(c, src, srcva, dst, dstva, perm)

Spec == Init /\ [][Next]_vars

-------------------------------------------------------------------------------
(***************************************************************************)
(* Properties.                                                             *)
(***************************************************************************)
Dirs      == {env_pgdir[e] : e \in Envs} \ {NoPage}
PageTables == {pte[x] : x \in Dirs \X Idx} \ {NoPage}
UserSlots == PageTables \X Idx
UserPages == {pte[x] : x \in UserSlots} \ {NoPage}

\* How often f, a function on S, points to p.
Pointers(S, f, p) == Cardinality({x \in S : f[x] = p})

\* Every variable has its type.
TypeOK ==
  /\ page_free_list \in SUBSET Pages
  /\ pp_ref \in [Pages -> 0..(RefMod - 1)]
  /\ pte \in [Slots -> Pages \cup {NoPage}]
  /\ pte_perm \in [Slots -> SUBSET PermBits]
  /\ dirty \in SUBSET Pages
  /\ env_pgdir \in [Envs -> Pages \cup {NoPage}]
  /\ env_parent \in [Envs -> Envs \cup {NoEnv}]

\* "pp_ref is the count of pointers (usually in page table entries) to this
\* page", after any sequence of maps, remaps of a page onto itself, sends,
\* and exits of environments that share pages.
RefsExact ==
  \A p \in Pages :
    pp_ref[p] = Pointers(Envs, env_pgdir, p) + Pointers(Slots, pte, p)

\* A physical page has one role: free, page directory of one environment,
\* page table of one directory entry, or user memory.  No program can reach a
\* page directory, a page table or a free page, and no two address spaces
\* share a table (page_decref, page_insert, env_free).
Isolation ==
  /\ page_free_list \cap (Dirs \cup PageTables \cup UserPages) = {}
  /\ Dirs \cap (PageTables \cup UserPages) = {}
  /\ PageTables \cap UserPages = {}
  /\ \A e, f \in Envs : Alive(e) /\ env_pgdir[e] = env_pgdir[f] => e = f
  /\ \A x, y \in Dirs \X Idx : pte[x] # NoPage /\ pte[x] = pte[y] => x = y

\* A page directory or table never holds what a program stored in the page
\* before it was freed and allocated again (ALLOC_ZERO).
TablesClean == dirty \cap (Dirs \cup PageTables) = {}

\* No sequence of maps and sends makes a page writable that nobody could
\* write before: a page becomes writable when it is allocated, or because it
\* is writable elsewhere (the PTE_W tests of sys_page_map, sys_ipc_try_send).
WritablePages == {pte[x] : x \in {y \in UserSlots : "PTE_W" \in pte_perm[y]}} \ {NoPage}
NothingForged == WritablePages' \subseteq WritablePages \cup page_free_list
WriteNotForged == [][NothingForged]_vars

\* A system call changes at most one mapping of one environment that lives
\* on: page tables are never aliased, so no call reaches into another space.
Remapped(e, va) == Alive(e) /\ Alive(e)' /\ page_lookup(e, va)' # page_lookup(e, va)
OneMapping ==
  \A e, f \in Envs, va, vb \in VAs :
    Remapped(e, va) /\ Remapped(f, vb) => e = f /\ va = vb
OneMappingAtATime == [][OneMapping]_vars

\* "If page_insert() fails, remember to free the page you allocated!"
NoLeak == \A p \in Pages : pp_ref[p] = 0 => p \in page_free_list
===============================================================================
