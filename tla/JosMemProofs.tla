----------------------------- MODULE JosMemProofs -----------------------------
(***************************************************************************)
(* Proofs about JosMem, for any number of pages, environments and table    *)
(* entries, as long as no page is pointed to from so many places that the  *)
(* next one would wrap its count (RefFits).                                *)
(*                                                                         *)
(* RefsExact is not inductive by itself: that a page is freed only when    *)
(* nobody points to it needs the exact counts, and that the counts stay    *)
(* exact needs to know that a free page holds no entries and that no       *)
(* program can map a directory or a table.  IInv joins the two.            *)
(***************************************************************************)
EXTENDS JosMem, FiniteSetTheorems, TLAPS

\* No page has RefMod - 1 (65535) or more pointers to it.  page_insert counts up
\* a uint16_t and tests nothing, so that a program can leave these states.
RefFits ==
  \A p \in Pages : Pointers(Envs, env_pgdir, p) + Pointers(Slots, pte, p) + 2 <= RefMod

IsDir(p)   == \E e \in Envs : env_pgdir[e] = p
IsTable(p) == \E x \in Slots : IsDir(x[1]) /\ pte[x] = p

\* The shape of the page tables: a directory belongs to one environment and
\* nothing maps it; a table belongs to one directory entry and nothing else
\* maps it; only directories and tables hold entries; nothing points to a free
\* page.
Tree ==
  /\ \A e, f \in Envs : env_pgdir[e] # NoPage /\ env_pgdir[e] = env_pgdir[f] => e = f
  /\ \A x \in Slots : pte[x] # NoPage => ~IsDir(pte[x])
  /\ \A x, y \in Slots : pte[x] # NoPage /\ pte[x] = pte[y] /\ IsDir(x[1]) => x = y
  /\ \A x \in Slots : pte[x] # NoPage => IsDir(x[1]) \/ IsTable(x[1])
  /\ \A p \in page_free_list : ~IsDir(p) /\ \A x \in Slots : pte[x] # p

Clean == \A p \in dirty : ~IsDir(p) /\ ~IsTable(p)

IInv == TypeOK /\ RefsExact /\ Tree /\ Clean

\* f and g agree on S, except perhaps at x.
SameBut(S, f, g, x) == \A y \in S : y # x => g[y] = f[y]

\* f and g agree on S but for x and z.
SameButTwo(S, f, g, x, z) == \A y \in S : y # x /\ y # z => g[y] = f[y]

\* The step writes the table t to the entry x and the page pp to the entry z.
FillsTwo(x, t, z, pp) ==
  \A y \in Slots : pte'[y] = IF y = x THEN t ELSE IF y = z THEN pp ELSE pte[y]

-------------------------------------------------------------------------------
\* Two sets that differ in x at most.
LEMMA CountChange ==
  ASSUME NEW A, IsFiniteSet(A), NEW B, NEW x, \A y : y # x => (y \in A <=> y \in B)
  PROVE  Cardinality(B) = Cardinality(A) - (IF x \in A THEN 1 ELSE 0)
                                         + (IF x \in B THEN 1 ELSE 0)
<1>1. Cardinality(A) \in Nat
  BY FS_CardinalityType
<1>2. CASE x \in A <=> x \in B
  <2>1. A = B
    BY <1>2
  <2> QED BY <1>1, <1>2, <2>1
<1>3. CASE x \in A /\ x \notin B
  <2>1. B = A \ {x}
    BY <1>3
  <2>2. IsFiniteSet(B) /\ Cardinality(B) = Cardinality(A) - 1
    BY <1>3, <2>1, FS_RemoveElement
  <2> QED BY <1>1, <1>3, <2>2
<1>4. CASE x \notin A /\ x \in B
  <2>1. B = A \cup {x}
    BY <1>4
  <2>2. IsFiniteSet(B) /\ Cardinality(B) = Cardinality(A) + 1
    BY <1>4, <2>1, FS_AddElement
  <2> QED BY <1>1, <1>4, <2>2
<1> QED BY <1>2, <1>3, <1>4

\* The number of pointers is a number, at most one for each place, and 0
\* exactly when there is none.
LEMMA PointerType ==
  ASSUME NEW S, IsFiniteSet(S), NEW f, NEW p
  PROVE  /\ Pointers(S, f, p) \in Nat
         /\ Pointers(S, f, p) <= Cardinality(S)
         /\ Pointers(S, f, p) = 0 <=> \A x \in S : f[x] # p
<1> DEFINE A == {x \in S : f[x] = p}
<1>1. IsFiniteSet(A) /\ Cardinality(A) <= Cardinality(S)
  BY FS_Subset
<1>2. Cardinality(A) \in Nat /\ (Cardinality(A) = 0 <=> A = {})
  BY <1>1, FS_CardinalityType, FS_EmptySet
<1> QED BY <1>1, <1>2 DEF Pointers

\* Changing f at one place x.
LEMMA PointerChange ==
  ASSUME NEW S, IsFiniteSet(S), NEW f, NEW g, NEW x \in S, SameBut(S, f, g, x), NEW p
  PROVE  Pointers(S, g, p) = Pointers(S, f, p) - (IF f[x] = p THEN 1 ELSE 0)
                                               + (IF g[x] = p THEN 1 ELSE 0)
<1> DEFINE A == {y \in S : f[y] = p}
           B == {y \in S : g[y] = p}
<1>1. IsFiniteSet(A)
  BY FS_Subset
<1>2. \A y : y # x => (y \in A <=> y \in B)
  BY DEF SameBut
<1>3. (x \in A <=> f[x] = p) /\ (x \in B <=> g[x] = p)
  OBVIOUS
<1>4. Pointers(S, f, p) = Cardinality(A) /\ Pointers(S, g, p) = Cardinality(B)
  BY DEF Pointers
<1> HIDE DEF A, B
<1>5. Cardinality(B) = Cardinality(A) - (IF x \in A THEN 1 ELSE 0) + (IF x \in B THEN 1 ELSE 0)
  BY <1>1, <1>2, CountChange
<1> QED BY <1>3, <1>4, <1>5

\* There are finitely many places for entries.
LEMMA SlotsFinite == IsFiniteSet(Slots)
<1>1. IsFiniteSet(Idx)
  BY FS_Interval, NIDXAssumption DEF Idx
<1> QED BY <1>1, PagesAssumption, FS_Product DEF Slots

\* Filling two empty places.
LEMMA TwoPointers ==
  ASSUME NEW S, NEW f, NEW g, NEW x, NEW z, NEW p,
         IsFiniteSet(S), x \in S, z \in S, x # z,
         SameButTwo(S, f, g, x, z), f[x] # p, f[z] # p
  PROVE  Pointers(S, g, p) = Pointers(S, f, p) + (IF p = g[x] THEN 1 ELSE 0)
                                               + (IF p = g[z] THEN 1 ELSE 0)
<1> DEFINE h == [y \in S |-> IF y = x THEN g[x] ELSE f[y]]
<1>h. SameBut(S, f, h, x) /\ SameBut(S, h, g, z) /\ h[x] = g[x] /\ h[z] = f[z]
  BY DEF SameBut, SameButTwo
<1> HIDE DEF h
<1>1. Pointers(S, h, p) = Pointers(S, f, p) - (IF f[x] = p THEN 1 ELSE 0)
                                            + (IF h[x] = p THEN 1 ELSE 0)
  BY <1>h, PointerChange
<1>2. Pointers(S, g, p) = Pointers(S, h, p) - (IF h[z] = p THEN 1 ELSE 0)
                                            + (IF g[z] = p THEN 1 ELSE 0)
  BY <1>h, PointerChange
<1>3. Pointers(S, f, p) \in Nat /\ Pointers(S, h, p) \in Nat
  BY PointerType
<1> QED BY <1>h, <1>1, <1>2, <1>3

\* g is f with nothing left in R.
Emptied(S, R, f, g) == \A y \in S : g[y] = IF y \in R THEN NoPage ELSE f[y]

\* Clearing every place of R.
LEMMA PointerDrop ==
  ASSUME NEW S, IsFiniteSet(S), NEW R \in SUBSET S, NEW f, NEW g, Emptied(S, R, f, g),
         NEW p \in Pages
  PROVE  /\ Pointers(R, f, p) \in Nat
         /\ Pointers(S, g, p) = Pointers(S, f, p) - Pointers(R, f, p)
<1> DEFINE A == {y \in S : f[y] = p}
           B == {y \in R : f[y] = p}
           C == {y \in S : g[y] = p}
<1>1. IsFiniteSet(A) /\ IsFiniteSet(B) /\ IsFiniteSet(C)
  BY FS_Subset
<1>2. A = B \cup C /\ B \cap C = {}
  BY PagesAssumption DEF Emptied
<1>3. /\ Pointers(S, f, p) = Cardinality(A) /\ Pointers(R, f, p) = Cardinality(B)
      /\ Pointers(S, g, p) = Cardinality(C)
  BY DEF Pointers
<1> HIDE DEF A, B, C
<1>4. Cardinality(A) \in Nat /\ Cardinality(B) \in Nat /\ Cardinality(C) \in Nat
  BY <1>1, FS_CardinalityType
<1>5. Cardinality(B \cup C) = Cardinality(B) + Cardinality(C) - Cardinality(B \cap C)
  BY <1>1, FS_Union
<1>6. Cardinality(B \cap C) = 0
  BY <1>2, FS_EmptySet
<1> QED BY <1>2, <1>3, <1>4, <1>5, <1>6

\* A page that a program has mapped is neither a directory nor a table, and
\* is not free; its entry is in a table.
LEMMA Lookup ==
  ASSUME TypeOK, Tree, NEW e \in Envs, Alive(e), NEW va \in VAs
  PROVE  /\ <<env_pgdir[e], va[1]>> \in Slots /\ IsDir(env_pgdir[e])
         /\ va[1] \in Idx /\ va[2] \in Idx
         /\ PageTable(e, va) # NoPage
              => PteSlot(e, va) \in Slots /\ IsTable(PageTable(e, va)) /\ ~IsDir(PageTable(e, va))
         /\ page_lookup(e, va) # NoPage
              => /\ PageTable(e, va) # NoPage /\ page_lookup(e, va) = pte[PteSlot(e, va)]
                 /\ page_lookup(e, va) \in Pages
                 /\ ~IsDir(page_lookup(e, va)) /\ ~IsTable(page_lookup(e, va))
                 /\ page_lookup(e, va) \notin page_free_list
<1>1. /\ <<env_pgdir[e], va[1]>> \in Slots /\ IsDir(env_pgdir[e])
      /\ va[1] \in Idx /\ va[2] \in Idx
  BY DEF TypeOK, Alive, Slots, VAs, IsDir
<1>2. ASSUME PageTable(e, va) # NoPage
      PROVE  PteSlot(e, va) \in Slots /\ IsTable(PageTable(e, va)) /\ ~IsDir(PageTable(e, va))
  <2>1. PageTable(e, va) \in Pages
    BY <1>1, <1>2 DEF TypeOK, PageTable
  <2>2. IsTable(PageTable(e, va))
    BY <1>1 DEF IsTable, PageTable
  <2>3. ~IsDir(PageTable(e, va))
    BY <1>1, <1>2 DEF Tree, PageTable
  <2> QED BY <1>1, <2>1, <2>2, <2>3 DEF PteSlot, Slots
<1>3. ASSUME page_lookup(e, va) # NoPage
      PROVE  /\ PageTable(e, va) # NoPage /\ page_lookup(e, va) = pte[PteSlot(e, va)]
             /\ page_lookup(e, va) \in Pages
             /\ ~IsDir(page_lookup(e, va)) /\ ~IsTable(page_lookup(e, va))
             /\ page_lookup(e, va) \notin page_free_list
  <2> DEFINE x == PteSlot(e, va)
  <2>1. PageTable(e, va) # NoPage /\ page_lookup(e, va) = pte[x]
    BY <1>3 DEF page_lookup
  <2>2. x \in Slots /\ x[1] = PageTable(e, va) /\ ~IsDir(x[1])
    BY <1>2, <2>1 DEF PteSlot
  <2> HIDE DEF x
  <2>3. pte[x] \in Pages
    BY <1>3, <2>1, <2>2 DEF TypeOK
  <2>4. ~IsDir(pte[x])
    BY <1>3, <2>1, <2>2 DEF Tree
  <2>5. ~IsTable(pte[x])
    BY <1>3, <2>1, <2>2 DEF Tree, IsTable
  <2>6. pte[x] \notin page_free_list
    BY <2>2 DEF Tree
  <2> QED BY <2>1, <2>3, <2>4, <2>5, <2>6 DEF x
<1> QED BY <1>1, <1>2, <1>3

-------------------------------------------------------------------------------
\* Changing an entry of a table, to nothing or to a user page, keeps the shape.
LEMMA EntryTree ==
  ASSUME TypeOK, Tree, NEW x \in Slots, IsTable(x[1]), ~IsDir(x[1]), NEW q,
         q = NoPage \/ (q \in Pages /\ ~IsDir(q) /\ ~IsTable(q)),
         \A y \in Slots : pte'[y] = IF y = x THEN q ELSE pte[y], UNCHANGED env_pgdir,
         \A p \in page_free_list' : ~IsDir(p) /\ \A y \in Slots : pte'[y] # p
  PROVE  Tree' /\ (\A p : IsDir(p)' = IsDir(p)) /\ (\A p : IsTable(p)' = IsTable(p))
<1>1. \A y \in Slots : pte'[y] = IF y = x THEN q ELSE pte[y]
  OBVIOUS
<1>2. \A p : IsDir(p)' = IsDir(p)
  BY DEF IsDir
<1>3. \A y \in Slots : IsDir(y[1]) => pte'[y] = pte[y]
  BY <1>1
<1>4. \A p : IsTable(p)' = IsTable(p)
  BY <1>2, <1>3 DEF IsTable
<1>5. \A e, f \in Envs : env_pgdir'[e] # NoPage /\ env_pgdir'[e] = env_pgdir'[f] => e = f
  BY DEF Tree
<1>6. \A y \in Slots : pte'[y] # NoPage => ~IsDir(pte'[y])
  BY <1>1 DEF Tree
<1>7. ASSUME NEW y \in Slots, NEW z \in Slots, pte'[y] # NoPage, pte'[y] = pte'[z], IsDir(y[1])
      PROVE  y = z
  <2>1. y # x /\ pte'[y] = pte[y] /\ IsTable(pte[y])
    BY <1>1, <1>7 DEF IsTable
  <2>2. z # x
    BY <1>1, <1>7, <2>1, Zenon
  <2> QED BY <1>1, <1>7, <2>1, <2>2, Zenon DEF Tree
<1>8. \A y \in Slots : pte'[y] # NoPage => IsDir(y[1]) \/ IsTable(y[1])
  BY <1>1 DEF Tree
<1> QED BY <1>2, <1>4, <1>5, <1>6, <1>7, <1>8 DEF Tree

\* The exact counts of RefsExact, and their bounds.
LEMMA Counts ==
  ASSUME RefFits, TypeOK, RefsExact, NEW p \in Pages
  PROVE  /\ pp_ref[p] = Pointers(Envs, env_pgdir, p) + Pointers(Slots, pte, p)
         /\ Pointers(Envs, env_pgdir, p) \in Nat /\ Pointers(Slots, pte, p) \in Nat
         /\ pp_ref[p] \in Nat /\ pp_ref[p] + 2 <= RefMod
         /\ pp_ref[p] = 0 <=> ~IsDir(p) /\ \A x \in Slots : pte[x] # p
<1>1. pp_ref[p] = Pointers(Envs, env_pgdir, p) + Pointers(Slots, pte, p)
  BY DEF RefsExact
<1>2. /\ Pointers(Envs, env_pgdir, p) \in Nat
      /\ Pointers(Envs, env_pgdir, p) = 0 <=> ~IsDir(p)
  BY EnvsAssumption, PointerType DEF IsDir
<1>3. /\ Pointers(Slots, pte, p) \in Nat
      /\ Pointers(Slots, pte, p) = 0 <=> \A x \in Slots : pte[x] # p
  BY SlotsFinite, PointerType
<1> QED BY <1>1, <1>2, <1>3, RefModAssumption DEF RefFits

\* Nothing points to a page whose count is 0 after the step.
LEMMA Uncounted ==
  ASSUME RefsExact', NEW p \in Pages, pp_ref'[p] = 0
  PROVE  IsDir(p)' = FALSE /\ \A x \in Slots : pte'[x] # p
<1>1. pp_ref'[p] = Pointers(Envs, env_pgdir', p) + Pointers(Slots, pte', p)
  BY DEF RefsExact
<1>2. /\ Pointers(Envs, env_pgdir', p) \in Nat
      /\ Pointers(Envs, env_pgdir', p) = 0 <=> \A e \in Envs : env_pgdir'[e] # p
  BY EnvsAssumption, PointerType
<1>3. /\ Pointers(Slots, pte', p) \in Nat
      /\ Pointers(Slots, pte', p) = 0 <=> \A x \in Slots : pte'[x] # p
  BY SlotsFinite, PointerType
<1> QED BY <1>1, <1>2, <1>3 DEF IsDir

\* A step that changes one entry of a table, counts it and frees the old page
\* if its count is now 0.
LEMMA EntryStep ==
  ASSUME RefFits, IInv, NEW x \in Slots, IsTable(x[1]), ~IsDir(x[1]), NEW q,
         q = NoPage \/ (q \in Pages /\ ~IsDir(q) /\ ~IsTable(q)),
         pte' \in [Slots -> Pages \cup {NoPage}],
         \A y \in Slots : pte'[y] = IF y = x THEN q ELSE pte[y],
         pte_perm' \in [Slots -> SUBSET PermBits],
         UNCHANGED <<env_pgdir, env_parent>>,
         pp_ref' \in [Pages -> 0..(RefMod - 1)],
         \A p \in Pages : pp_ref'[p] = pp_ref[p] + (IF q = p THEN 1 ELSE 0)
                                                 - (IF pte[x] = p THEN 1 ELSE 0),
         NEW fr \in SUBSET page_free_list, q \notin fr,
         page_free_list' = fr \cup Freed(pp_ref', pte[x]),
         dirty' \subseteq dirty
  PROVE  IInv'
<1>1. \A y \in Slots : pte'[y] = IF y = x THEN q ELSE pte[y]
  OBVIOUS
<1>2. RefsExact'
  <2> SUFFICES ASSUME NEW p \in Pages
               PROVE  pp_ref'[p] = Pointers(Envs, env_pgdir', p) + Pointers(Slots, pte', p)
    BY DEF RefsExact
  <2>1. env_pgdir' = env_pgdir
    OBVIOUS
  <2>2. Pointers(Slots, pte', p)
           = Pointers(Slots, pte, p) - (IF pte[x] = p THEN 1 ELSE 0)
                                     + (IF pte'[x] = p THEN 1 ELSE 0)
    <3>1. SameBut(Slots, pte, pte', x)
      BY <1>1 DEF SameBut
    <3> QED BY <3>1, SlotsFinite, PointerChange
  <2>3. /\ pp_ref[p] = Pointers(Envs, env_pgdir, p) + Pointers(Slots, pte, p)
        /\ Pointers(Envs, env_pgdir, p) \in Nat /\ Pointers(Slots, pte, p) \in Nat
    BY Counts DEF IInv
  <2>4. pp_ref'[p] = pp_ref[p] + (IF q = p THEN 1 ELSE 0) - (IF pte[x] = p THEN 1 ELSE 0)
    OBVIOUS
  <2> QED BY <1>1, <2>1, <2>2, <2>3, <2>4
<1>3. TypeOK'
  <2>1. pte' \in [Slots -> Pages \cup {NoPage}]
    BY DEF IInv, TypeOK
  <2>2. page_free_list' \in SUBSET Pages
    BY DEF IInv, TypeOK, Freed
  <2> QED BY <2>1, <2>2 DEF IInv, TypeOK
<1>4. ASSUME NEW p \in page_free_list' PROVE ~IsDir(p) /\ \A y \in Slots : pte'[y] # p
  <2>1. CASE p \in fr
    BY <1>1, <2>1 DEF IInv, Tree
  <2>2. CASE p \notin fr
    <3>1. p = pte[x] /\ p # NoPage /\ pp_ref'[p] = 0
      BY <1>4, <2>2 DEF Freed
    <3>2. p \in Pages
      BY <3>1 DEF IInv, TypeOK
    <3> QED BY <1>2, <3>1, <3>2, Uncounted DEF IsDir
  <2> QED BY <2>1, <2>2
<1>5. Tree' /\ (\A p : IsDir(p)' = IsDir(p)) /\ (\A p : IsTable(p)' = IsTable(p))
  BY <1>4, EntryTree DEF IInv
<1>6. Clean'
  BY <1>5 DEF IInv, Clean
<1> QED BY <1>2, <1>3, <1>5, <1>6 DEF IInv

-------------------------------------------------------------------------------
\* Counting one more pointer and one less does not wrap.
LEMMA RefChange ==
  ASSUME RefFits, IInv, NEW x \in Slots, NEW pp \in Pages, NEW p \in Pages
  PROVE  LET ref == page_decref(Incref(pp_ref, pp), pte[x])
         IN  /\ ref \in [Pages -> 0..(RefMod - 1)]
             /\ ref[p] = pp_ref[p] + (IF pp = p THEN 1 ELSE 0) - (IF pte[x] = p THEN 1 ELSE 0)
<1> DEFINE inc == Incref(pp_ref, pp)
           ref == page_decref(inc, pte[x])
<1>1. \A r \in Pages : /\ pp_ref[r] \in Nat /\ pp_ref[r] + 2 <= RefMod
                       /\ pte[x] = r => pp_ref[r] >= 1
  <2> TAKE r \in Pages
  <2>1. /\ pp_ref[r] \in Nat /\ pp_ref[r] + 2 <= RefMod
        /\ pp_ref[r] = 0 <=> ~IsDir(r) /\ \A y \in Slots : pte[y] # r
    BY Counts DEF IInv
  <2> QED BY <2>1
<1>2. /\ DOMAIN inc = Pages
      /\ inc = [r \in Pages |-> inc[r]]
      /\ \A r \in Pages : inc[r] = pp_ref[r] + (IF pp = r THEN 1 ELSE 0)
  <2>1. DOMAIN inc = Pages /\ inc = [r \in Pages |-> inc[r]]
    BY Zenon DEF Incref, IInv, TypeOK
  <2>2. \A r \in Pages : inc[r] = IF pp = r THEN Wrap(pp_ref[r] + 1) ELSE pp_ref[r]
    BY DEF Incref, IInv, TypeOK
  <2> QED BY <1>1, <2>1, <2>2, RefModAssumption DEF Wrap
<1> HIDE DEF inc
<1>3. pte[x] \in Pages \cup {NoPage} /\ NoPage \notin Pages
  BY PagesAssumption DEF IInv, TypeOK
<1>4. ref = [r \in Pages |-> ref[r]]
  BY <1>2 DEF page_decref
<1>5. \A r \in Pages : ref[r] = pp_ref[r] + (IF pp = r THEN 1 ELSE 0)
                                          - (IF pte[x] = r THEN 1 ELSE 0)
  <2> TAKE r \in Pages
  <2>1. inc[r] = pp_ref[r] + (IF pp = r THEN 1 ELSE 0) /\ inc[r] \in Nat
    BY <1>1, <1>2
  <2>2. CASE pte[x] = r
    <3>1. ref[r] = Wrap(inc[r] - 1)
      BY <1>2, <1>3, <2>2 DEF page_decref
    <3> QED BY <1>1, <2>1, <2>2, <3>1, RefModAssumption DEF Wrap
  <2>3. CASE pte[x] # r
    <3>1. ref[r] = inc[r]
      BY <1>2, <1>3, <2>3 DEF page_decref
    <3> QED BY <1>1, <2>1, <2>3, <3>1
  <2> QED BY <2>2, <2>3
<1>6. \A r \in Pages : ref[r] \in 0..(RefMod - 1)
  BY <1>1, <1>5, RefModAssumption
<1> HIDE DEF ref
<1>7. ref \in [Pages -> 0..(RefMod - 1)]
  BY <1>4, <1>6
<1> QED BY <1>5, <1>7 DEF ref, inc

\* The same for page_decref alone.
LEMMA DecrefChange ==
  ASSUME RefFits, IInv, NEW x \in Slots
  PROVE  LET ref == page_decref(pp_ref, pte[x])
         IN  /\ ref \in [Pages -> 0..(RefMod - 1)]
             /\ \A p \in Pages : ref[p] = pp_ref[p] - (IF pte[x] = p THEN 1 ELSE 0)
<1>1. \A r \in Pages : /\ pp_ref[r] \in Nat /\ pp_ref[r] + 2 <= RefMod
                       /\ pte[x] = r => pp_ref[r] >= 1
  <2> TAKE r \in Pages
  <2>1. /\ pp_ref[r] \in Nat /\ pp_ref[r] + 2 <= RefMod
        /\ pp_ref[r] = 0 <=> ~IsDir(r) /\ \A y \in Slots : pte[y] # r
    BY Counts DEF IInv
  <2> QED BY <2>1
<1>2. pte[x] \in Pages \cup {NoPage} /\ NoPage \notin Pages
  BY PagesAssumption DEF IInv, TypeOK
<1> QED BY <1>1, <1>2, RefModAssumption DEF page_decref, Wrap, IInv, TypeOK

\* page_remove of a mapped page.
LEMMA RemoveStep ==
  ASSUME RefFits, IInv, NEW e \in Envs, Alive(e), NEW va \in VAs,
         page_lookup(e, va) # NoPage, page_remove(e, va), UNCHANGED <<env_pgdir, env_parent>>
  PROVE  IInv'
<1> DEFINE x == PteSlot(e, va)
<1>1. x \in Slots /\ x[1] = PageTable(e, va) /\ IsTable(x[1]) /\ ~IsDir(x[1])
  BY Lookup, Zenon DEF IInv, PteSlot
<1>2. /\ pte' = [pte EXCEPT ![x] = NoPage]
      /\ pte_perm' = [pte_perm EXCEPT ![x] = {}]
      /\ pp_ref' = page_decref(pp_ref, pte[x])
      /\ page_free_list' = page_free_list \cup Freed(pp_ref', pte[x])
      /\ dirty' = dirty
  BY DEF page_remove
<1> HIDE DEF x
<1>3. /\ pp_ref' \in [Pages -> 0..(RefMod - 1)]
      /\ \A p \in Pages : pp_ref'[p] = pp_ref[p] - (IF pte[x] = p THEN 1 ELSE 0)
  BY <1>1, <1>2, DecrefChange
<1>4. \A p \in Pages : pp_ref'[p] = pp_ref[p] + (IF NoPage = p THEN 1 ELSE 0)
                                              - (IF pte[x] = p THEN 1 ELSE 0)
  BY <1>3, PagesAssumption DEF IInv, TypeOK
<1>5. /\ pte' \in [Slots -> Pages \cup {NoPage}]
      /\ \A y \in Slots : pte'[y] = IF y = x THEN NoPage ELSE pte[y]
      /\ pte_perm' \in [Slots -> SUBSET PermBits]
  BY <1>1, <1>2 DEF IInv, TypeOK
<1>6. NoPage \notin page_free_list
  BY PagesAssumption DEF IInv, TypeOK
<1>7. page_free_list' = page_free_list \cup Freed(pp_ref', pte[x]) /\ dirty' \subseteq dirty
  BY <1>2
<1> QED BY <1>1, <1>3, <1>4, <1>5, <1>6, <1>7, EntryStep

\* page_insert where va has a page table.
LEMMA OverwriteStep ==
  ASSUME RefFits, IInv, NEW e \in Envs, Alive(e), NEW va \in VAs, NEW perm \in SUBSET PermBits,
         NEW pp \in Pages, ~IsDir(pp), ~IsTable(pp), NEW fr \in SUBSET page_free_list, pp \notin fr,
         NEW dt \in SUBSET dirty,
         LET old == page_lookup(e, va)
             ref == page_decref(Incref(pp_ref, pp), old)
         IN  Overwrite(e, pp, va, perm, ref, fr \cup Freed(ref, old), dt),
         UNCHANGED <<env_pgdir, env_parent>>
  PROVE  IInv'
<1> DEFINE x == PteSlot(e, va)
<1>1. PageTable(e, va) # NoPage /\ page_lookup(e, va) = pte[x]
  BY DEF Overwrite, page_lookup
<1>2. x \in Slots /\ x[1] = PageTable(e, va) /\ IsTable(x[1]) /\ ~IsDir(x[1])
  BY <1>1, Lookup, Zenon DEF IInv, PteSlot
<1>3. /\ pte' = [pte EXCEPT ![x] = pp]
      /\ pte_perm' = [pte_perm EXCEPT ![x] = perm \cup {"PTE_P"}]
      /\ pp_ref' = page_decref(Incref(pp_ref, pp), pte[x])
      /\ page_free_list' = fr \cup Freed(pp_ref', pte[x])
      /\ dirty' \subseteq dirty
  BY <1>1 DEF Overwrite
<1> HIDE DEF x
<1>r. /\ pp_ref' \in [Pages -> 0..(RefMod - 1)]
      /\ \A p \in Pages : pp_ref'[p] = pp_ref[p] + (IF pp = p THEN 1 ELSE 0)
                                                 - (IF pte[x] = p THEN 1 ELSE 0)
  BY <1>2, <1>3, RefChange
<1>4. pp_ref' \in [Pages -> 0..(RefMod - 1)]
  BY <1>r
<1>5. ASSUME NEW p \in Pages
      PROVE  pp_ref'[p] = pp_ref[p] + (IF pp = p THEN 1 ELSE 0) - (IF pte[x] = p THEN 1 ELSE 0)
  BY <1>r
<1>6. /\ pte' \in [Slots -> Pages \cup {NoPage}]
      /\ \A y \in Slots : pte'[y] = IF y = x THEN pp ELSE pte[y]
      /\ pte_perm' \in [Slots -> SUBSET PermBits]
  BY <1>2, <1>3 DEF IInv, TypeOK, PermBits
<1>7. page_free_list' = fr \cup Freed(pp_ref', pte[x]) /\ dirty' \subseteq dirty
  BY <1>3
<1> QED BY <1>2, <1>4, <1>5, <1>6, <1>7, EntryStep

\* A free page holds no entries.
LEMMA FreeIsEmpty ==
  ASSUME TypeOK, Tree, NEW t \in page_free_list
  PROVE  /\ t \in Pages /\ ~IsDir(t) /\ ~IsTable(t)
         /\ \A x \in Slots : x[1] = t => pte[x] = NoPage
         /\ \A x \in Slots : pte[x] # t
         /\ Cleared(t) = pte
<1>1. /\ t \in Pages /\ ~IsDir(t) /\ ~IsTable(t)
      /\ \A x \in Slots : pte[x] # t
  BY DEF TypeOK, Tree, IsTable
<1>2. \A x \in Slots : x[1] = t => pte[x] = NoPage
  BY <1>1 DEF Tree
<1>3. Cleared(t) = pte
  BY <1>2 DEF Cleared, TypeOK
<1> QED BY <1>1, <1>2, <1>3

\* The shape after a table t has been entered in a directory, with pp in it.
LEMMA NewTableTree ==
  ASSUME TypeOK, Tree, NEW x \in Slots, IsDir(x[1]), pte[x] = NoPage,
         NEW t \in page_free_list, NEW z \in Slots, z[1] = t,
         NEW pp \in Pages, ~IsDir(pp), ~IsTable(pp), pp # t,
         FillsTwo(x, t, z, pp), UNCHANGED env_pgdir,
         page_free_list' \subseteq page_free_list \ {t, pp}
  PROVE  Tree' /\ (\A p : IsDir(p)' = IsDir(p)) /\ (\A p : IsTable(p)' => IsTable(p) \/ p = t)
<1>0. \A y \in Slots : pte'[y] = IF y = x THEN t ELSE IF y = z THEN pp ELSE pte[y]
  BY DEF FillsTwo
<1> USE <1>0
<1>1. /\ t \in Pages /\ ~IsDir(t) /\ ~IsTable(t)
      /\ \A y \in Slots : y[1] = t => pte[y] = NoPage
      /\ \A y \in Slots : pte[y] # t
  BY FreeIsEmpty
<1>2. x # z /\ t # NoPage /\ pp # NoPage
  BY <1>1, PagesAssumption
<1>3. \A p : IsDir(p)' = IsDir(p)
  BY DEF IsDir
<1>4. \A p : IsTable(p)' => IsTable(p) \/ p = t
  BY <1>1, <1>3 DEF IsTable
<1>5. \A p : p # NoPage /\ (IsTable(p) \/ p = t) => IsTable(p)'
  <2> SUFFICES ASSUME NEW p, p # NoPage, IsTable(p) \/ p = t PROVE IsTable(p)'
    OBVIOUS
  <2>1. CASE p = t
    BY <1>3, <2>1 DEF IsTable
  <2>2. CASE IsTable(p)
    <3>1. PICK y \in Slots : IsDir(y[1]) /\ pte[y] = p
      BY <2>2 DEF IsTable
    <3>2. pte'[y] = p
      BY <1>1, <3>1
    <3> QED BY <1>3, <3>1, <3>2 DEF IsTable
  <2> QED BY <2>1, <2>2
<1>6. \A e, f \in Envs : env_pgdir'[e] # NoPage /\ env_pgdir'[e] = env_pgdir'[f] => e = f
  BY DEF Tree
<1>7. \A y \in Slots : pte'[y] # NoPage => ~IsDir(pte'[y])
  BY <1>1 DEF Tree
<1>8. ASSUME NEW y \in Slots, NEW w \in Slots, pte'[y] # NoPage, pte'[y] = pte'[w], IsDir(y[1])
      PROVE  y = w
  <2>1. y # z
    BY <1>1, <1>8
  <2>2. CASE y = x
    BY <1>1, <1>8, <2>2
  <2>3. CASE y # x
    <3>1. pte'[y] = pte[y] /\ IsTable(pte[y])
      BY <1>8, <2>1, <2>3 DEF IsTable
    <3>2. w # x /\ w # z
      BY <1>1, <1>2, <1>8, <3>1, Zenon
    <3>3. pte'[w] = pte[w]
      BY <3>2
    <3> QED BY <1>8, <3>1, <3>3, Zenon DEF Tree
  <2> QED BY <2>2, <2>3
<1>9. ASSUME NEW y \in Slots, pte'[y] # NoPage PROVE IsDir(y[1]) \/ IsTable(y[1])'
  <2>1. y[1] \in Pages /\ y[1] # NoPage
    BY PagesAssumption DEF Slots
  <2> QED BY <1>5, <1>9, <2>1 DEF Tree
<1>10. \A p \in page_free_list' : ~IsDir(p) /\ \A y \in Slots : pte'[y] # p
  BY DEF Tree
<1> QED BY <1>3, <1>4, <1>6, <1>7, <1>8, <1>9, <1>10 DEF Tree

\* page_insert where pgdir_walk allocates a page table.
LEMMA NewTableStep ==
  ASSUME RefFits, IInv, NEW e \in Envs, Alive(e), NEW va \in VAs, NEW perm \in SUBSET PermBits,
         NEW pp \in Pages, ~IsDir(pp), ~IsTable(pp), NEW fr \in SUBSET page_free_list, pp \notin fr,
         NEW dt \in SUBSET dirty, NEW t \in fr,
         NewTable(e, pp, va, perm, t, fr, dt \ {t}),
         UNCHANGED <<env_pgdir, env_parent>>
  PROVE  IInv'
<1> DEFINE x == <<env_pgdir[e], va[1]>>
           z == <<t, va[2]>>
<1>1. /\ t \in Pages /\ ~IsDir(t) /\ ~IsTable(t) /\ pp # t
      /\ \A y \in Slots : y[1] = t => pte[y] = NoPage
      /\ Cleared(t) = pte
  BY FreeIsEmpty, Zenon DEF IInv
<1>2. x \in Slots /\ IsDir(x[1]) /\ z \in Slots /\ z[1] = t /\ x # z
  BY <1>1, Lookup DEF IInv, Slots
<1>3. pte[x] = NoPage /\ pte[z] = NoPage
  BY <1>1, <1>2 DEF NewTable, PageTable
<1>4. /\ pte' = [pte EXCEPT ![x] = t, ![z] = pp]
      /\ pte_perm' = [ClearedPerm(t) EXCEPT ![x] = PermBits, ![z] = perm \cup {"PTE_P"}]
      /\ pp_ref' = Incref(Incref(pp_ref, t), pp)
      /\ page_free_list' = fr \ {t}
      /\ dirty' = dt \ {t}
  BY <1>1 DEF NewTable
<1> HIDE DEF x, z
<1>5. /\ pte' \in [Slots -> Pages \cup {NoPage}]
      /\ \A y \in Slots : pte'[y] = IF y = x THEN t ELSE IF y = z THEN pp ELSE pte[y]
  BY <1>1, <1>2, <1>4 DEF IInv, TypeOK
<1>6. pte_perm' \in [Slots -> SUBSET PermBits]
  <2>1. ClearedPerm(t) \in [Slots -> SUBSET PermBits]
    BY DEF ClearedPerm, IInv, TypeOK
  <2>2. PermBits \in SUBSET PermBits /\ perm \cup {"PTE_P"} \in SUBSET PermBits
    BY DEF PermBits
  <2> QED BY <1>4, <2>1, <2>2, Zenon
<1>7. /\ pp_ref' \in [Pages -> 0..(RefMod - 1)]
      /\ \A p \in Pages : pp_ref'[p] = pp_ref[p] + (IF p = t THEN 1 ELSE 0)
                                                 + (IF p = pp THEN 1 ELSE 0)
  <2>1. \A p \in Pages : pp_ref[p] \in Nat /\ pp_ref[p] + 2 <= RefMod
    BY Counts DEF IInv
  <2>2. pp_ref \in [Pages -> 0..(RefMod - 1)]
    BY DEF IInv, TypeOK
  <2>3. pp_ref' = [p \in Pages |-> IF p \in {t, pp} THEN Wrap(pp_ref[p] + 1) ELSE pp_ref[p]]
    BY <1>1, <1>4, <2>2, Zenon DEF Incref
  <2>4. \A p \in Pages : Wrap(pp_ref[p] + 1) = pp_ref[p] + 1
    BY <2>1, RefModAssumption DEF Wrap
  <2>5. ASSUME NEW p \in Pages
        PROVE  /\ pp_ref'[p] \in 0..(RefMod - 1)
               /\ pp_ref'[p] = pp_ref[p] + (IF p = t THEN 1 ELSE 0) + (IF p = pp THEN 1 ELSE 0)
    <3>1. pp_ref'[p] = IF p \in {t, pp} THEN pp_ref[p] + 1 ELSE pp_ref[p]
      BY <2>3, <2>4
    <3>2. pp_ref[p] \in Nat /\ pp_ref[p] + 2 <= RefMod /\ RefMod \in Nat
      BY <2>1, RefModAssumption
    <3>3. CASE p = t
      <4>1. p # pp
        BY <1>1, <3>3
      <4> QED BY <3>1, <3>2, <3>3, <4>1
    <3>4. CASE p # t
      BY <3>1, <3>2, <3>4
    <3> QED BY <3>3, <3>4
  <2>6. pp_ref' = [p \in Pages |-> pp_ref'[p]]
    BY <2>3, Zenon
  <2> QED BY <2>5, <2>6
<1>8. RefsExact'
  <2> SUFFICES ASSUME NEW p \in Pages
               PROVE  pp_ref'[p] = Pointers(Envs, env_pgdir', p) + Pointers(Slots, pte', p)
    BY DEF RefsExact
  <2>1. Pointers(Slots, pte', p) = Pointers(Slots, pte, p) + (IF p = pte'[x] THEN 1 ELSE 0)
                                                           + (IF p = pte'[z] THEN 1 ELSE 0)
    <3>1. SameButTwo(Slots, pte, pte', x, z)
      BY <1>5 DEF SameButTwo
    <3>2. pte[x] # p /\ pte[z] # p
      BY <1>3, PagesAssumption
    <3>3. IsFiniteSet(Slots) /\ x \in Slots /\ z \in Slots /\ x # z
      BY <1>2, SlotsFinite
    <3> QED BY <3>1, <3>2, <3>3, TwoPointers
  <2>2. /\ pp_ref[p] = Pointers(Envs, env_pgdir, p) + Pointers(Slots, pte, p)
        /\ Pointers(Envs, env_pgdir, p) \in Nat /\ Pointers(Slots, pte, p) \in Nat
    BY Counts DEF IInv
  <2>3. env_pgdir' = env_pgdir
    OBVIOUS
  <2>4. pte'[x] = t /\ pte'[z] = pp
    BY <1>2, <1>5
  <2>5. pp_ref'[p] = pp_ref[p] + (IF p = t THEN 1 ELSE 0) + (IF p = pp THEN 1 ELSE 0)
    BY <1>7
  <2> DEFINE a == Pointers(Envs, env_pgdir, p)
             b == Pointers(Slots, pte, p)
             b1 == Pointers(Slots, pte', p)
  <2>6. /\ b1 = b + (IF p = t THEN 1 ELSE 0) + (IF p = pp THEN 1 ELSE 0)
        /\ pp_ref[p] = a + b /\ a \in Nat /\ b \in Nat
    BY <2>1, <2>2, <2>4
  <2>7. Pointers(Envs, env_pgdir', p) = a
    BY <2>3
  <2> HIDE DEF a, b, b1
  <2>8. pp_ref'[p] = a + b1
    BY <2>5, <2>6
  <2> QED BY <2>7, <2>8 DEF b1
<1>9. page_free_list' \subseteq page_free_list \ {t, pp} /\ UNCHANGED env_pgdir
  BY <1>4, Zenon
<1>10. Tree' /\ (\A p : IsDir(p)' = IsDir(p)) /\ (\A p : IsTable(p)' => IsTable(p) \/ p = t)
  <2>1. TypeOK /\ Tree /\ t \in page_free_list
    BY DEF IInv
  <2>2. FillsTwo(x, t, z, pp)
    BY <1>5 DEF FillsTwo
  <2> QED BY <1>1, <1>2, <1>3, <1>9, <2>1, <2>2, NewTableTree
<1>11. TypeOK'
  BY <1>4, <1>5, <1>6, <1>7 DEF IInv, TypeOK
<1>12. Clean'
  BY <1>4, <1>10 DEF IInv, Clean
<1> QED BY <1>8, <1>10, <1>11, <1>12 DEF IInv

\* page_insert, for a page that is not a directory, a table or free.
LEMMA InsertStep ==
  ASSUME RefFits, IInv, NEW e \in Envs, Alive(e), NEW va \in VAs, NEW perm \in SUBSET PermBits,
         NEW pp \in Pages, ~IsDir(pp), ~IsTable(pp), NEW fr \in SUBSET page_free_list, pp \notin fr,
         NEW dt \in SUBSET dirty,
         page_insert(e, pp, va, perm, fr, dt), UNCHANGED <<env_pgdir, env_parent>>
  PROVE  IInv'
<1> DEFINE old == page_lookup(e, va)
           ref == page_decref(Incref(pp_ref, pp), old)
<1>1. CASE Overwrite(e, pp, va, perm, ref, fr \cup Freed(ref, old), dt)
  BY <1>1, OverwriteStep
<1>2. CASE \E t \in fr : NewTable(e, pp, va, perm, t, fr, dt \ {t})
  BY <1>2, NewTableStep, Zenon
<1> QED BY <1>1, <1>2 DEF page_insert

\* env_alloc: a new directory.
LEMMA ForkStep ==
  ASSUME RefFits, IInv, NEW c \in Envs, sys_exofork(c)
  PROVE  IInv'
<1>1. PICK e \in Envs, d \in page_free_list :
        /\ ~Alive(e)
        /\ page_free_list' = page_free_list \ {d}
        /\ pp_ref' = Incref(pp_ref, d)
        /\ pte' = Cleared(d)
        /\ pte_perm' = ClearedPerm(d)
        /\ dirty' = dirty \ {d}
        /\ env_pgdir' = [env_pgdir EXCEPT ![e] = d]
        /\ env_parent' = [env_parent EXCEPT ![e] = c]
  BY Zenon DEF sys_exofork
<1>2. /\ d \in Pages /\ ~IsDir(d) /\ ~IsTable(d) /\ d # NoPage
      /\ \A x \in Slots : x[1] = d => pte[x] = NoPage
      /\ \A x \in Slots : pte[x] # d
      /\ pte' = pte
  BY <1>1, FreeIsEmpty, PagesAssumption DEF IInv
<1>3. /\ env_pgdir[e] = NoPage
      /\ env_pgdir' \in [Envs -> Pages \cup {NoPage}]
      /\ \A f \in Envs : env_pgdir'[f] = IF f = e THEN d ELSE env_pgdir[f]
  BY <1>1, <1>2 DEF IInv, TypeOK, Alive
<1>4. /\ pp_ref' \in [Pages -> 0..(RefMod - 1)]
      /\ \A p \in Pages : pp_ref'[p] = pp_ref[p] + (IF p = d THEN 1 ELSE 0)
  <2>1. \A p \in Pages : pp_ref[p] \in Nat /\ pp_ref[p] + 2 <= RefMod
    BY Counts DEF IInv
  <2>2. pp_ref' = [p \in Pages |-> IF p = d THEN Wrap(pp_ref[p] + 1) ELSE pp_ref[p]]
    BY <1>1, <1>2, Zenon DEF Incref, IInv, TypeOK
  <2>3. \A p \in Pages : Wrap(pp_ref[p] + 1) = pp_ref[p] + 1
    BY <2>1, RefModAssumption DEF Wrap
  <2> QED BY <2>1, <2>2, <2>3, RefModAssumption
<1>5. RefsExact'
  <2> SUFFICES ASSUME NEW p \in Pages
               PROVE  pp_ref'[p] = Pointers(Envs, env_pgdir', p) + Pointers(Slots, pte', p)
    BY DEF RefsExact
  <2>1. Pointers(Envs, env_pgdir', p)
           = Pointers(Envs, env_pgdir, p) - (IF env_pgdir[e] = p THEN 1 ELSE 0)
                                          + (IF env_pgdir'[e] = p THEN 1 ELSE 0)
    <3>1. SameBut(Envs, env_pgdir, env_pgdir', e)
      BY <1>3 DEF SameBut
    <3> QED BY <3>1, EnvsAssumption, PointerChange
  <2>2. /\ pp_ref[p] = Pointers(Envs, env_pgdir, p) + Pointers(Slots, pte, p)
        /\ Pointers(Envs, env_pgdir, p) \in Nat /\ Pointers(Slots, pte, p) \in Nat
    BY Counts DEF IInv
  <2>3. env_pgdir[e] # p /\ (env_pgdir'[e] = p <=> p = d)
    BY <1>3, PagesAssumption
  <2>4. pp_ref'[p] = pp_ref[p] + (IF p = d THEN 1 ELSE 0)
    BY <1>4
  <2> DEFINE a == Pointers(Envs, env_pgdir, p)
             a1 == Pointers(Envs, env_pgdir', p)
             b == Pointers(Slots, pte, p)
  <2>5. /\ a1 = a + (IF p = d THEN 1 ELSE 0)
        /\ pp_ref[p] = a + b /\ a \in Nat /\ b \in Nat
    <3> HIDE DEF a, a1, b
    <3>1. /\ a1 = a - (IF env_pgdir[e] = p THEN 1 ELSE 0) + (IF env_pgdir'[e] = p THEN 1 ELSE 0)
          /\ pp_ref[p] = a + b /\ a \in Nat /\ b \in Nat
      BY <2>1, <2>2 DEF a, a1, b
    <3>2. CASE p = d
      BY <2>3, <3>1, <3>2
    <3>3. CASE p # d
      BY <2>3, <3>1, <3>3
    <3> QED BY <3>2, <3>3
  <2>6. Pointers(Slots, pte', p) = b
    BY <1>2
  <2> HIDE DEF a, a1, b
  <2>7. pp_ref'[p] = a1 + b
    BY <2>4, <2>5
  <2> QED BY <2>6, <2>7 DEF a1
<1>6. TypeOK'
  <2>1. pte_perm' \in [Slots -> SUBSET PermBits]
    BY <1>1 DEF ClearedPerm, IInv, TypeOK
  <2>2. env_parent' \in [Envs -> Envs \cup {NoEnv}]
    BY <1>1 DEF IInv, TypeOK
  <2> QED BY <1>1, <1>2, <1>3, <1>4, <2>1, <2>2 DEF IInv, TypeOK
<1>7. \A p : IsDir(p)' => IsDir(p) \/ p = d
  BY <1>3 DEF IsDir
<1>8. \A p : p # NoPage /\ IsDir(p) => IsDir(p)'
  BY <1>3 DEF IsDir
<1>9. \A p : p # NoPage => (IsTable(p)' <=> IsTable(p))
  <2>1. \A x \in Slots : x[1] # NoPage
    BY PagesAssumption DEF Slots
  <2> QED BY <1>2, <1>7, <1>8, <2>1 DEF IsTable
<1>10. Tree'
  <2>1. \A f, g \in Envs : env_pgdir'[f] # NoPage /\ env_pgdir'[f] = env_pgdir'[g] => f = g
    BY <1>2, <1>3 DEF IInv, Tree, IsDir
  <2>2. \A x \in Slots : pte'[x] # NoPage => ~IsDir(pte[x])'
    BY <1>2, <1>7 DEF IInv, Tree
  <2>3. \A x, y \in Slots : pte'[x] # NoPage /\ pte'[x] = pte'[y] /\ IsDir(x[1])' => x = y
    BY <1>2, <1>7, Zenon DEF IInv, Tree
  <2>4. \A x \in Slots : pte'[x] # NoPage => IsDir(x[1])' \/ IsTable(x[1])'
    <3>1. \A x \in Slots : x[1] # NoPage
      BY PagesAssumption DEF Slots
    <3> QED BY <1>2, <1>8, <1>9, <3>1, Zenon DEF IInv, Tree
  <2>5. \A p \in page_free_list' : ~IsDir(p)' /\ \A x \in Slots : pte'[x] # p
    BY <1>1, <1>2, <1>7 DEF IInv, Tree
  <2> QED BY <2>1, <2>2, <2>3, <2>4, <2>5 DEF Tree
<1>11. Clean'
  <2>1. \A p \in dirty : p # NoPage
    BY PagesAssumption DEF IInv, TypeOK
  <2> QED BY <1>1, <1>7, <1>9, <2>1 DEF IInv, Clean
<1> QED BY <1>5, <1>6, <1>10, <1>11 DEF IInv

-------------------------------------------------------------------------------
\* What env_free takes away: the directory and the tables of e, which no other
\* environment uses.
LEMMA FreeSlots ==
  ASSUME TypeOK, Tree, NEW e \in Envs, Alive(e)
  PROVE  /\ SlotsOf(e) \subseteq Slots
         /\ \A x \in Slots : x[1] = env_pgdir[e] => x \in SlotsOf(e)
         /\ \A x, y \in Slots : x[1] = env_pgdir[e] /\ pte[x] = y[1] => y \in SlotsOf(e)
         /\ \A x \in SlotsOf(e) : IsDir(x[1]) => x[1] = env_pgdir[e]
<1> DEFINE d == env_pgdir[e]
<1>1. d \in Pages /\ NoPage \notin Pages
  BY PagesAssumption DEF Alive, TypeOK
<1>2. \A i \in Idx : <<d, i>> \in Slots
  BY <1>1 DEF Slots
<1>3. Tables(e) \subseteq Pages
  <2>1. \A i \in Idx : pte[<<d, i>>] \in Pages \cup {NoPage}
    BY <1>2 DEF TypeOK
  <2> QED BY <2>1, Zenon DEF Tables
<1>4. SlotsOf(e) \subseteq Slots
  BY <1>1, <1>3 DEF SlotsOf, Slots
<1>5. \A x \in Slots : x[1] = d => x \in SlotsOf(e)
  BY DEF SlotsOf, Slots
<1>6. ASSUME NEW x \in Slots, NEW y \in Slots, x[1] = d, pte[x] = y[1]
      PROVE  y \in SlotsOf(e)
  <2>1. x = <<d, x[2]>> /\ x[2] \in Idx /\ y[1] \in Pages /\ y = <<y[1], y[2]>> /\ y[2] \in Idx
    BY <1>6 DEF Slots
  <2>2. y[1] \in Tables(e)
    BY <1>1, <1>6, <2>1 DEF Tables
  <2> QED BY <2>1, <2>2 DEF SlotsOf
<1>7. ASSUME NEW x \in SlotsOf(e), IsDir(x[1]) PROVE x[1] = d
  <2>1. x[1] = d \/ \E i \in Idx : x[1] = pte[<<d, i>>] /\ x[1] # NoPage
    BY DEF SlotsOf, Tables
  <2> QED BY <1>2, <1>7, <2>1, Zenon DEF Tree
<1> QED BY <1>4, <1>5, <1>6, <1>7

\* The counts after env_free.
LEMMA FreeCounts ==
  ASSUME RefFits, IInv, NEW e \in Envs, Alive(e), env_free(e)
  PROVE  /\ RefsExact'
         /\ pp_ref' \in [Pages -> 0..(RefMod - 1)]
         /\ \A p \in page_free_list' : p \in page_free_list \/ (p \in Pages /\ pp_ref'[p] = 0)
<1> DEFINE R == SlotsOf(e)
<1>1. R \subseteq Slots
  BY FreeSlots DEF IInv
<1>2. Emptied(Slots, R, pte, pte')
  BY DEF env_free, Emptied
<1>3. SameBut(Envs, env_pgdir, env_pgdir', e) /\ env_pgdir'[e] = NoPage
  BY DEF env_free, SameBut, IInv, TypeOK
<1> HIDE DEF R
<1>4. ASSUME NEW p \in Pages
      PROVE  /\ Drops(e, p) \in Nat /\ pp_ref[p] \in Nat /\ pp_ref[p] < RefMod
             /\ pp_ref[p] - Drops(e, p) = Pointers(Envs, env_pgdir', p) + Pointers(Slots, pte', p)
             /\ pp_ref[p] - Drops(e, p) \in Nat
  <2>1. /\ Pointers(R, pte, p) \in Nat
        /\ Pointers(Slots, pte', p) = Pointers(Slots, pte, p) - Pointers(R, pte, p)
    BY <1>1, <1>2, SlotsFinite, PointerDrop
  <2>2. Pointers(Envs, env_pgdir', p)
          = Pointers(Envs, env_pgdir, p) - (IF env_pgdir[e] = p THEN 1 ELSE 0)
                                         + (IF env_pgdir'[e] = p THEN 1 ELSE 0)
    BY <1>3, EnvsAssumption, PointerChange
  <2>3. Drops(e, p) = Pointers(R, pte, p) + (IF env_pgdir[e] = p THEN 1 ELSE 0)
    BY DEF Drops, Pointers, R
  <2>4. /\ pp_ref[p] = Pointers(Envs, env_pgdir, p) + Pointers(Slots, pte, p)
        /\ Pointers(Envs, env_pgdir, p) \in Nat /\ Pointers(Slots, pte, p) \in Nat
        /\ pp_ref[p] \in Nat /\ pp_ref[p] + 2 <= RefMod
    BY Counts DEF IInv
  <2>5. Pointers(Envs, env_pgdir', p) \in Nat /\ Pointers(Slots, pte', p) \in Nat
    BY EnvsAssumption, SlotsFinite, PointerType
  <2>6. env_pgdir'[e] # p
    BY <1>3, PagesAssumption, Zenon
  <2> DEFINE a == Pointers(Envs, env_pgdir, p)
             a1 == Pointers(Envs, env_pgdir', p)
             b == Pointers(Slots, pte, p)
             b1 == Pointers(Slots, pte', p)
             k == Pointers(R, pte, p)
             u == IF env_pgdir[e] = p THEN 1 ELSE 0
  <2>7. /\ k \in Nat /\ b1 = b - k /\ a1 = a - u /\ Drops(e, p) = k + u
        /\ pp_ref[p] = a + b /\ a \in Nat /\ b \in Nat /\ a1 \in Nat /\ b1 \in Nat
        /\ pp_ref[p] \in Nat /\ pp_ref[p] + 2 <= RefMod /\ u \in Nat
    <3> HIDE DEF a, a1, b, b1, k
    <3>1. a1 = a - u
      <4>1. a1 = a - u + 0 /\ a \in Nat
        BY <2>2, <2>4, <2>6 DEF a, a1
      <4> QED BY <4>1, SMT, Z3
    <3>2. k \in Nat /\ b1 = b - k /\ Drops(e, p) = k + u
      BY <2>1, <2>3 DEF b, b1, k
    <3> QED BY <2>4, <2>5, <3>1, <3>2 DEF a, a1, b, b1
  <2> HIDE DEF a, a1, b, b1, k, u
  <2>8. /\ Drops(e, p) \in Nat /\ pp_ref[p] < RefMod
        /\ pp_ref[p] - Drops(e, p) = a1 + b1 /\ pp_ref[p] - Drops(e, p) \in Nat
    BY <2>7, RefModAssumption
  <2> QED BY <2>7, <2>8 DEF a1, b1
<1>5. \A p \in Pages : pp_ref'[p] = pp_ref[p] - Drops(e, p) /\ pp_ref'[p] \in 0..(RefMod - 1)
  <2> TAKE p \in Pages
  <2>1. pp_ref'[p] = Wrap(pp_ref[p] - Drops(e, p))
    BY DEF env_free
  <2> DEFINE n == pp_ref[p] - Drops(e, p)
  <2>2. n \in Nat /\ n < RefMod /\ RefMod \in Nat \ {0}
    BY <1>4, RefModAssumption
  <2> HIDE DEF n
  <2>3. Wrap(n) = n /\ n \in 0..(RefMod - 1)
    BY <2>2 DEF Wrap
  <2> QED BY <2>1, <2>3 DEF n
<1>6. pp_ref' \in [Pages -> 0..(RefMod - 1)]
  <2>1. pp_ref' = [p \in Pages |-> pp_ref'[p]]
    BY Zenon DEF env_free
  <2> QED BY <1>5, <2>1, Zenon
<1>7. RefsExact'
  BY <1>4, <1>5, Zenon DEF RefsExact
<1>8. ASSUME NEW p \in page_free_list', p \notin page_free_list
      PROVE  p \in Pages /\ pp_ref'[p] = 0
  <2>1. p \in Pages /\ \E n \in 1..Drops(e, p) : Wrap(pp_ref[p] - n) = 0
    BY <1>8 DEF env_free
  <2>2. PICK n \in 1..Drops(e, p) : Wrap(pp_ref[p] - n) = 0
    BY <2>1
  <2>3. pp_ref[p] - n = 0
    <3>1. /\ Drops(e, p) \in Nat /\ pp_ref[p] \in Nat /\ pp_ref[p] < RefMod
          /\ pp_ref[p] - Drops(e, p) \in Nat
      BY <1>4, <2>1
    <3>2. RefMod \in Nat /\ n \in Nat
      BY <3>1, RefModAssumption
    <3> DEFINE m == pp_ref[p] - n
    <3>3. m \in Nat /\ m < RefMod
      BY <3>1, <3>2
    <3>4. Wrap(m) = 0
      BY <2>2
    <3> HIDE DEF m
    <3>5. m = 0
      BY <3>2, <3>3, <3>4 DEF Wrap
    <3> QED BY <3>5 DEF m
  <2> QED BY <1>4, <1>5, <2>1, <2>2, <2>3, SMT, Z3
<1> QED BY <1>6, <1>7, <1>8

\* env_free.
LEMMA FreeStep ==
  ASSUME RefFits, IInv, NEW e \in Envs, Alive(e), env_free(e)
  PROVE  IInv'
<1> DEFINE d == env_pgdir[e]
<1>1. /\ SlotsOf(e) \subseteq Slots
      /\ \A x \in Slots : x[1] = d => x \in SlotsOf(e)
      /\ \A x, y \in Slots : x[1] = d /\ pte[x] = y[1] => y \in SlotsOf(e)
      /\ \A x \in SlotsOf(e) : IsDir(x[1]) => x[1] = d
  BY FreeSlots DEF IInv
<1>2. /\ RefsExact'
      /\ pp_ref' \in [Pages -> 0..(RefMod - 1)]
      /\ \A p \in page_free_list' : p \in page_free_list \/ (p \in Pages /\ pp_ref'[p] = 0)
  BY FreeCounts
<1>3. /\ \A x \in Slots : pte'[x] = IF x \in SlotsOf(e) THEN NoPage ELSE pte[x]
      /\ \A f \in Envs : env_pgdir'[f] = IF f = e THEN NoPage ELSE env_pgdir[f]
      /\ dirty' = dirty
  BY DEF env_free, IInv, TypeOK
<1>4. TypeOK'
  <2>1. page_free_list' \in SUBSET Pages
    BY DEF env_free, IInv, TypeOK
  <2>2. pte' \in [Slots -> Pages \cup {NoPage}]
    BY DEF env_free, IInv, TypeOK
  <2>3. pte_perm' \in [Slots -> SUBSET PermBits]
    BY DEF env_free, IInv, TypeOK
  <2>4. env_pgdir' \in [Envs -> Pages \cup {NoPage}]
    BY DEF env_free, IInv, TypeOK
  <2>5. env_parent' \in [Envs -> Envs \cup {NoEnv}]
    BY DEF env_free, IInv, TypeOK
  <2> QED BY <1>2, <1>3, <2>1, <2>2, <2>3, <2>4, <2>5 DEF IInv, TypeOK
<1> HIDE DEF d
<1>5. \A p : p # NoPage => (IsDir(p)' <=> IsDir(p) /\ p # d)
  <2>1. \A f \in Envs : env_pgdir[f] # NoPage /\ env_pgdir[f] = d => f = e
    BY DEF IInv, Tree, d
  <2> QED BY <1>3, <2>1 DEF IsDir, d
<1>6. \A x \in Slots : x[1] \in Pages /\ x[1] # NoPage
  BY PagesAssumption DEF Slots
<1>7. \A p : p # NoPage /\ IsTable(p)' => IsTable(p)
  BY <1>3, <1>5, <1>6, Zenon DEF IsTable
<1>8. ASSUME NEW y \in Slots, pte'[y] # NoPage
      PROVE  IsDir(y[1])' \/ IsTable(y[1])'
  <2>1. y \notin SlotsOf(e) /\ pte[y] # NoPage
    BY <1>3, <1>8
  <2>2. CASE IsDir(y[1])
    BY <1>1, <1>5, <1>6, <2>1, <2>2
  <2>3. CASE IsTable(y[1])
    <3>1. PICK x \in Slots : IsDir(x[1]) /\ pte[x] = y[1]
      BY <2>3 DEF IsTable
    <3>2. x[1] # d /\ x \notin SlotsOf(e)
      BY <1>1, <2>1, <3>1
    <3>3. IsDir(x[1])' /\ pte'[x] = y[1]
      BY <1>3, <1>5, <1>6, <3>1, <3>2
    <3> QED BY <3>3 DEF IsTable
  <2> QED BY <2>1, <2>2, <2>3 DEF IInv, Tree
<1>9. ASSUME NEW p \in page_free_list' PROVE ~IsDir(p)' /\ \A x \in Slots : pte'[x] # p
  <2>1. p \in Pages /\ p # NoPage
    BY <1>4, PagesAssumption, Zenon DEF TypeOK
  <2>2. CASE p \in page_free_list
    BY <1>3, <1>5, <2>1, <2>2 DEF IInv, Tree
  <2>3. CASE pp_ref'[p] = 0
    BY <1>2, <2>1, <2>3, Uncounted, Zenon
  <2> QED BY <1>2, <2>2, <2>3
<1>10. Tree'
  <2>1. \A f, g \in Envs : env_pgdir'[f] # NoPage /\ env_pgdir'[f] = env_pgdir'[g] => f = g
    BY <1>3 DEF IInv, Tree
  <2>2. \A x \in Slots : pte'[x] # NoPage => ~IsDir(pte[x])'
    BY <1>3, <1>5, Zenon DEF IInv, Tree
  <2>3. \A x, y \in Slots : pte'[x] # NoPage /\ pte'[x] = pte'[y] /\ IsDir(x[1])' => x = y
    BY <1>3, <1>5, <1>6, Zenon DEF IInv, Tree
  <2> QED BY <1>8, <1>9, <2>1, <2>2, <2>3 DEF Tree
<1>11. Clean'
  <2>1. \A p \in dirty : p # NoPage
    BY PagesAssumption DEF IInv, TypeOK
  <2> QED BY <1>3, <1>5, <1>7, <2>1 DEF IInv, Clean
<1> QED BY <1>2, <1>4, <1>10, <1>11 DEF IInv

-------------------------------------------------------------------------------
\* The state after boot.
LEMMA InitIInv == ASSUME RefFits, Init PROVE IInv
<1>1. PICK e \in Envs, dir \in Pages, t \in Pages, p \in Pages :
        /\ dir # t /\ dir # p /\ t # p
        /\ page_free_list = Pages \ {dir, t, p}
        /\ pp_ref = [q \in Pages |-> IF q \in {dir, t, p} THEN 1 ELSE 0]
        /\ pte = [x \in Slots |-> IF x = <<dir, 0>> THEN t
                                  ELSE IF x = <<t, 0>> THEN p ELSE NoPage]
        /\ pte_perm = [x \in Slots |-> IF x \in {<<dir, 0>>, <<t, 0>>} THEN PermBits ELSE {}]
        /\ dirty = {p}
        /\ env_pgdir = [f \in Envs |-> IF f = e THEN dir ELSE NoPage]
        /\ env_parent = [f \in Envs |-> NoEnv]
  BY DEF Init
<1> DEFINE x == <<dir, 0>>
           z == <<t, 0>>
<1>2. x \in Slots /\ z \in Slots /\ x[1] = dir /\ z[1] = t /\ x # z
  BY <1>1, NIDXAssumption DEF Slots, Idx
<1>3. /\ pte \in [Slots -> Pages \cup {NoPage}]
      /\ \A y \in Slots : pte[y] = IF y = x THEN t ELSE IF y = z THEN p ELSE NoPage
  BY <1>1
<1>4. /\ env_pgdir \in [Envs -> Pages \cup {NoPage}]
      /\ \A f \in Envs : env_pgdir[f] = IF f = e THEN dir ELSE NoPage
  BY <1>1
<1>5. TypeOK
  <2>1. pte_perm \in [Slots -> SUBSET PermBits]
    BY <1>1
  <2>2. pp_ref \in [Pages -> 0..(RefMod - 1)]
    BY <1>1, RefModAssumption
  <2> QED BY <1>1, <1>3, <1>4, <2>1, <2>2 DEF TypeOK
<1> HIDE DEF x, z
<1>6. NoPage \notin Pages
  BY PagesAssumption
<1>7. \A q : q # NoPage => (IsDir(q) <=> q = dir)
  BY <1>4 DEF IsDir
<1>8. \A y \in Slots : y[1] # NoPage
  BY <1>6 DEF Slots
<1>9. \A q : q # NoPage => (IsTable(q) <=> q = t)
  BY <1>1, <1>2, <1>3, <1>7, <1>8, Zenon DEF IsTable
<1>10. Tree
  <2>1. \A f, g \in Envs : env_pgdir[f] # NoPage /\ env_pgdir[f] = env_pgdir[g] => f = g
    BY <1>4
  <2>2. \A y \in Slots : pte[y] # NoPage => ~IsDir(pte[y])
    BY <1>1, <1>3, <1>7
  <2>3. \A y, w \in Slots : pte[y] # NoPage /\ pte[y] = pte[w] /\ IsDir(y[1]) => y = w
    BY <1>1, <1>2, <1>3, <1>7, <1>8
  <2>4. \A y \in Slots : pte[y] # NoPage => IsDir(y[1]) \/ IsTable(y[1])
    BY <1>2, <1>3, <1>7, <1>8, <1>9
  <2>5. \A q \in page_free_list : ~IsDir(q) /\ \A y \in Slots : pte[y] # q
    BY <1>1, <1>3, <1>6, <1>7
  <2> QED BY <2>1, <2>2, <2>3, <2>4, <2>5 DEF Tree
<1>11. Clean
  BY <1>1, <1>6, <1>7, <1>9 DEF Clean
<1>12. RefsExact
  <2> SUFFICES ASSUME NEW q \in Pages
               PROVE  pp_ref[q] = Pointers(Envs, env_pgdir, q) + Pointers(Slots, pte, q)
    BY DEF RefsExact
  <2> DEFINE f0 == [f \in Envs |-> NoPage]
             g0 == [y \in Slots |-> NoPage]
  <2>1. /\ Pointers(Envs, f0, q) = 0 /\ Pointers(Slots, g0, q) = 0
    <3>1. (\A f \in Envs : f0[f] # q) /\ (\A y \in Slots : g0[y] # q)
      BY <1>6
    <3> HIDE DEF f0, g0
    <3> QED BY <3>1, EnvsAssumption, SlotsFinite, PointerType
  <2>2. SameBut(Envs, f0, env_pgdir, e) /\ f0[e] = NoPage /\ env_pgdir[e] = dir
    BY <1>4 DEF SameBut
  <2>3. /\ SameButTwo(Slots, g0, pte, x, z)
        /\ g0[x] # q /\ g0[z] # q
        /\ pte[x] = t /\ pte[z] = p
    BY <1>2, <1>3, <1>6 DEF SameButTwo
  <2> HIDE DEF f0, g0
  <2>4. Pointers(Envs, env_pgdir, q) = Pointers(Envs, f0, q) - (IF f0[e] = q THEN 1 ELSE 0)
                                                             + (IF env_pgdir[e] = q THEN 1 ELSE 0)
    BY <2>2, EnvsAssumption, PointerChange
  <2>5. Pointers(Slots, pte, q) = Pointers(Slots, g0, q) + (IF q = pte[x] THEN 1 ELSE 0)
                                                         + (IF q = pte[z] THEN 1 ELSE 0)
    <3>1. x \in Slots /\ z \in Slots /\ x # z /\ IsFiniteSet(Slots)
      BY <1>2, SlotsFinite
    <3> QED BY <2>3, <3>1, TwoPointers
  <2>6. pp_ref[q] = IF q \in {dir, t, p} THEN 1 ELSE 0
    BY <1>1
  <2>7. Pointers(Envs, env_pgdir, q) = IF q = dir THEN 1 ELSE 0
    BY <1>6, <2>1, <2>2, <2>4
  <2>8. Pointers(Slots, pte, q) = (IF q = t THEN 1 ELSE 0) + (IF q = p THEN 1 ELSE 0)
    BY <2>1, <2>3, <2>5
  <2>9. dir # t /\ dir # p /\ t # p
    BY <1>1
  <2> QED BY <2>6, <2>7, <2>8, <2>9
<1> QED BY <1>5, <1>10, <1>11, <1>12 DEF IInv

\* The test of sys_page_map and sys_ipc_try_send finds a user page.
LEMMA MapStep ==
  ASSUME RefFits, IInv, NEW src \in Envs, NEW dst \in Envs, Alive(src), Alive(dst),
         NEW srcva \in VAs, NEW dstva \in VAs, NEW perm \in PermArgs, MayMap(src, srcva, perm),
         page_insert(dst, page_lookup(src, srcva), dstva, perm, page_free_list, dirty),
         UNCHANGED <<env_pgdir, env_parent>>
  PROVE  IInv'
<1> DEFINE pp == page_lookup(src, srcva)
<1>1. pp \in Pages /\ ~IsDir(pp) /\ ~IsTable(pp) /\ pp \notin page_free_list
  BY Lookup, Zenon DEF MayMap, IInv
<1>2. perm \in SUBSET PermBits
  BY PermArgsAssumption
<1> HIDE DEF pp
<1>3. page_insert(dst, pp, dstva, perm, page_free_list, dirty)
  BY DEF pp
<1> QED BY <1>1, <1>2, <1>3, InsertStep, Zenon

\* sys_page_alloc, where page_insert succeeds and where it fails.
LEMMA AllocStep ==
  ASSUME RefFits, IInv, NEW c \in Envs, NEW e \in Envs, NEW va \in VAs, NEW perm \in PermArgs,
         sys_page_alloc(c, e, va, perm)
  PROVE  IInv'
<1>1. Alive(e) /\ UNCHANGED <<env_pgdir, env_parent>> /\ perm \in SUBSET PermBits
  BY PermArgsAssumption DEF sys_page_alloc, MayChange
<1>2. PICK pp \in page_free_list :
        LET fr == page_free_list \ {pp}
        IN \/ page_insert(e, pp, va, perm, fr, dirty \ {pp})
           \/ /\ page_free_list' = fr
              /\ dirty' = dirty \ {pp}
              /\ UNCHANGED <<pp_ref, pte, pte_perm>>
  BY Zenon DEF sys_page_alloc
<1>3. pp \in Pages /\ ~IsDir(pp) /\ ~IsTable(pp)
  BY FreeIsEmpty DEF IInv
<1> DEFINE fr == page_free_list \ {pp}
           dt == dirty \ {pp}
<1>4. fr \in SUBSET page_free_list /\ pp \notin fr /\ dt \in SUBSET dirty
  OBVIOUS
<1>5. CASE page_insert(e, pp, va, perm, fr, dt)
  <2> HIDE DEF fr, dt
  <2> QED BY <1>1, <1>3, <1>4, <1>5, InsertStep
<1>6. CASE /\ page_free_list' = fr
           /\ dirty' = dt
           /\ UNCHANGED <<pp_ref, pte, pte_perm>>
  <2>1. TypeOK'
    BY <1>1, <1>6, Zenon DEF IInv, TypeOK
  <2>2. RefsExact'
    BY <1>1, <1>6 DEF IInv, RefsExact, Pointers
  <2>3. (\A p : IsDir(p)' = IsDir(p)) /\ (\A p : IsTable(p)' = IsTable(p))
    BY <1>1, <1>6, Zenon DEF IsDir, IsTable
  <2>4. Tree'
    BY <1>1, <1>6, <2>3 DEF IInv, Tree
  <2>5. Clean'
    BY <1>6, <2>3 DEF IInv, Clean
  <2> QED BY <2>1, <2>2, <2>4, <2>5 DEF IInv
<1> QED BY <1>2, <1>5, <1>6

\* A store by a program.
LEMMA WriteStep ==
  ASSUME IInv, NEW e \in Envs, NEW va \in VAs, user_write(e, va)
  PROVE  IInv'
<1>1. /\ page_lookup(e, va) \in Pages
      /\ ~IsDir(page_lookup(e, va)) /\ ~IsTable(page_lookup(e, va))
  BY Lookup, Zenon DEF user_write, IInv
<1>2. /\ dirty' = dirty \cup {page_lookup(e, va)}
      /\ UNCHANGED <<page_free_list, pp_ref, pte, pte_perm, env_pgdir, env_parent>>
  BY DEF user_write
<1>3. TypeOK'
  BY <1>1, <1>2 DEF IInv, TypeOK
<1>4. RefsExact'
  BY <1>2 DEF IInv, RefsExact, Pointers
<1>5. (\A p : IsDir(p)' = IsDir(p)) /\ (\A p : IsTable(p)' = IsTable(p))
  BY <1>2, Zenon DEF IsDir, IsTable
<1>6. Tree'
  BY <1>2, <1>5 DEF IInv, Tree
<1>7. Clean'
  BY <1>1, <1>2, <1>5 DEF IInv, Clean
<1> QED BY <1>3, <1>4, <1>6, <1>7, Zenon DEF IInv

\* Every step keeps IInv.
LEMMA NextIInv == ASSUME RefFits, IInv, [Next]_vars PROVE IInv'
<1>1. CASE UNCHANGED vars
  <2>1. RefsExact'
    BY <1>1 DEF IInv, RefsExact, Pointers, vars, memVars
  <2>2. (\A p : IsDir(p)' = IsDir(p)) /\ (\A p : IsTable(p)' = IsTable(p))
    BY <1>1, Zenon DEF IsDir, IsTable, vars, memVars
  <2>3. Tree' /\ Clean'
    BY <1>1, <2>2 DEF IInv, Tree, Clean, vars, memVars
  <2>4. TypeOK'
    BY <1>1 DEF IInv, TypeOK, vars, memVars
  <2> QED BY <2>1, <2>3, <2>4 DEF IInv
<1>2. ASSUME NEW c \in Envs, sys_exofork(c) PROVE IInv'
  BY <1>2, ForkStep
<1>3. ASSUME NEW c \in Envs, NEW va \in VAs, user_write(c, va) PROVE IInv'
  BY <1>3, WriteStep
<1>4. ASSUME NEW c \in Envs, NEW e \in Envs, sys_env_destroy(c, e) PROVE IInv'
  BY <1>4, FreeStep DEF sys_env_destroy, MayChange
<1>5. ASSUME NEW c \in Envs, NEW e \in Envs, NEW va \in VAs, sys_page_unmap(c, e, va) PROVE IInv'
  BY <1>5, RemoveStep DEF sys_page_unmap, MayChange
<1>6. ASSUME NEW c \in Envs, NEW e \in Envs, NEW va \in VAs, NEW perm \in PermArgs,
             sys_page_alloc(c, e, va, perm)
      PROVE  IInv'
  BY <1>6, AllocStep
<1>7. ASSUME NEW c \in Envs, NEW e \in Envs, NEW srcva \in VAs, NEW dstva \in VAs,
             NEW perm \in PermArgs, ipc_page(c, srcva, e, dstva, perm)
      PROVE  IInv'
  BY <1>7, MapStep, Zenon DEF ipc_page
<1>8. ASSUME NEW c \in Envs, NEW src \in Envs, NEW dst \in Envs, NEW srcva \in VAs,
             NEW dstva \in VAs, NEW perm \in PermArgs,
             sys_page_map(c, src, srcva, dst, dstva, perm)
      PROVE  IInv'
  BY <1>8, MapStep DEF sys_page_map, MayChange
<1> QED BY <1>1, <1>2, <1>3, <1>4, <1>5, <1>6, <1>7, <1>8 DEF Next

-------------------------------------------------------------------------------
\* The sets of the properties, in the terms of Tree.
LEMMA Roles ==
  ASSUME TypeOK, Tree
  PROVE  /\ \A p \in Dirs : IsDir(p) /\ p \in Pages
         /\ \A p \in PageTables : IsTable(p) /\ ~IsDir(p) /\ p \in Pages
         /\ \A p \in UserPages : ~IsDir(p) /\ ~IsTable(p) /\ p \notin page_free_list
         /\ \A x \in Dirs \X Idx : x \in Slots /\ IsDir(x[1])
         /\ \A x \in UserSlots : x \in Slots /\ IsTable(x[1]) /\ ~IsDir(x[1])
<1>1. \A p \in Dirs : IsDir(p) /\ p \in Pages
  BY DEF Dirs, IsDir, TypeOK
<1>2. \A x \in Dirs \X Idx : x \in Slots /\ IsDir(x[1])
  BY <1>1 DEF Slots
<1>3. ASSUME NEW p \in PageTables PROVE IsTable(p) /\ ~IsDir(p) /\ p \in Pages
  <2>1. PICK x \in Dirs \X Idx : p = pte[x] /\ p # NoPage
    BY DEF PageTables
  <2>2. x \in Slots /\ IsDir(x[1])
    BY <1>2
  <2> QED BY <2>1, <2>2 DEF Tree, IsTable, TypeOK
<1>4. \A x \in UserSlots : x \in Slots /\ IsTable(x[1]) /\ ~IsDir(x[1])
  BY <1>3 DEF UserSlots, Slots
<1>5. ASSUME NEW p \in UserPages PROVE ~IsDir(p) /\ ~IsTable(p) /\ p \notin page_free_list
  <2>1. PICK x \in UserSlots : p = pte[x] /\ p # NoPage
    BY DEF UserPages
  <2>2. x \in Slots /\ ~IsDir(x[1])
    BY <1>4
  <2>3. ~IsTable(p)
    BY <2>1, <2>2, Zenon DEF Tree, IsTable
  <2> QED BY <2>1, <2>2, <2>3 DEF Tree
<1> QED BY <1>1, <1>2, <1>3, <1>4, <1>5

\* IInv implies the invariants that are model-checked.
LEMMA IInvIsolation == ASSUME IInv PROVE Isolation
<1>1. /\ \A p \in Dirs : IsDir(p) /\ p \in Pages
      /\ \A p \in PageTables : IsTable(p) /\ ~IsDir(p) /\ p \in Pages
      /\ \A p \in UserPages : ~IsDir(p) /\ ~IsTable(p) /\ p \notin page_free_list
      /\ \A x \in Dirs \X Idx : x \in Slots /\ IsDir(x[1])
  BY Roles DEF IInv
<1>2. \A p \in page_free_list : ~IsDir(p) /\ ~IsTable(p)
  BY DEF IInv, Tree, IsTable
<1>3. \A e, f \in Envs : Alive(e) /\ env_pgdir[e] = env_pgdir[f] => e = f
  BY DEF IInv, Tree, Alive
<1>4. \A x, y \in Dirs \X Idx : pte[x] # NoPage /\ pte[x] = pte[y] => x = y
  BY <1>1 DEF IInv, Tree
<1> QED BY <1>1, <1>2, <1>3, <1>4 DEF Isolation

\* The same for the contents of directories and tables.
LEMMA IInvTablesClean == ASSUME IInv PROVE TablesClean
<1>1. /\ \A p \in Dirs : IsDir(p)
      /\ \A p \in PageTables : IsTable(p)
  BY Roles DEF IInv
<1> QED BY <1>1 DEF TablesClean, IInv, Clean

-------------------------------------------------------------------------------
\* The invariant: pages are counted exactly and the page tables are trees,
\* after every sequence of system calls that keeps within RefFits.
THEOREM Invariance == Spec /\ []RefFits => []IInv
<1>1. RefFits /\ Init => IInv
  BY InitIInv
<1>2. RefFits /\ IInv /\ [Next]_vars => IInv'
  BY NextIInv
<1> QED BY <1>1, <1>2, PTL DEF Spec

\* Every variable keeps its type.
THEOREM TypeCorrect == Spec /\ []RefFits => []TypeOK
<1>1. IInv => TypeOK
  BY DEF IInv
<1> QED BY <1>1, Invariance, PTL

\* pp_ref is the number of pointers to a page (page_insert, page_remove,
\* env_free), whatever is mapped where, while no page has 65535 of them.
THEOREM ExactCounts == Spec /\ []RefFits => []RefsExact
<1>1. IInv => RefsExact
  BY DEF IInv
<1> QED BY <1>1, Invariance, PTL

\* Every page has one role and no two address spaces share a table.
THEOREM OneRole == Spec /\ []RefFits => []Isolation
<1>1. IInv => Isolation
  BY IInvIsolation
<1> QED BY <1>1, Invariance, PTL

\* No directory or table holds what a program stored.
THEOREM CleanTables == Spec /\ []RefFits => []TablesClean
<1>1. IInv => TablesClean
  BY IInvTablesClean, Zenon
<1> QED BY <1>1, Invariance, PTL

-------------------------------------------------------------------------------
(***************************************************************************)
(* The two action properties, from IInv: what a system call does to the    *)
(* mappings of the environments that live on, and to the permission to     *)
(* write a page.                                                           *)
(***************************************************************************)


\* Entry x of a table is the only one that changes.
EntryChange(x) ==
  /\ x \in Slots /\ IsTable(x[1]) /\ ~IsDir(x[1])
  /\ SameBut(Slots, pte, pte', x) /\ SameBut(Slots, pte_perm, pte_perm', x)

\* Directory entry x gets the new table t, which holds entry z only.
TableChange(x, z, t) ==
  /\ x \in Slots /\ IsDir(x[1]) /\ pte[x] = NoPage
  /\ t \in page_free_list /\ z \in Slots /\ z[1] = t /\ pte'[x] = t
  /\ \A y \in Slots : y # x /\ y # z => /\ pte'[y] = pte[y]
                                        /\ y[1] # t => pte_perm'[y] = pte_perm[y]

\* The entry of page pp is all that changes, but for a new table.
Inserts(pp, perm, fr) ==
  \E z \in Slots : /\ pte'[z] = pp /\ pte_perm'[z] = perm \cup {"PTE_P"}
                   /\ EntryChange(z) \/ \E x \in Slots, t \in fr : TableChange(x, z, t)

\* What page_insert changes.
LEMMA InsertShape ==
  ASSUME IInv, NEW e \in Envs, Alive(e), NEW va \in VAs, NEW perm \in SUBSET PermBits,
         NEW pp \in Pages, NEW fr \in SUBSET page_free_list, NEW dt,
         page_insert(e, pp, va, perm, fr, dt)
  PROVE  Inserts(pp, perm, fr)
<1> SUFFICES \E z \in Slots : /\ pte'[z] = pp /\ pte_perm'[z] = perm \cup {"PTE_P"}
                              /\ EntryChange(z) \/ \E x \in Slots, t \in fr : TableChange(x, z, t)
  BY Zenon DEF Inserts
<1> DEFINE old == page_lookup(e, va)
           ref == page_decref(Incref(pp_ref, pp), old)
           z == PteSlot(e, va)
           x == <<env_pgdir[e], va[1]>>
<1>1. CASE Overwrite(e, pp, va, perm, ref, fr \cup Freed(ref, old), dt)
  <2>1. z \in Slots /\ z[1] = PageTable(e, va) /\ IsTable(z[1]) /\ ~IsDir(z[1])
    BY <1>1, Lookup, Zenon DEF Overwrite, IInv, PteSlot
  <2>2. pte' = [pte EXCEPT ![z] = pp] /\ pte_perm' = [pte_perm EXCEPT ![z] = perm \cup {"PTE_P"}]
    BY <1>1 DEF Overwrite
  <2> HIDE DEF z
  <2>3. EntryChange(z) /\ pte'[z] = pp /\ pte_perm'[z] = perm \cup {"PTE_P"}
    BY <2>1, <2>2 DEF EntryChange, SameBut, IInv, TypeOK
  <2> QED BY <2>1, <2>3, Zenon
<1>2. ASSUME NEW t \in fr, NewTable(e, pp, va, perm, t, fr, dt \ {t})
      PROVE  \E w \in Slots : /\ pte'[w] = pp /\ pte_perm'[w] = perm \cup {"PTE_P"}
                              /\ \E y \in Slots : TableChange(y, w, t)
  <2> DEFINE w == <<t, va[2]>>
  <2>1. t \in Pages /\ ~IsDir(t) /\ Cleared(t) = pte
    BY FreeIsEmpty, Zenon DEF IInv
  <2>2. x \in Slots /\ IsDir(x[1]) /\ w \in Slots /\ w[1] = t /\ x # w
    BY <2>1, Lookup, Zenon DEF IInv, Slots
  <2>3. /\ pte[x] = NoPage
        /\ pte' = [pte EXCEPT ![x] = t, ![w] = pp]
        /\ pte_perm' = [ClearedPerm(t) EXCEPT ![x] = PermBits, ![w] = perm \cup {"PTE_P"}]
    BY <1>2, <2>1, Zenon DEF NewTable, PageTable
  <2>4. ClearedPerm(t) = [y \in Slots |-> IF y[1] = t THEN {} ELSE pte_perm[y]]
    BY Zenon DEF ClearedPerm
  <2> HIDE DEF x, w
  <2>5. pte'[x] = t /\ pte'[w] = pp /\ \A y \in Slots : y # x /\ y # w => pte'[y] = pte[y]
    BY <2>2, <2>3, Zenon DEF IInv, TypeOK
  <2>6. /\ pte_perm'[w] = perm \cup {"PTE_P"}
        /\ \A y \in Slots : y # x /\ y # w /\ y[1] # t => pte_perm'[y] = pte_perm[y]
    BY <2>2, <2>3, <2>4, Zenon
  <2>7. TableChange(x, w, t)
    BY <2>2, <2>3, <2>5, <2>6, Zenon DEF TableChange
  <2> QED BY <2>2, <2>5, <2>6, <2>7
<1> QED BY <1>1, <1>2, Zenon DEF page_insert

\* What page_remove changes.
LEMMA RemoveShape ==
  ASSUME IInv, NEW e \in Envs, Alive(e), NEW va \in VAs, page_lookup(e, va) # NoPage,
         page_remove(e, va)
  PROVE  \E z \in Slots : EntryChange(z) /\ pte'[z] = NoPage
<1> DEFINE z == PteSlot(e, va)
<1>1. z \in Slots /\ z[1] = PageTable(e, va) /\ IsTable(z[1]) /\ ~IsDir(z[1])
  BY Lookup, Zenon DEF IInv, PteSlot
<1>2. pte' = [pte EXCEPT ![z] = NoPage] /\ pte_perm' = [pte_perm EXCEPT ![z] = {}]
  BY Zenon DEF page_remove
<1> HIDE DEF z
<1> QED BY <1>1, <1>2 DEF EntryChange, SameBut, IInv, TypeOK

\* A mapping, its directory entry and its table entry.
LEMMA Mapping ==
  ASSUME TypeOK, NEW e \in Envs, Alive(e), NEW va \in VAs
  PROVE  LET x == <<env_pgdir[e], va[1]>>
         IN  /\ x \in Slots /\ IsDir(x[1]) /\ PageTable(e, va) = pte[x]
             /\ page_lookup(e, va) = IF pte[x] = NoPage THEN NoPage ELSE pte[<<pte[x], va[2]>>]
             /\ pte[x] # NoPage => <<pte[x], va[2]>> \in Slots
             /\ UNCHANGED env_pgdir =>
                  page_lookup(e, va)' = IF pte'[x] = NoPage THEN NoPage
                                        ELSE pte'[<<pte'[x], va[2]>>]
<1> DEFINE x == <<env_pgdir[e], va[1]>>
<1>1. x \in Slots /\ IsDir(x[1]) /\ va[2] \in Idx
  BY DEF TypeOK, Alive, Slots, VAs, IsDir
<1>2. PageTable(e, va) = pte[x]
  BY DEF PageTable
<1>3. page_lookup(e, va) = IF pte[x] = NoPage THEN NoPage ELSE pte[<<pte[x], va[2]>>]
  BY DEF page_lookup, PageTable, PteSlot
<1>4. pte[x] # NoPage => <<pte[x], va[2]>> \in Slots
  BY <1>1, Zenon DEF TypeOK, Slots
<1>5. UNCHANGED env_pgdir =>
        page_lookup(e, va)' = IF pte'[x] = NoPage THEN NoPage ELSE pte'[<<pte'[x], va[2]>>]
  BY Zenon DEF page_lookup, PageTable, PteSlot
<1> QED BY <1>1, <1>2, <1>3, <1>4, <1>5, Zenon

\* Two mappings of live environments with one table entry are one mapping.
LEMMA OneSlot ==
  ASSUME TypeOK, Tree, NEW e \in Envs, NEW f \in Envs, NEW va \in VAs, NEW vb \in VAs,
         Alive(e), Alive(f), va[2] = vb[2],
         \/ <<env_pgdir[e], va[1]>> = <<env_pgdir[f], vb[1]>>
         \/ /\ PageTable(e, va) # NoPage
            /\ PageTable(e, va) = PageTable(f, vb)
  PROVE  e = f /\ va = vb
<1> DEFINE x == <<env_pgdir[e], va[1]>>
           y == <<env_pgdir[f], vb[1]>>
<1>1. x \in Slots /\ y \in Slots /\ IsDir(x[1]) /\ PageTable(e, va) = pte[x]
      /\ PageTable(f, vb) = pte[y]
  BY Mapping, Zenon
<1>2. x = y
  BY <1>1, Zenon DEF Tree
<1>3. e = f /\ va[1] = vb[1]
  BY <1>2, Zenon DEF Tree, Alive
<1>4. va = <<va[1], va[2]>> /\ vb = <<vb[1], vb[2]>>
  BY DEF VAs
<1> QED BY <1>3, <1>4, Zenon

\* A change of one table entry changes the mapping of that entry only.
LEMMA EntryMaps ==
  ASSUME TypeOK, Tree, NEW z \in Slots, EntryChange(z), UNCHANGED env_pgdir
  PROVE  OneMapping
<1>1. \A y \in Slots : y # z => pte'[y] = pte[y]
  BY Zenon DEF EntryChange, SameBut
<1>2. ASSUME NEW e \in Envs, NEW va \in VAs, Remapped(e, va)
      PROVE  Alive(e) /\ PageTable(e, va) # NoPage /\ <<PageTable(e, va), va[2]>> = z
  <2> DEFINE x == <<env_pgdir[e], va[1]>>
  <2>1. Alive(e) /\ page_lookup(e, va)' # page_lookup(e, va)
    BY <1>2, Zenon DEF Remapped
  <2>2. /\ x \in Slots /\ IsDir(x[1]) /\ PageTable(e, va) = pte[x]
        /\ page_lookup(e, va) = IF pte[x] = NoPage THEN NoPage ELSE pte[<<pte[x], va[2]>>]
        /\ pte[x] # NoPage => <<pte[x], va[2]>> \in Slots
        /\ page_lookup(e, va)' = IF pte'[x] = NoPage THEN NoPage ELSE pte'[<<pte'[x], va[2]>>]
    BY <2>1, Mapping, Zenon
  <2> HIDE DEF x
  <2>3. pte'[x] = pte[x]
    BY <1>1, <2>2, Zenon DEF EntryChange
  <2>4. pte[x] # NoPage
    BY <2>1, <2>2, <2>3, Zenon
  <2>5. pte'[<<pte[x], va[2]>>] # pte[<<pte[x], va[2]>>]
    BY <2>1, <2>2, <2>3, <2>4, Zenon
  <2> QED BY <1>1, <2>1, <2>2, <2>4, <2>5
<1>3. ASSUME NEW e \in Envs, NEW f \in Envs, NEW va \in VAs, NEW vb \in VAs,
             Remapped(e, va), Remapped(f, vb)
      PROVE  e = f /\ va = vb
  <2>1. /\ Alive(e) /\ PageTable(e, va) # NoPage /\ <<PageTable(e, va), va[2]>> = z
        /\ Alive(f) /\ <<PageTable(f, vb), vb[2]>> = z
    BY <1>2, <1>3
  <2>2. PageTable(e, va) = PageTable(f, vb) /\ va[2] = vb[2]
    BY <2>1
  <2> QED BY <2>1, <2>2, OneSlot
<1> QED BY <1>3 DEF OneMapping

\* A new table changes one mapping: its other entries are empty.
LEMMA TableMaps ==
  ASSUME TypeOK, Tree, NEW x \in Slots, NEW z \in Slots, NEW t, TableChange(x, z, t),
         UNCHANGED env_pgdir
  PROVE  OneMapping
<1>1. /\ t \in Pages /\ ~IsDir(t) /\ ~IsTable(t) /\ t # NoPage
      /\ \A y \in Slots : y[1] = t => pte[y] = NoPage
      /\ \A y \in Slots : pte[y] # t
  BY FreeIsEmpty, PagesAssumption, Zenon DEF TableChange
<1>2. /\ \A y \in Slots : y # x /\ y # z => pte'[y] = pte[y]
      /\ IsDir(x[1]) /\ pte[x] = NoPage /\ pte'[x] = t /\ z[1] = t
  BY DEF TableChange
<1>3. ASSUME NEW e \in Envs, NEW va \in VAs, Remapped(e, va)
      PROVE  Alive(e) /\ <<env_pgdir[e], va[1]>> = x /\ <<t, va[2]>> = z
  <2> DEFINE y == <<env_pgdir[e], va[1]>>
             w == <<pte[y], va[2]>>
             v == <<t, va[2]>>
  <2>1. Alive(e) /\ page_lookup(e, va)' # page_lookup(e, va)
    BY <1>3, Zenon DEF Remapped
  <2>2. /\ y \in Slots /\ IsDir(y[1])
        /\ page_lookup(e, va) = IF pte[y] = NoPage THEN NoPage ELSE pte[w]
        /\ pte[y] # NoPage => w \in Slots
        /\ page_lookup(e, va)' = IF pte'[y] = NoPage THEN NoPage ELSE pte'[<<pte'[y], va[2]>>]
    BY <2>1, Mapping, Zenon
  <2>3. w[1] = pte[y] /\ v[1] = t /\ v \in Slots
    BY <1>1, Zenon DEF Slots, VAs
  <2>4. y # z
    BY <1>1, <1>2, <2>2, Zenon
  <2>5. CASE y # x
    <3>1. pte'[y] = pte[y]
      BY <1>2, <2>2, <2>4, <2>5, Zenon
    <3>2. pte[y] # NoPage => w # z /\ w # x
      <4>1. pte[y] # t
        BY <1>1, <2>2, Zenon
      <4>2. pte[y] # NoPage => ~IsDir(pte[y])
        BY <2>2, Zenon DEF Tree
      <4> QED BY <1>2, <2>3, <4>1, <4>2, Zenon
    <3>3. pte[y] # NoPage => pte'[w] = pte[w]
      BY <1>2, <2>2, <3>2
    <3> QED BY <2>1, <2>2, <3>1, <3>3, Zenon
  <2>6. CASE y = x
    <3>1. page_lookup(e, va) = NoPage /\ page_lookup(e, va)' = pte'[v]
      BY <1>1, <1>2, <2>2, <2>6, Zenon
    <3>2. v # x /\ pte[v] = NoPage
      BY <1>1, <1>2, <2>3, Zenon
    <3>3. v = z
      BY <1>2, <2>1, <2>3, <3>1, <3>2, Zenon
    <3> QED BY <2>1, <2>6, <3>3, Zenon
  <2> QED BY <2>5, <2>6
<1>4. ASSUME NEW e \in Envs, NEW f \in Envs, NEW va \in VAs, NEW vb \in VAs,
             Remapped(e, va), Remapped(f, vb)
      PROVE  e = f /\ va = vb
  <2>1. /\ Alive(e) /\ <<env_pgdir[e], va[1]>> = x /\ <<t, va[2]>> = z
        /\ Alive(f) /\ <<env_pgdir[f], vb[1]>> = x /\ <<t, vb[2]>> = z
    BY <1>3, <1>4
  <2>2. va[2] = vb[2] /\ <<env_pgdir[e], va[1]>> = <<env_pgdir[f], vb[1]>>
    BY <2>1
  <2> QED BY <2>1, <2>2, OneSlot
<1> QED BY <1>4, Zenon DEF OneMapping

\* env_free changes no mapping of another environment.
LEMMA FreeMaps ==
  ASSUME TypeOK, Tree, NEW e \in Envs, Alive(e), env_free(e)
  PROVE  OneMapping
<1> DEFINE d == env_pgdir[e]
<1>1. /\ \A y \in Slots : pte'[y] = IF y \in SlotsOf(e) THEN NoPage ELSE pte[y]
      /\ \A f \in Envs : env_pgdir'[f] = IF f = e THEN NoPage ELSE env_pgdir[f]
  BY DEF env_free, TypeOK
<1>2. \A i \in Idx : <<d, i>> \in Slots
  BY Zenon DEF Slots, Alive, TypeOK
<1>3. \A y \in SlotsOf(e) : y[1] = d \/ \E i \in Idx : y[1] = pte[<<d, i>>] /\ y[1] # NoPage
  BY Zenon DEF SlotsOf, Tables
<1>4. ASSUME NEW f \in Envs, NEW va \in VAs, Remapped(f, va) PROVE FALSE
  <2> DEFINE x == <<env_pgdir[f], va[1]>>
             w == <<pte[x], va[2]>>
  <2>1. Alive(f) /\ f # e /\ page_lookup(f, va)' # page_lookup(f, va)
    BY <1>1, <1>4, Zenon DEF Remapped, Alive
  <2>2. /\ x \in Slots /\ IsDir(x[1])
        /\ page_lookup(f, va) = IF pte[x] = NoPage THEN NoPage ELSE pte[w]
        /\ pte[x] # NoPage => w \in Slots
    BY <2>1, Mapping, Zenon
  <2>3. page_lookup(f, va)' = IF pte'[x] = NoPage THEN NoPage ELSE pte'[<<pte'[x], va[2]>>]
    BY <1>1, <2>1, Zenon DEF page_lookup, PageTable, PteSlot
  <2>4. x[1] # d /\ x[1] = env_pgdir[f]
    BY <2>1, Zenon DEF Tree, Alive
  <2>5. x \notin SlotsOf(e)
    BY <1>2, <1>3, <2>2, <2>4, Zenon DEF Tree
  <2>6. pte'[x] = pte[x]
    BY <1>1, <2>2, <2>5, Zenon
  <2>7. ASSUME pte[x] # NoPage PROVE w \notin SlotsOf(e)
    <3>1. w[1] = pte[x] /\ ~IsDir(w[1])
      BY <2>2, <2>7 DEF Tree
    <3>2. w[1] # d
      BY <3>1 DEF IsDir
    <3>3. \A i \in Idx : pte[<<d, i>>] # w[1]
      <4> SUFFICES ASSUME NEW i \in Idx, pte[<<d, i>>] = pte[x] PROVE FALSE
        BY <3>1, Zenon
      <4>1. x = <<d, i>>
        BY <1>2, <2>2, <2>7, Zenon DEF Tree
      <4> QED BY <2>4, <4>1, Zenon
    <3> QED BY <1>3, <3>2, <3>3, Zenon
  <2>8. pte[x] # NoPage => pte'[w] = pte[w]
    BY <1>1, <2>2, <2>7, Zenon
  <2> QED BY <2>1, <2>2, <2>3, <2>6, <2>8
<1> QED BY <1>4 DEF OneMapping

\* sys_exofork changes no mapping of an environment that was there.
LEMMA ForkMaps ==
  ASSUME TypeOK, Tree, NEW c \in Envs, sys_exofork(c)
  PROVE  OneMapping
<1>1. PICK e \in Envs, d \in page_free_list :
        ~Alive(e) /\ pte' = Cleared(d) /\ env_pgdir' = [env_pgdir EXCEPT ![e] = d]
  BY Zenon DEF sys_exofork
<1>2. pte' = pte
  BY <1>1, FreeIsEmpty
<1>3. \A f \in Envs : Alive(f) => env_pgdir'[f] = env_pgdir[f]
  BY <1>1 DEF TypeOK
<1>4. \A f \in Envs, va \in VAs : Alive(f) => page_lookup(f, va)' = page_lookup(f, va)
  BY <1>2, <1>3 DEF page_lookup, PageTable, PteSlot
<1> QED BY <1>4 DEF OneMapping, Remapped

-------------------------------------------------------------------------------
\* Some table entry lets a program write p.
Writable(p) == \E x \in Slots : IsTable(x[1]) /\ pte[x] = p /\ "PTE_W" \in pte_perm[x]

\* The set of the property, in these terms.
LEMMA WritableIs == ASSUME TypeOK PROVE \A p : p \in WritablePages <=> p # NoPage /\ Writable(p)
<1>1. \A p \in Pages : p \in PageTables <=> IsTable(p)
  <2> SUFFICES ASSUME NEW p \in Pages PROVE p \in PageTables <=> IsTable(p)
    OBVIOUS
  <2>1. p # NoPage
    BY PagesAssumption
  <2>2. ASSUME NEW x \in Slots PROVE x \in Dirs \X Idx <=> IsDir(x[1])
    <3>1. x = <<x[1], x[2]>> /\ x[1] \in Pages /\ x[2] \in Idx /\ x[1] # NoPage
      BY PagesAssumption DEF Slots
    <3>2. x[1] \in Dirs <=> IsDir(x[1])
      BY <3>1 DEF Dirs, IsDir
    <3> QED BY <3>1, <3>2
  <2>3. Dirs \X Idx \subseteq Slots
    BY DEF Dirs, Slots, TypeOK
  <2>4. p \in PageTables <=> \E x \in Dirs \X Idx : pte[x] = p
    BY <2>1 DEF PageTables
  <2> QED BY <2>2, <2>3, <2>4 DEF IsTable
<1>2. PageTables \subseteq Pages
  BY DEF PageTables, Dirs, Slots, TypeOK
<1>3. \A x : x \in UserSlots <=> x \in Slots /\ IsTable(x[1])
  BY <1>1, <1>2 DEF UserSlots, Slots
<1> QED BY <1>3 DEF WritablePages, Writable

\* It suffices that every entry that is writable after the step was so before
\* or holds a page that was writable or free.
LEMMA ForgedBy ==
  ASSUME TypeOK, TypeOK',
         \A x \in Slots : IsTable(x[1])' /\ pte'[x] # NoPage /\ "PTE_W" \in pte_perm'[x]
                            => Writable(pte'[x]) \/ pte'[x] \in page_free_list
  PROVE  NothingForged
<1>1. \A p : p \in WritablePages <=> p # NoPage /\ Writable(p)
  BY WritableIs
<1>2. (TypeOK => \A p : p \in WritablePages <=> p # NoPage /\ Writable(p))'
  BY WritableIs, PTL
<1>3. ASSUME NEW p \in WritablePages' PROVE p \in WritablePages \/ p \in page_free_list
  <2>1. p # NoPage /\ Writable(p)'
    BY <1>2
  <2>2. PICK x \in Slots : IsTable(x[1])' /\ pte'[x] = p /\ "PTE_W" \in pte_perm'[x]
    BY <2>1, Zenon DEF Writable
  <2> QED BY <1>1, <2>1, <2>2
<1> QED BY <1>3 DEF NothingForged

\* A changed entry forges nothing if its page may be written already.
LEMMA EntryForge ==
  ASSUME TypeOK, TypeOK', NEW z \in Slots, EntryChange(z), UNCHANGED env_pgdir,
         \/ pte'[z] = NoPage \/ "PTE_W" \notin pte_perm'[z]
         \/ Writable(pte'[z]) \/ pte'[z] \in page_free_list
  PROVE  NothingForged
<1>1. /\ \A y \in Slots : y # z => pte'[y] = pte[y] /\ pte_perm'[y] = pte_perm[y]
      /\ ~IsDir(z[1])
  BY DEF EntryChange, SameBut
<1>2. \A p : IsDir(p)' = IsDir(p)
  BY Zenon DEF IsDir
<1>3. \A p : IsTable(p)' => IsTable(p)
  BY <1>1, <1>2 DEF IsTable
<1>4. ASSUME NEW x \in Slots, IsTable(x[1])', pte'[x] # NoPage, "PTE_W" \in pte_perm'[x]
      PROVE  Writable(pte'[x]) \/ pte'[x] \in page_free_list
  <2>1. CASE x = z
    BY <1>4, <2>1
  <2>2. CASE x # z
    BY <1>1, <1>3, <1>4, <2>2, Zenon DEF Writable
  <2> QED BY <2>1, <2>2, Zenon
<1> QED BY <1>4, ForgedBy, Zenon

\* The same for a new table.
LEMMA TableForge ==
  ASSUME TypeOK, TypeOK', Tree, NEW x \in Slots, NEW z \in Slots, NEW t, TableChange(x, z, t),
         UNCHANGED env_pgdir,
         \/ "PTE_W" \notin pte_perm'[z] \/ Writable(pte'[z]) \/ pte'[z] \in page_free_list
  PROVE  NothingForged
<1>1. /\ ~IsDir(t)
      /\ \A y \in Slots : y[1] = t => pte[y] = NoPage
  BY FreeIsEmpty DEF TableChange
<1>2. /\ \A y \in Slots : y # x /\ y # z => /\ pte'[y] = pte[y]
                                            /\ y[1] # t => pte_perm'[y] = pte_perm[y]
      /\ IsDir(x[1]) /\ pte'[x] = t /\ z[1] = t /\ t \in page_free_list
  BY DEF TableChange
<1>3. \A p : IsDir(p)' = IsDir(p)
  BY Zenon DEF IsDir
<1>4. \A p : IsTable(p)' => IsTable(p) \/ p = t
  BY <1>1, <1>2, <1>3, Zenon DEF IsTable
<1>5. ASSUME NEW y \in Slots, IsTable(y[1])', pte'[y] # NoPage, "PTE_W" \in pte_perm'[y]
      PROVE  Writable(pte'[y]) \/ pte'[y] \in page_free_list
  <2>1. CASE y = z
    BY <1>5, <2>1
  <2>2. CASE y = x
    BY <1>2, <2>2, Zenon
  <2>3. CASE y # x /\ y # z
    <3>1. y[1] # t
      BY <1>1, <1>2, <1>5, <2>3, Zenon
    <3> QED BY <1>2, <1>4, <1>5, <2>3, <3>1, Zenon DEF Writable
  <2> QED BY <2>1, <2>2, <2>3
<1> QED BY <1>5, ForgedBy, Zenon

\* sys_exofork and env_free only take permissions away.
LEMMA LessForge ==
  ASSUME TypeOK, TypeOK',
         \A x \in Slots : pte'[x] # NoPage => /\ pte'[x] = pte[x]
                                               /\ pte_perm'[x] \subseteq pte_perm[x],
         \A p \in Pages : IsTable(p)' => IsTable(p)
  PROVE  NothingForged
<1>1. ASSUME NEW x \in Slots, IsTable(x[1])', pte'[x] # NoPage, "PTE_W" \in pte_perm'[x]
      PROVE  Writable(pte'[x])
  <2>1. x[1] \in Pages
    BY Zenon DEF Slots
  <2> QED BY <1>1, <2>1, Zenon DEF Writable
<1> QED BY <1>1, ForgedBy

\* Tables after env_free were tables before.
LEMMA FreeForge ==
  ASSUME TypeOK, TypeOK', NEW e \in Envs, env_free(e)
  PROVE  NothingForged
<1>1. /\ \A x \in Slots : pte'[x] = IF x \in SlotsOf(e) THEN NoPage ELSE pte[x]
      /\ \A x \in Slots : pte_perm'[x] = IF x \in SlotsOf(e) THEN {} ELSE pte_perm[x]
      /\ \A f \in Envs : env_pgdir'[f] = IF f = e THEN NoPage ELSE env_pgdir[f]
  BY DEF env_free, TypeOK
<1>2. \A p \in Pages : IsDir(p)' => IsDir(p)
  BY <1>1, PagesAssumption DEF IsDir
<1>3. \A x \in Slots : x[1] \in Pages
  BY Zenon DEF Slots
<1>4. \A p \in Pages : IsTable(p)' => IsTable(p)
  BY <1>1, <1>2, <1>3, PagesAssumption, Zenon DEF IsTable
<1> QED BY <1>1, <1>4, LessForge, Zenon

\* The new directory has no tables.
LEMMA ForkForge ==
  ASSUME TypeOK, TypeOK', Tree, NEW c \in Envs, sys_exofork(c)
  PROVE  NothingForged
<1>1. PICK e \in Envs, d \in page_free_list :
        /\ pte' = Cleared(d) /\ pte_perm' = ClearedPerm(d)
        /\ env_pgdir' = [env_pgdir EXCEPT ![e] = d]
  BY Zenon DEF sys_exofork
<1>2. pte' = pte /\ \A x \in Slots : x[1] = d => pte[x] = NoPage
  BY <1>1, FreeIsEmpty
<1>3. \A x \in Slots : pte_perm'[x] \subseteq pte_perm[x]
  BY <1>1 DEF ClearedPerm
<1>4. \A p : IsDir(p)' => IsDir(p) \/ p = d
  BY <1>1, Zenon DEF IsDir, TypeOK
<1>5. \A p \in Pages : IsTable(p)' => IsTable(p)
  BY <1>2, <1>4, PagesAssumption, Zenon DEF IsTable
<1> QED BY <1>2, <1>3, <1>5, LessForge

\* page_insert of a page that may be written already, or was free.
LEMMA InsertActs ==
  ASSUME IInv, IInv', NEW e \in Envs, Alive(e), NEW va \in VAs, NEW perm \in SUBSET PermBits,
         NEW pp \in Pages, NEW fr \in SUBSET page_free_list, NEW dt,
         page_insert(e, pp, va, perm, fr, dt), UNCHANGED env_pgdir,
         "PTE_W" \in perm => Writable(pp) \/ pp \in page_free_list
  PROVE  OneMapping /\ NothingForged
<1>1. PICK z \in Slots : /\ pte'[z] = pp /\ pte_perm'[z] = perm \cup {"PTE_P"}
                         /\ EntryChange(z) \/ \E x \in Slots, t \in fr : TableChange(x, z, t)
  <2>1. Inserts(pp, perm, fr)
    BY InsertShape, Zenon
  <2> QED BY <2>1 DEF Inserts
<1>2. "PTE_W" \notin pte_perm'[z] \/ Writable(pte'[z]) \/ pte'[z] \in page_free_list
  BY <1>1, Zenon
<1>3. CASE EntryChange(z)
  BY <1>2, <1>3, EntryMaps, EntryForge, Zenon DEF IInv
<1>4. CASE \E x \in Slots, t \in fr : TableChange(x, z, t)
  BY <1>2, <1>4, TableMaps, TableForge, Zenon DEF IInv
<1> QED BY <1>1, <1>3, <1>4, Zenon

\* A page that MayMap lets through may be written, if perm says so.
LEMMA MapActs ==
  ASSUME IInv, IInv', NEW src \in Envs, NEW dst \in Envs, Alive(src), Alive(dst),
         NEW srcva \in VAs, NEW dstva \in VAs, NEW perm \in PermArgs, MayMap(src, srcva, perm),
         page_insert(dst, page_lookup(src, srcva), dstva, perm, page_free_list, dirty),
         UNCHANGED env_pgdir
  PROVE  OneMapping /\ NothingForged
<1> DEFINE pp == page_lookup(src, srcva)
           x == PteSlot(src, srcva)
<1>1. /\ pp \in Pages /\ pp = pte[x]
      /\ x \in Slots /\ x[1] = PageTable(src, srcva) /\ IsTable(x[1])
      /\ perm \in SUBSET PermBits
  BY Lookup, PermArgsAssumption, Zenon DEF MayMap, IInv, PteSlot
<1>2. "PTE_W" \in perm => "PTE_W" \in pte_perm[x]
  BY Zenon DEF MayMap
<1> HIDE DEF x
<1>3. "PTE_W" \in perm => Writable(pp)
  BY <1>1, <1>2 DEF Writable
<1>4. page_insert(dst, pp, dstva, perm, page_free_list, dirty)
  OBVIOUS
<1> HIDE DEF pp
<1> QED BY <1>1, <1>3, <1>4, InsertActs, Zenon

\* Steps that leave the entries alone.
LEMMA StillActs ==
  ASSUME IInv, IInv', UNCHANGED <<pte, pte_perm, env_pgdir>>
  PROVE  OneMapping /\ NothingForged
<1>1. OneMapping
  <2>1. ASSUME NEW e \in Envs, NEW va \in VAs PROVE page_lookup(e, va)' = page_lookup(e, va)
    BY DEF page_lookup, PageTable, PteSlot
  <2>2. \A e \in Envs, va \in VAs : ~Remapped(e, va)
    BY <2>1 DEF Remapped
  <2> QED BY <2>2 DEF OneMapping
<1>2. \A p : IsTable(p)' => IsTable(p)
  BY DEF IsTable, IsDir
<1>3. NothingForged
  BY <1>2, LessForge, Zenon DEF IInv
<1> QED BY <1>1, <1>3

\* Every step satisfies both.
LEMMA NextActs == ASSUME IInv, IInv', Next PROVE OneMapping /\ NothingForged
<1>1. ASSUME NEW c \in Envs, sys_exofork(c) PROVE OneMapping /\ NothingForged
  BY <1>1, ForkMaps, ForkForge, Zenon DEF IInv
<1>2. ASSUME NEW c \in Envs, NEW va \in VAs, user_write(c, va)
      PROVE  OneMapping /\ NothingForged
  BY <1>2, StillActs DEF user_write
<1>3. ASSUME NEW c \in Envs, NEW e \in Envs, sys_env_destroy(c, e)
      PROVE  OneMapping /\ NothingForged
  BY <1>3, FreeMaps, FreeForge, Zenon DEF sys_env_destroy, MayChange, IInv
<1>4. ASSUME NEW c \in Envs, NEW e \in Envs, NEW va \in VAs, sys_page_unmap(c, e, va)
      PROVE  OneMapping /\ NothingForged
  <2>1. PICK z \in Slots : EntryChange(z) /\ pte'[z] = NoPage
    BY <1>4, RemoveShape DEF sys_page_unmap, MayChange
  <2> QED BY <1>4, <2>1, EntryMaps, EntryForge, Zenon DEF sys_page_unmap, IInv
<1>5. ASSUME NEW c \in Envs, NEW e \in Envs, NEW va \in VAs, NEW perm \in PermArgs,
             sys_page_alloc(c, e, va, perm)
      PROVE  OneMapping /\ NothingForged
  <2>1. PICK pp \in page_free_list :
          \/ page_insert(e, pp, va, perm, page_free_list \ {pp}, dirty \ {pp})
          \/ UNCHANGED <<pp_ref, pte, pte_perm>>
    BY <1>5, Zenon DEF sys_page_alloc
  <2>2. /\ Alive(e) /\ UNCHANGED env_pgdir /\ perm \in SUBSET PermBits /\ pp \in Pages
        /\ page_free_list \ {pp} \in SUBSET page_free_list
    BY <1>5, PermArgsAssumption DEF sys_page_alloc, MayChange, IInv, TypeOK
  <2>3. CASE page_insert(e, pp, va, perm, page_free_list \ {pp}, dirty \ {pp})
    BY <2>2, <2>3, InsertActs
  <2>4. CASE UNCHANGED <<pp_ref, pte, pte_perm>>
    BY <2>2, <2>4, StillActs, Zenon
  <2> QED BY <2>1, <2>3, <2>4
<1>6. ASSUME NEW c \in Envs, NEW e \in Envs, NEW srcva \in VAs, NEW dstva \in VAs,
             NEW perm \in PermArgs, ipc_page(c, srcva, e, dstva, perm)
      PROVE  OneMapping /\ NothingForged
  BY <1>6, MapActs, Zenon DEF ipc_page
<1>7. ASSUME NEW c \in Envs, NEW src \in Envs, NEW dst \in Envs, NEW srcva \in VAs,
             NEW dstva \in VAs, NEW perm \in PermArgs,
             sys_page_map(c, src, srcva, dst, dstva, perm)
      PROVE  OneMapping /\ NothingForged
  BY <1>7, MapActs DEF sys_page_map, MayChange
<1> QED BY <1>1, <1>2, <1>3, <1>4, <1>5, <1>6, <1>7, Zenon DEF Next

\* A system call changes at most one mapping of one environment that lives on
\* (page_insert, page_remove, env_free, env_setup_vm).
THEOREM OneMappingThm == Spec /\ []RefFits => OneMappingAtATime
<1>1. IInv /\ IInv' /\ [Next]_vars => [OneMapping]_vars
  BY NextActs
<1> QED BY <1>1, Invariance, PTL DEF Spec, OneMappingAtATime

\* No sequence of maps and sends makes a page writable that nobody could write
\* before and that was not just allocated (sys_page_map, sys_ipc_try_send).
THEOREM WriteThm == Spec /\ []RefFits => WriteNotForged
<1>1. IInv /\ IInv' /\ [Next]_vars => [NothingForged]_vars
  BY NextActs
<1> QED BY <1>1, Invariance, PTL DEF Spec, WriteNotForged
===============================================================================
