----------------------------- MODULE XvLogProofs -----------------------------
(***************************************************************************)
(* Proofs about XvLog, for any processes, blocks and sizes:                *)
(*   - what begin_op reserves is enough (Reserved), so that the log mkfs   *)
(*     makes is not overrun (LogFits) by calls that leave a block of it;   *)
(*   - a commit runs alone and no sleeper of begin_op is forgotten;        *)
(*   - while the log is not overrun, the only copy of a logged block is    *)
(*     pinned and file system calls are atomic (CallsAreAtomic).           *)
(***************************************************************************)
EXTENDS XvLog, FiniteSetTheorems, TLAPS

CommitPcs == {"write_log", "write_head", "install", "erase", "finish"}
RecoveryBoots == {"read_head", "install", "erase"}

Active == {p \in Procs : InOp(p)}

\* Who is where: one committer, no call beside it, nobody before recovery ends.
ProcInv ==
  /\ \A p \in Procs : pc[p] \in CommitPcs => committing
  /\ \A p, q \in Procs : pc[p] \in CommitPcs /\ pc[q] \in CommitPcs => p = q
  /\ committing => \A p \in Procs : ~InOp(p)
  /\ outstanding = Cardinality(Active)
  /\ \A p \in Procs : pc[p] = "append" => wr[p] \in Blocks
  /\ boot \in RecoveryBoots => ~committing /\ \A p \in Procs : pc[p] = "out"
  /\ boot = "panic" => ~committing

\* What calls have logged, and may still log.
UsedInv(p) ==
  /\ IsFiniteSet(used[p])
  /\ Cardinality(used[p]) <= MAXOPBLOCKS
  /\ InOp(p) => used[p] \subseteq InLog
  /\ pc[p] = "append" => Cardinality(used[p] \cup {wr[p]}) <= MAXOPBLOCKS

CountInv ==
  /\ \A p \in Procs : UsedInv(p)
  /\ Len(head) <= LOGSIZE
  /\ Reserved

\* The header in memory, the one on disk, and the loops over them.
LogInv ==
  /\ \A i, j \in 1..Len(lh) : lh[i] = lh[j] => i = j
  /\ \A i, j \in 1..Len(head) : head[i] = head[j] => i = j
  /\ boot = "read_head" => tail = 0
  /\ boot = "install" => tail < Len(lh)
  /\ boot \in {"install", "erase"} => lh = head
  /\ boot \in {"up", "panic"} => head = <<>> \/ \E p \in Procs : pc[p] \in {"install", "erase"}
  /\ \A p \in Procs : /\ pc[p] \in {"install", "erase"} => lh = head
                      /\ pc[p] \in {"write_log", "install"} => tail < Len(lh)
                      /\ pc[p] = "write_head" => tail = 0 /\ lh # <<>>

\* Where the contents of a logged block are.
PinInv ==
  /\ boot \in RecoveryBoots => dirty = {}
  /\ boot \in {"up", "panic"} => dirty \subseteq InLog
  /\ boot \in {"up", "panic"} => \A i \in 1..Len(lh) : Waiting(i) => lh[i] \in dirty

BufInv ==
  /\ \A b \in dirty : buf[b] # NoBuf
  /\ \A b \in Blocks \ dirty : buf[b] \in {NoBuf, home[b]}

BootInv ==
  /\ boot = "install" => \A i \in 1..tail : home[lh[i]] = logblk[i]
  /\ boot = "erase" => \A i \in 1..Len(lh) : home[lh[i]] = logblk[i]

LoopInv ==
  \A p \in Procs :
    /\ pc[p] = "write_log" => \A i \in 1..tail : logblk[i] = buf[lh[i]]
    /\ pc[p] = "write_head" => \A i \in 1..Len(lh) : logblk[i] = buf[lh[i]]
    /\ pc[p] = "install" =>
         \A i \in 1..Len(lh) :
           IF i <= tail THEN lh[i] \notin dirty /\ home[lh[i]] = logblk[i]
                        ELSE logblk[i] = buf[lh[i]]
    /\ pc[p] = "erase" => dirty = {} /\ \A i \in 1..Len(lh) : home[lh[i]] = logblk[i]

DataInv == PinInv /\ BufInv /\ BootInv /\ LoopInv

-------------------------------------------------------------------------------
(***************************************************************************)
(* Types                                                                   *)
(***************************************************************************)

PcSet == {"out", "begin", "sleep", "op", "append", "write_log",
          "write_head", "install", "erase", "finish"}

\* The parts of TypeOK.
HeadType == head \in Seq(Blocks) /\ lh \in Seq(Blocks)

CtrlType ==
  /\ outstanding \in Int
  /\ boot \in {"read_head", "install", "erase", "up", "panic"}
  /\ pc \in [Procs -> PcSet]
  /\ tail \in Nat
  /\ wr \in [Procs -> Blocks \cup {NoBuf}]
  /\ used \in [Procs -> SUBSET Blocks]

ValType ==
  /\ home \in [Blocks -> Vals]
  /\ logblk \in [1..(NLOG - 1) -> Vals]
  /\ buf \in [Blocks -> Vals \cup {NoBuf}]
  /\ dirty \subseteq Blocks

BoolType == committing \in BOOLEAN

\* The control state of the log: everything but counts and contents.
Shape == HeadType /\ CtrlType /\ ProcInv /\ LogInv

\* Waking sleepers keeps every other process where it is.
LEMMA WokenFacts ==
  ASSUME pc \in [Procs -> PcSet]
  PROVE  /\ Woken \in [Procs -> PcSet]
         /\ \A q \in Procs : /\ Woken[q] # "sleep"
                             /\ pc[q] # "sleep" => Woken[q] = pc[q]
                             /\ pc[q] = "sleep" => Woken[q] = "begin"
BY DEF Woken, PcSet

\* The empty set, whatever its name.
LEMMA CountEmpty == ASSUME NEW S, S = {} PROVE IsFiniteSet(S) /\ Cardinality(S) = 0
BY FS_EmptySet

\* The number of calls in progress when one process enters or leaves.
LEMMA CountActive ==
  ASSUME NEW S, NEW T, IsFiniteSet(S), NEW p
  PROVE  /\ p \notin S /\ T = S \cup {p} => Cardinality(T) = Cardinality(S) + 1
         /\ p \in S /\ T = S \ {p} => Cardinality(T) = Cardinality(S) - 1
         /\ Cardinality(S) \in Nat
         /\ p \in S /\ Cardinality(S) = 1 => S = {p}
<1>1. Cardinality(S) \in Nat
  BY FS_CardinalityType
<1>2. p \notin S /\ T = S \cup {p} => Cardinality(T) = Cardinality(S) + 1
  BY FS_AddElement
<1>3. p \in S /\ T = S \ {p} => Cardinality(T) = Cardinality(S) - 1
  BY FS_RemoveElement
<1>4. p \in S /\ Cardinality(S) = 1 => S = {p}
  <2> SUFFICES ASSUME p \in S, Cardinality(S) = 1
               PROVE  S = {p}
    OBVIOUS
  <2>1. Cardinality(S \ {p}) = 0 /\ IsFiniteSet(S \ {p})
    BY FS_RemoveElement
  <2>2. S \ {p} = {}
    BY <2>1, FS_EmptySet
  <2> QED
    BY <2>2
<1> QED
  BY <1>1, <1>2, <1>3, <1>4

\* The calls in progress are finitely many.
LEMMA ActiveFinite ==
  IsFiniteSet(Active) /\ IsFiniteSet(Active')
BY BlockConstants, FS_Subset DEF Active

\* Init establishes the control state.
LEMMA InitShape == Init => Shape
<1> SUFFICES ASSUME Init PROVE Shape
  OBVIOUS
<1>1. HeadType
  BY DEF Init, HeadType
<1>2. CtrlType
  BY DEF Init, CtrlType, PcSet
<1>3. Active = {}
  BY DEF Init, Active, InOp
<1>4. ProcInv
  BY <1>3, FS_EmptySet DEF Init, ProcInv, CommitPcs, RecoveryBoots, InOp
<1>5. LogInv
  BY DEF Init, LogInv
<1> QED
  BY <1>1, <1>2, <1>4, <1>5 DEF Shape

-------------------------------------------------------------------------------
(***************************************************************************)
(* Every step preserves the control state.  A step of one process p leaves *)
(* all others where they are, except for those it wakes.                   *)
(***************************************************************************)

\* p goes to x, and the others stay or are woken.
Goes(p, x) ==
  /\ pc' \in [Procs -> PcSet]
  /\ pc'[p] = x
  /\ \A q \in Procs \ {p} : pc'[q] = pc[q] \/ (pc[q] = "sleep" /\ pc'[q] = "begin")

\* An update of pc with EXCEPT, before or after waking.
LEMMA GoesTo ==
  ASSUME pc \in [Procs -> PcSet], NEW p \in Procs, NEW x \in PcSet,
         pc' = [pc EXCEPT ![p] = x] \/ pc' = [Woken EXCEPT ![p] = x]
  PROVE  Goes(p, x)
BY WokenFacts DEF Goes

\* What a move of p does to the calls in progress.
LEMMA GoesActive ==
  ASSUME NEW p \in Procs, NEW x \in PcSet, Goes(p, x)
  PROVE  /\ \A q \in Procs \ {p} : InOp(q)' <=> InOp(q)
         /\ InOp(p)' <=> x \in {"op", "append"}
         /\ Active' = IF x \in {"op", "append"} THEN Active \cup {p} ELSE Active \ {p}
<1>1. \A q \in Procs \ {p} : InOp(q)' <=> InOp(q)
  BY DEF Goes, InOp
<1>2. InOp(p)' <=> x \in {"op", "append"}
  BY DEF Goes, InOp
<1>3. Active' = IF x \in {"op", "append"} THEN Active \cup {p} ELSE Active \ {p}
  BY <1>1, <1>2 DEF Active
<1> QED
  BY <1>1, <1>2, <1>3

\* ProcInv after a move of p that is no commit step and ends no commit.
LEMMA ProcMoves ==
  ASSUME CtrlType, ProcInv, NEW p \in Procs, NEW x \in PcSet, Goes(p, x),
         boot' = boot \/ (boot' = "panic" /\ ~committing'), boot = "up",
         outstanding' = Cardinality(Active'),
         x \in CommitPcs => committing' /\ (pc[p] \in CommitPcs \/ ~committing),
         x \in {"op", "append"} => ~committing',
         x = "append" => wr'[p] \in Blocks,
         \A q \in Procs \ {p} : wr'[q] = wr[q],
         committing' => \A q \in Procs \ {p} : ~InOp(q),
         committing' \/ ~committing \/ pc[p] \in CommitPcs
  PROVE  ProcInv'
<1>1. \A q \in Procs : pc'[q] \in CommitPcs => committing'
  BY DEF ProcInv, Goes, CommitPcs, PcSet
<1>2. \A q, r \in Procs : pc'[q] \in CommitPcs /\ pc'[r] \in CommitPcs => q = r
  BY DEF ProcInv, Goes, CommitPcs, PcSet
<1>3. committing' => \A q \in Procs : ~InOp(q)'
  BY GoesActive
<1>4. \A q \in Procs : pc'[q] = "append" => wr'[q] \in Blocks
  BY DEF ProcInv, Goes
<1>5. boot' \notin RecoveryBoots
  BY DEF RecoveryBoots
<1> QED
  BY <1>1, <1>2, <1>3, <1>4, <1>5 DEF ProcInv

\* A step of begin_op.
LEMMA ShapeBegin ==
  ASSUME Shape, NEW p \in Procs, begin_op(p)
  PROVE  Shape'
<1> USE DEF Shape
<1>1. PICK x \in {"sleep", "op"} :
        /\ Goes(p, x)
        /\ x = "op" => ~committing /\ outstanding' = outstanding + 1
        /\ x = "sleep" => outstanding' = outstanding
  BY GoesTo DEF begin_op, MustWait, CtrlType, PcSet
<1>2. HeadType' /\ UNCHANGED <<head, lh, tail, wr, boot>>
  BY DEF begin_op, HeadType, diskVars
<1>3. CtrlType'
  BY <1>1, <1>2 DEF begin_op, CtrlType, Goes
<1>4. p \notin Active /\ outstanding' = Cardinality(Active')
  <2>1. p \notin Active
    BY DEF begin_op, Active, InOp
  <2>2. x \in PcSet
    BY DEF PcSet
  <2>3. x = "op" => Active' = Active \cup {p}
    BY <1>1, <2>2, GoesActive
  <2>4. x = "sleep" => Active' = Active
    BY <1>1, <2>1, <2>2, GoesActive
  <2> QED
    BY <1>1, <2>1, <2>3, <2>4, ActiveFinite, CountActive DEF ProcInv
<1>5. ProcInv'
  <2>1. x \in PcSet
    BY DEF PcSet
  <2> QED
    BY <1>1, <1>2, <1>4, <2>1, ProcMoves DEF begin_op, CommitPcs, ProcInv
<1>6. LogInv'
  BY <1>1, <1>2 DEF LogInv, Goes, begin_op
<1> QED
  BY <1>2, <1>3, <1>5, <1>6

\* The tests of log_write.
LEMMA ShapeLogWrite ==
  ASSUME Shape, NEW p \in Procs, NEW b \in Blocks, log_write(p, b)
  PROVE  Shape'
<1> USE DEF Shape
<1>0. p \in Active /\ ~committing /\ "append" \in PcSet /\ "op" \in PcSet
  BY DEF log_write, Active, InOp, ProcInv, PcSet
<1>1. PICK x \in {"op", "append"} :
        /\ Goes(p, x)
        /\ x = "op" => boot' = "panic" /\ UNCHANGED <<pc, wr>>
        /\ x = "append" => boot' = boot /\ wr'[p] = b
        /\ \A q \in Procs \ {p} : wr'[q] = wr[q]
  <2>1. CASE pc' = [pc EXCEPT ![p] = "append"] /\ wr' = [wr EXCEPT ![p] = b] /\ boot' = boot
    BY <1>0, <2>1, GoesTo, Zenon DEF CtrlType
  <2>2. CASE boot' = "panic" /\ UNCHANGED <<pc, wr>>
    BY <2>2 DEF CtrlType, Goes, log_write
  <2> QED
    BY <2>1, <2>2 DEF log_write, procVars
<1>2. HeadType' /\ UNCHANGED <<head, lh, tail, used, outstanding, committing>>
  BY DEF log_write, HeadType, diskVars, logVars, procVars
<1>3. CtrlType'
  BY <1>1, <1>2 DEF log_write, CtrlType, Goes, procVars
<1>4. Active' = Active
  BY <1>0, <1>1, GoesActive
<1>5. ProcInv'
  <2>1. \A q \in Procs : ~(pc[q] \in CommitPcs)
    BY <1>0 DEF ProcInv
  <2>2. boot = "up"
    BY DEF log_write
  <2>3. boot' = boot \/ (boot' = "panic" /\ ~committing')
    BY <1>0, <1>1, <1>2
  <2>4. x \in PcSet /\ x \notin CommitPcs
    BY <1>0 DEF CommitPcs
  <2>5. x = "append" => wr'[p] \in Blocks
    BY <1>1
  <2>6. outstanding' = Cardinality(Active')
    BY <1>2, <1>4 DEF ProcInv
  <2>7. ~committing'
    BY <1>0, <1>2
  <2>8. \A q \in Procs \ {p} : wr'[q] = wr[q]
    BY <1>1
  <2> QED
    BY <1>0, <1>1, <2>2, <2>3, <2>4, <2>5, <2>6, <2>7, <2>8, ProcMoves
<1>6. LogInv'
  BY <1>1, <1>2 DEF LogInv, Goes, log_write
<1> QED
  BY <1>2, <1>3, <1>5, <1>6

\* log_write under log.lock: the header may get one more, different, block.
LEMMA ShapeAppend ==
  ASSUME Shape, NEW p \in Procs, NEW v \in Vals, log_append(p, v)
  PROVE  Shape'
<1> USE DEF Shape
<1>0. p \in Active /\ ~committing /\ "op" \in PcSet /\ wr[p] \in Blocks
  BY DEF log_append, Active, InOp, ProcInv, PcSet
<1>1. Goes(p, "op") /\ \A q \in Procs \ {p} : wr'[q] = wr[q]
  BY <1>0, GoesTo, Zenon DEF log_append, CtrlType
<1>2. UNCHANGED <<head, tail, outstanding, committing, boot>>
  BY DEF log_append, diskVars
<1>3. HeadType'
  BY <1>0, <1>2 DEF HeadType, log_append, Appended
<1>4. CtrlType'
  BY <1>0, <1>1, <1>2 DEF log_append, CtrlType, Goes
<1>5. Active' = Active
  BY <1>0, <1>1, GoesActive
<1>6. ProcInv'
  <2>1. outstanding' = Cardinality(Active')
    BY <1>2, <1>5 DEF ProcInv
  <2>2. boot = "up" /\ "op" \notin CommitPcs
    BY DEF log_append, CommitPcs
  <2> QED
    BY <1>0, <1>1, <1>2, <2>1, <2>2, ProcMoves
<1>7. LogInv'
  <2>1. \A q \in Procs : pc[q] \notin {"install", "erase", "write_log", "write_head"}
    BY <1>0 DEF ProcInv, CommitPcs
  <2>2. \A q \in Procs : pc'[q] \notin {"install", "erase", "write_log", "write_head"}
    BY <1>1, <2>1 DEF Goes
  <2>3. \A i, j \in 1..Len(lh') : lh'[i] = lh'[j] => i = j
    BY <1>0 DEF log_append, Appended, InLog, LogInv, HeadType
  <2>4. head = <<>> /\ boot = "up"
    BY <2>1 DEF log_append, LogInv
  <2> QED
    BY <1>2, <2>2, <2>3, <2>4 DEF LogInv
<1> QED
  BY <1>3, <1>4, <1>6, <1>7

\* end_op, up to the decision to commit.
LEMMA ShapeEnd ==
  ASSUME Shape, NEW p \in Procs, end_op(p)
  PROVE  Shape'
<1> USE DEF Shape
<1>0. p \in Active /\ ~committing /\ boot = "up" /\ boot' = boot
  BY DEF end_op, Active, InOp, ProcInv
<1>1. HeadType' /\ UNCHANGED <<head, lh, wr, used>> /\ outstanding' = outstanding - 1
  BY DEF end_op, HeadType, diskVars
<1>2. PICK x \in {"out", "finish", "write_log"} :
        /\ Goes(p, x) /\ tail' \in Nat
        /\ x = "out" => ~committing' /\ tail' = tail
        /\ x # "out" => committing' /\ outstanding = 1 /\ tail' = 0
        /\ x = "write_log" => lh # <<>>
  BY <1>0, GoesTo DEF end_op, LastOut, CtrlType, PcSet
<1>3. x \in PcSet /\ x \notin {"op", "append"}
  BY DEF PcSet
<1>4. CtrlType'
  BY <1>0, <1>1, <1>2 DEF CtrlType, Goes
<1>5. Active' = Active \ {p} /\ outstanding' = Cardinality(Active')
  <2>1. Active' = Active \ {p}
    BY <1>2, <1>3, GoesActive
  <2> QED
    BY <1>0, <1>1, <2>1, ActiveFinite, CountActive DEF ProcInv
<1>6. x # "out" => \A q \in Procs \ {p} : ~InOp(q)
  <2>1. outstanding = 1 => Active = {p}
    BY <1>0, ActiveFinite, CountActive, Zenon DEF ProcInv
  <2> QED
    BY <1>2, <2>1 DEF Active
<1>7. ProcInv'
  <2>1. x \in CommitPcs => x # "out"
    BY DEF CommitPcs
  <2> QED
    BY <1>0, <1>1, <1>2, <1>3, <1>5, <1>6, <2>1, ProcMoves, Zenon DEF CommitPcs
<1>8. LogInv'
  <2>1. \A q \in Procs : pc[q] \notin {"install", "erase", "write_log", "write_head"}
    BY <1>0 DEF ProcInv, CommitPcs
  <2>2. \A q \in Procs : /\ pc'[q] \notin {"install", "erase", "write_head"}
                         /\ pc'[q] = "write_log" => q = p /\ x = "write_log"
    BY <1>2, <2>1 DEF Goes
  <2>3. head = <<>>
    BY <1>0, <2>1 DEF LogInv
  <2>4. x = "write_log" => tail' < Len(lh)
    BY <1>2 DEF HeadType
  <2> QED
    BY <1>0, <1>1, <2>2, <2>3, <2>4 DEF LogInv
<1> QED
  BY <1>1, <1>4, <1>7, <1>8

\* A round of a loop over the logged blocks, for the committer p.
LEMMA NextBlockFacts ==
  ASSUME CtrlType, HeadType, NEW p \in Procs, tail < Len(lh),
         NEW loop \in PcSet, NEW after \in PcSet, NextBlock(p, loop, after)
  PROVE  /\ tail' \in Nat
         /\ \/ Goes(p, loop) /\ tail' = tail + 1 /\ tail' < Len(lh)
            \/ Goes(p, after) /\ tail' = 0 /\ tail + 1 = Len(lh)
<1> Len(lh) \in Nat /\ tail \in Nat
  BY DEF HeadType, CtrlType
<1>1. CASE tail + 1 < Len(lh)
  BY <1>1, GoesTo DEF NextBlock, CtrlType
<1>2. CASE ~(tail + 1 < Len(lh))
  BY <1>2, GoesTo DEF NextBlock, CtrlType
<1> QED
  BY <1>1, <1>2

\* The committer takes a step from one commit state to another, or is done.
LEMMA ShapeCommitStep ==
  ASSUME Shape, NEW p \in Procs, pc[p] \in CommitPcs, boot = "up",
         UNCHANGED <<outstanding, boot, wr, used>>,
         NEW x \in PcSet, Goes(p, x),
         x \in CommitPcs \cup {"out"}, committing' <=> x # "out",
         tail' \in Nat
  PROVE  CtrlType' /\ ProcInv'
<1> USE DEF Shape
<1>1. CtrlType'
  BY DEF CtrlType, Goes
<1>2. x \notin {"op", "append"} /\ p \notin Active
  BY DEF CommitPcs, Active, InOp
<1>3. Active' = Active
  BY <1>2, GoesActive
<1>4. committing /\ \A q \in Procs : ~InOp(q)
  BY DEF ProcInv
<1>5. outstanding' = Cardinality(Active')
  BY <1>3 DEF ProcInv
<1>6. "out" \notin CommitPcs
  BY DEF CommitPcs
<1>7. ProcInv'
  BY <1>2, <1>4, <1>5, <1>6, ProcMoves
<1> QED
  BY <1>1, <1>7

\* The steps of commit, and the end of end_op.
LEMMA ShapeCommit ==
  ASSUME Shape, NEW p \in Procs, commit(p)
  PROVE  Shape'
<1> USE DEF Shape
<1>0. /\ pc[p] \in CommitPcs /\ boot = "up" /\ committing
      /\ UNCHANGED <<outstanding, boot, wr, used>>
      /\ \A q \in Procs \ {p} : pc[q] \notin CommitPcs
      /\ \A y \in CommitPcs : y \in PcSet
  BY DEF commit, write_log, write_head, install_trans, erase, finish, CommitPcs, PcSet,
     logVars, ProcInv
<1>c. \A x \in PcSet : Goes(p, x) => \A q \in Procs \ {p} : pc'[q] \notin CommitPcs
  BY <1>0 DEF Goes, CommitPcs
<1>d. /\ "write_log" \in CommitPcs /\ "write_head" \in CommitPcs /\ "install" \in CommitPcs
      /\ "erase" \in CommitPcs /\ "finish" \in CommitPcs
      /\ "out" \notin CommitPcs
  BY DEF CommitPcs
<1>1. CASE write_log(p)
  <2>1. UNCHANGED <<head, lh>> /\ committing' /\ tail < Len(lh)
    BY <1>0, <1>1 DEF write_log, logVars, LogInv
  <2>2. PICK x \in {"write_log", "write_head"} :
          Goes(p, x) /\ tail' \in Nat /\ tail' < Len(lh) /\ (x = "write_head" => tail' = 0)
    BY <1>1, <1>0, <2>1, NextBlockFacts DEF write_log, CommitPcs, HeadType, CtrlType
  <2>3. CtrlType' /\ ProcInv'
    BY <1>0, <2>1, <2>2, <1>d, ShapeCommitStep
  <2>4. head = <<>>
    BY <1>0, <1>1 DEF LogInv, write_log, CommitPcs
  <2>5. LogInv'
    BY <1>0, <1>c, <2>1, <2>2, <2>4 DEF LogInv, Goes, CommitPcs, HeadType
  <2> QED
    BY <2>1, <2>3, <2>5 DEF HeadType
<1>2. CASE write_head(p)
  <2>1. UNCHANGED <<lh, tail>> /\ committing' /\ head' = lh /\ Goes(p, "install")
    BY <1>0, <1>2, GoesTo, Zenon DEF write_head, logVars, CtrlType, CommitPcs
  <2>2. CtrlType' /\ ProcInv'
    BY <1>0, <2>1, <1>d, ShapeCommitStep DEF CtrlType
  <2>3. tail = 0 /\ lh # <<>>
    BY <1>2 DEF LogInv, write_head
  <2>4. LogInv'
    BY <1>0, <1>c, <2>1, <2>3 DEF LogInv, Goes, CommitPcs, HeadType
  <2> QED
    BY <2>1, <2>2, <2>4 DEF HeadType
<1>3. CASE install_trans(p)
  <2>1. UNCHANGED <<head, lh>> /\ committing' /\ tail < Len(lh) /\ head = lh
    BY <1>0, <1>3 DEF install_trans, logVars, LogInv
  <2>2. PICK x \in {"install", "erase"} :
          Goes(p, x) /\ tail' \in Nat /\ tail' < Len(lh)
    BY <1>3, <1>0, <2>1, NextBlockFacts DEF install_trans, CommitPcs, HeadType, CtrlType
  <2>3. CtrlType' /\ ProcInv'
    BY <1>0, <2>1, <2>2, <1>d, ShapeCommitStep
  <2>4. LogInv'
    BY <1>0, <1>c, <2>1, <2>2 DEF LogInv, Goes, CommitPcs, HeadType
  <2> QED
    BY <2>1, <2>3, <2>4 DEF HeadType
<1>4. CASE erase(p)
  <2>1. lh' = <<>> /\ head' = <<>> /\ tail' = tail /\ committing' /\ Goes(p, "finish")
    BY <1>0, <1>4, GoesTo, Zenon DEF erase, EraseLog, CtrlType, CommitPcs
  <2>2. CtrlType' /\ ProcInv'
    BY <1>0, <2>1, <1>d, ShapeCommitStep DEF CtrlType
  <2>3. LogInv'
    BY <1>0, <1>c, <2>1 DEF LogInv, Goes, CommitPcs
  <2>4. HeadType'
    BY <2>1 DEF HeadType
  <2> QED
    BY <2>2, <2>3, <2>4
<1>5. CASE finish(p)
  <2>0. "out" \in PcSet
    BY DEF PcSet
  <2>1. UNCHANGED <<lh, head, tail>> /\ ~committing' /\ Goes(p, "out")
    BY <2>0, <1>5, GoesTo, Zenon DEF finish, CtrlType, diskVars
  <2>2. CtrlType' /\ ProcInv'
    BY <1>0, <2>0, <2>1, ShapeCommitStep DEF CtrlType
  <2>3. LogInv'
    BY <1>0, <1>c, <2>0, <2>1, <1>5 DEF LogInv, Goes, CommitPcs, finish
  <2> QED
    BY <2>1, <2>2, <2>3 DEF HeadType
<1> QED
  BY <1>1, <1>2, <1>3, <1>4, <1>5 DEF commit

\* Filling and recycling buffers touch no control state.
LEMMA ShapeSame ==
  ASSUME Shape, UNCHANGED <<head, logVars, boot, procVars>>
  PROVE  Shape'
<1>1. HeadType' /\ CtrlType'
  BY DEF Shape, HeadType, CtrlType, logVars, procVars
<1>2. Active' = Active /\ \A p \in Procs : InOp(p)' <=> InOp(p)
  BY DEF Active, InOp, procVars
<1>3. ProcInv'
  BY <1>2 DEF Shape, ProcInv, logVars, procVars
<1>4. LogInv'
  BY DEF Shape, LogInv, logVars, procVars
<1> QED
  BY <1>1, <1>3, <1>4 DEF Shape

\* A crash, and the steps of recovery.
LEMMA ShapeBoot ==
  ASSUME Shape, crash \/ recover_from_log
  PROVE  Shape'
<1>1. CASE crash
  <2>1. HeadType' /\ CtrlType'
    BY <1>1 DEF crash, diskVars, Shape, HeadType, CtrlType, PcSet
  <2>2. Active' = {} /\ \A p \in Procs : ~InOp(p)'
    BY <1>1 DEF crash, Active, InOp
  <2>3. ProcInv'
    BY <1>1, <2>2, FS_EmptySet DEF crash, ProcInv, CommitPcs
  <2>4. LogInv'
    BY <1>1 DEF crash, diskVars, Shape, LogInv
  <2> QED
    BY <2>1, <2>3, <2>4 DEF Shape
<1>2. CASE recover_from_log
  <2>0. /\ UNCHANGED <<outstanding, committing, pc, wr, used>>
        /\ boot \in RecoveryBoots /\ boot' \in {"install", "erase", "up"} /\ tail' \in Nat
    BY <1>2 DEF recover_from_log, read_head, recover_install, recover_erase, RecoveryBoots,
       procVars, logVars, Shape, CtrlType
  <2>1. HeadType'
    <3>0. <<>> \in Seq(Blocks)
      OBVIOUS
    <3>1. (lh' = head \/ lh' = lh \/ lh' = <<>>) /\ (head' = head \/ head' = <<>>)
      BY <1>2 DEF recover_from_log, read_head, recover_install, recover_erase, EraseLog,
         diskVars, logVars
    <3> QED
      BY <3>0, <3>1, Zenon DEF Shape, HeadType
  <2>2. CtrlType'
    BY <2>0 DEF Shape, CtrlType
  <2>3. Active' = Active /\ \A p \in Procs : InOp(p)' <=> InOp(p)
    BY <2>0 DEF Active, InOp
  <2>4. ProcInv'
    BY <2>0, <2>3 DEF Shape, ProcInv
  <2>5. \A p \in Procs : pc'[p] = "out"
    BY <2>0 DEF Shape, ProcInv
  <2>6. LogInv'
    <3>1. CASE read_head
      BY <3>1, <2>5 DEF read_head, Shape, HeadType, LogInv, diskVars, procVars
    <3>2. CASE recover_install
      BY <3>2, <2>5 DEF recover_install, Shape, LogInv, CtrlType, logVars
    <3>3. CASE recover_erase
      BY <3>3, <2>5 DEF recover_erase, EraseLog, LogInv
    <3> QED
      BY <1>2, <3>1, <3>2, <3>3 DEF recover_from_log
  <2> QED
    BY <2>1, <2>2, <2>4, <2>6 DEF Shape
<1> QED
  BY <1>1, <1>2

\* The control state is inductive.
LEMMA ShapeStep ==
  ASSUME Shape, [Next]_vars
  PROVE  Shape'
<1>1. CASE UNCHANGED vars
  BY <1>1, ShapeSame DEF vars, diskVars
<1>2. ASSUME NEW b \in Blocks, read_block(b) \/ recycle(b) PROVE Shape'
  BY <1>2, ShapeSame DEF read_block, recycle, diskVars
<1> QED
  BY <1>1, <1>2, ShapeBegin, ShapeLogWrite, ShapeAppend, ShapeEnd, ShapeCommit, ShapeBoot
  DEF Next

\* committing is a truth value.
LEMMA StepBoolType ==
  ASSUME BoolType, [Next]_vars
  PROVE  BoolType'
<1> USE DEF BoolType
<1>1. CASE UNCHANGED committing
  BY <1>1
<1>2. CASE committing' = TRUE \/ committing' = FALSE
  BY <1>2, Zenon
<1>3. UNCHANGED committing \/ committing' = TRUE \/ committing' = FALSE
  BY Zenon DEF Next, vars, begin_op, log_write, log_append, end_op, commit, write_log, write_head,
     install_trans, erase, finish, read_block, recycle, recover_from_log, read_head,
     recover_install, recover_erase, crash, diskVars, cacheVars, logVars, procVars
<1> QED
  BY <1>1, <1>2, <1>3, Zenon

-------------------------------------------------------------------------------
(***************************************************************************)
(* The reservation of begin_op                                             *)
(***************************************************************************)

\* What is owed is finite, and at most MAXOPBLOCKS for each call.
LEMMA OwedBound ==
  ASSUME NEW O, NEW U, IsFiniteSet(U), O \subseteq U \X (1..MAXOPBLOCKS)
  PROVE  /\ IsFiniteSet(O)
         /\ Cardinality(O) \in Nat
         /\ Cardinality(O) <= Cardinality(U) * MAXOPBLOCKS
<1> MAXOPBLOCKS \in Nat \ {0}
  BY LogConstants
<1>1. IsFiniteSet(1..MAXOPBLOCKS) /\ Cardinality(1..MAXOPBLOCKS) = MAXOPBLOCKS
  BY FS_Interval
<1>2. /\ IsFiniteSet(U \X (1..MAXOPBLOCKS))
      /\ Cardinality(U \X (1..MAXOPBLOCKS)) = Cardinality(U) * MAXOPBLOCKS
  BY <1>1, FS_Product, Zenon
<1>3. IsFiniteSet(O) /\ Cardinality(O) <= Cardinality(U \X (1..MAXOPBLOCKS))
  BY <1>2, FS_Subset
<1>4. Cardinality(O) \in Nat
  BY <1>3, FS_CardinalityType
<1> QED
  BY <1>2, <1>3, <1>4

\* Only running calls owe anything.
LEMMA OwedActive ==
  /\ Owed \subseteq Active \X (1..MAXOPBLOCKS)
  /\ Owed' \subseteq Active' \X (1..MAXOPBLOCKS)
BY DEF Owed, Active

\* Hence what is owed is finite, before and after a step.
LEMMA OwedFinite ==
  /\ IsFiniteSet(Owed) /\ Cardinality(Owed) \in Nat
  /\ IsFiniteSet(Owed') /\ Cardinality(Owed') \in Nat
BY OwedActive, OwedBound, ActiveFinite, Zenon

\* A step that neither starts, advances nor ends a call changes no debt.
LEMMA OwedSame ==
  ASSUME \A q \in Procs : (InOp(q)' <=> InOp(q)) /\ used'[q] = used[q]
  PROVE  Owed' = Owed
BY DEF Owed

\* Nothing is owed while no call runs.
LEMMA NothingOwed ==
  (Active = {} => Cardinality(Owed) = 0) /\ (Active' = {} => Cardinality(Owed') = 0)
<1>1. (Active = {} => Owed = {}) /\ (Active' = {} => Owed' = {})
  BY OwedActive
<1> QED
  BY <1>1, FS_EmptySet

\* The log is empty to begin with.
LEMMA InitCount == Init => CountInv
<1> SUFFICES ASSUME Init PROVE CountInv
  OBVIOUS
<1>1. Active = {} /\ \A p \in Procs : ~InOp(p) /\ pc[p] # "append"
  BY DEF Init, Active, InOp
<1>2. \A p \in Procs : used[p] = {}
  BY DEF Init
<1>3. Len(lh) = 0 /\ Len(head) = 0 /\ Cardinality(Owed) = 0
  BY <1>1, NothingOwed DEF Init
<1>4. LOGSIZE \in Nat /\ MAXOPBLOCKS \in Nat
  BY LogConstants DEF LOGSIZE
<1> QED
  <2>1. Reserved /\ Len(head) <= LOGSIZE
    BY <1>3, <1>4 DEF Reserved
  <2>2. \A p \in Procs : UsedInv(p)
    BY <1>1, <1>2, <1>4, FS_EmptySet DEF UsedInv
  <2> QED
    BY <2>1, <2>2 DEF CountInv

\* A call begins only when MAXOPBLOCKS more blocks have room for every call.
LEMMA CountBegin ==
  ASSUME Shape, Shape', CountInv, NEW p \in Procs, begin_op(p)
  PROVE  CountInv'
<1>0. MAXOPBLOCKS \in Nat /\ LOGSIZE \in Nat /\ Len(lh) \in Nat /\ outstanding \in Int
  BY LogConstants DEF LOGSIZE, Shape, HeadType, CtrlType
<1>1. UNCHANGED <<head, lh, wr>> /\ InLog' = InLog
  BY DEF begin_op, diskVars, InLog
<1>2. CASE pc' = [pc EXCEPT ![p] = "sleep"] /\ UNCHANGED <<outstanding, used>>
  <2>1. \A q \in Procs : /\ InOp(q)' <=> InOp(q)
                         /\ pc'[q] = "append" => pc[q] = "append"
    BY <1>2 DEF begin_op, InOp, Shape, CtrlType
  <2>2. Owed' = Owed
    BY <1>2, <2>1, OwedSame
  <2>3. \A q \in Procs : UsedInv(q)'
    BY <1>1, <1>2, <2>1 DEF CountInv, UsedInv
  <2> QED
    BY <1>1, <2>2, <2>3 DEF CountInv, Reserved
<1>3. CASE /\ ~MustWait /\ outstanding' = outstanding + 1
           /\ pc' = [pc EXCEPT ![p] = "op"] /\ used' = [used EXCEPT ![p] = {}]
  <2>1. Cardinality(Active') = outstanding + 1
    BY <1>3 DEF Shape, ProcInv
  <2>2. Cardinality(Owed') <= (outstanding + 1) * MAXOPBLOCKS /\ Cardinality(Owed') \in Nat
    BY <2>1, OwedActive, OwedBound, ActiveFinite
  <2>3. Len(lh) + (outstanding + 1) * MAXOPBLOCKS <= LOGSIZE
    BY <1>0, <1>3 DEF MustWait
  <2>4. (outstanding + 1) * MAXOPBLOCKS \in Int
    BY <1>0
  <2>5. Reserved'
    BY <1>0, <1>1, <2>2, <2>3, <2>4 DEF Reserved
  <2>6. \A q \in Procs :
          /\ q # p => used'[q] = used[q] /\ pc'[q] = pc[q] /\ (InOp(q)' <=> InOp(q))
          /\ q = p => used'[q] = {} /\ pc'[q] # "append"
    BY <1>3 DEF InOp, Shape, CtrlType
  <2>7. UsedInv(p)'
    <3>1. used'[p] = {} /\ pc'[p] # "append"
      BY <2>6
    <3>2. IsFiniteSet(used'[p]) /\ Cardinality(used'[p]) = 0
      BY <3>1, FS_EmptySet
    <3> QED
      BY <1>0, <3>1, <3>2 DEF UsedInv
  <2>8. \A q \in Procs \ {p} : UsedInv(q)'
    BY <1>1, <2>6, Zenon DEF CountInv, UsedInv
  <2> QED
    BY <1>1, <2>5, <2>7, <2>8 DEF CountInv
<1> QED
  BY <1>2, <1>3 DEF begin_op

\* log_write makes sure its caller keeps to MAXOPBLOCKS blocks.
LEMMA CountLogWrite ==
  ASSUME Shape, CountInv, NEW p \in Procs, NEW b \in Blocks, log_write(p, b)
  PROVE  CountInv'
<1>1. UNCHANGED <<head, lh, used>> /\ InLog' = InLog
  BY DEF log_write, diskVars, logVars, procVars, InLog
<1>2. \A q \in Procs :
        /\ InOp(q)' <=> InOp(q)
        /\ pc'[q] = "append" => \/ pc[q] = "append" /\ wr'[q] = wr[q]
                                \/ Cardinality(used[q] \cup {wr'[q]}) <= MAXOPBLOCKS
  BY Zenon DEF log_write, procVars, Shape, CtrlType, InOp
<1>3. Owed' = Owed
  BY <1>1, <1>2, OwedSame, Zenon
<1>4. \A q \in Procs : UsedInv(q)'
  BY <1>1, <1>2, Zenon DEF CountInv, UsedInv
<1> QED
  BY <1>1, <1>3, <1>4 DEF CountInv, Reserved

\* A block that is new to the log was still owed.
LEMMA CountAppend ==
  ASSUME Shape, CountInv, NEW p \in Procs, NEW v \in Vals, log_append(p, v)
  PROVE  CountInv'
<1> DEFINE b == wr[p]
           k == Cardinality(used[p])
<1>0. b \in Blocks /\ InOp(p) /\ UsedInv(p) /\ pc[p] = "append"
  BY DEF Shape, ProcInv, CountInv, log_append, InOp
<1>a. MAXOPBLOCKS \in Nat /\ LOGSIZE \in Nat /\ Len(lh) \in Nat
  BY LogConstants, SMT, Z3 DEF LOGSIZE, Shape, HeadType
<1>k. k \in Nat
  BY <1>0, FS_CardinalityType DEF UsedInv
<1>1. /\ head' = head
      /\ \A q \in Procs : /\ InOp(q)' <=> InOp(q)
                          /\ pc'[q] = "append" => q # p /\ pc[q] = "append"
                          /\ q # p => wr'[q] = wr[q] /\ used'[q] = used[q]
      /\ used'[p] = used[p] \cup {b}
  BY DEF log_append, diskVars, Shape, CtrlType, InOp
<1>2. InLog' = InLog \cup {b} /\ Len(lh') = IF b \in InLog THEN Len(lh) ELSE Len(lh) + 1
  <2>1. CASE b \in InLog
    BY <2>1 DEF log_append, Appended, InLog
  <2>2. CASE b \notin InLog
    <3>1. lh' = Append(lh, b)
      BY <2>2 DEF log_append, Appended
    <3>2. /\ Len(lh') = Len(lh) + 1 /\ lh'[Len(lh) + 1] = b
          /\ \A i \in 1..Len(lh) : lh'[i] = lh[i]
      BY <1>0, <3>1 DEF Shape, HeadType
    <3>3. InLog' = InLog \cup {b}
      BY <1>a, <3>2 DEF InLog
    <3> QED
      BY <2>2, <3>2, <3>3
  <2> QED
    BY <2>1, <2>2
<1>3. IsFiniteSet(used[p]) /\ Cardinality(used[p] \cup {b}) <= MAXOPBLOCKS
  BY <1>0 DEF UsedInv
<1>4. /\ IsFiniteSet(used'[p]) /\ Cardinality(used'[p]) <= MAXOPBLOCKS
      /\ Cardinality(used'[p]) = IF b \in used[p] THEN k ELSE k + 1
  <2>1. used'[p] = used[p] \cup {b}
    BY <1>1
  <2>2. /\ IsFiniteSet(used[p] \cup {b})
        /\ Cardinality(used[p] \cup {b}) = IF b \in used[p] THEN k ELSE k + 1
    BY <1>3, FS_AddElement, Zenon
  <2> QED
    BY <1>3, <2>1, <2>2
<1>5. Len(lh') + Cardinality(Owed') <= Len(lh) + Cardinality(Owed)
  <2>1. CASE b \in used[p]
    <3>1. used'[p] = used[p] /\ b \in InLog
      BY <1>0, <1>1, <2>1 DEF UsedInv
    <3>2. Owed' = Owed
      BY <1>1, <3>1, OwedSame
    <3> QED
      BY <1>a, <1>2, <3>1, <3>2, OwedFinite
  <2>2. CASE b \notin used[p]
    <3>1. k + 1 <= MAXOPBLOCKS /\ Cardinality(used'[p]) = k + 1
      BY <1>4, <2>2
    <3>2. <<p, k + 1>> \in Owed
      <4>1. k + 1 \in 1..MAXOPBLOCKS /\ k + 1 > k
        BY <1>k, <3>1, LogConstants
      <4> QED
        BY <1>0, <1>a, <1>k, <4>1, Zenon DEF Owed
    <3>3. \A q \in Procs, i \in 1..MAXOPBLOCKS :
            <<q, i>> \in Owed' <=> <<q, i>> \in Owed \ {<<p, k + 1>>}
      <4> SUFFICES ASSUME NEW q \in Procs, NEW i \in 1..MAXOPBLOCKS
                   PROVE  <<q, i>> \in Owed' <=> <<q, i>> \in Owed /\ <<q, i>> # <<p, k + 1>>
        OBVIOUS
      <4>1. <<q, i>> \in Owed' <=> InOp(q)' /\ i > Cardinality(used'[q])
        BY DEF Owed
      <4>2. <<q, i>> \in Owed <=> InOp(q) /\ i > Cardinality(used[q])
        BY DEF Owed
      <4>3. CASE q = p
        <5>1. i > k + 1 <=> i > k /\ i # k + 1
          BY <1>k
        <5> QED
          BY <1>0, <1>1, <3>1, <4>1, <4>2, <4>3, <5>1, Zenon
      <4>4. CASE q # p
        BY <1>1, <4>1, <4>2, <4>4
      <4> QED
        BY <4>3, <4>4
    <3>4. Owed' = Owed \ {<<p, k + 1>>}
      <4>1. Owed \subseteq Procs \X (1..MAXOPBLOCKS) /\ Owed' \subseteq Procs \X (1..MAXOPBLOCKS)
        BY DEF Owed
      <4> QED
        BY <3>3, <4>1
    <3>5. Cardinality(Owed') = Cardinality(Owed) - 1
      BY <3>2, <3>4, OwedFinite, FS_RemoveElement
    <3> QED
      BY <1>a, <1>2, <3>5, OwedFinite, SMT, Z3
  <2> QED
    BY <2>1, <2>2
<1>6. Reserved'
  <2>1. Len(lh') \in Nat
    BY <1>a, <1>2, SMT, Z3
  <2> QED
    BY <1>a, <1>5, <2>1, OwedFinite DEF CountInv, Reserved
<1>7. UsedInv(p)'
  BY <1>0, <1>1, <1>2, <1>4, Zenon DEF UsedInv
<1>8. \A q \in Procs \ {p} : UsedInv(q)'
  BY <1>1, <1>2, Zenon DEF CountInv, UsedInv
<1> QED
  BY <1>1, <1>6, <1>7, <1>8 DEF CountInv

\* A call that ends gives its reservation back.
LEMMA CountEnd ==
  ASSUME Shape, CountInv, NEW p \in Procs, end_op(p)
  PROVE  CountInv'
<1>a. LOGSIZE \in Nat /\ Len(lh) \in Nat
  BY LogConstants DEF LOGSIZE, Shape, HeadType
<1>1. UNCHANGED <<head, lh, used, wr>> /\ InLog' = InLog
  BY DEF end_op, diskVars, InLog
<1>2. PICK x \in {"out", "finish", "write_log"} : Goes(p, x)
  BY GoesTo DEF end_op, LastOut, Shape, CtrlType, PcSet
<1>3. \A q \in Procs : (InOp(q)' => InOp(q)) /\ (pc'[q] = "append" => pc[q] = "append")
  BY <1>2 DEF Goes, InOp
<1>4. Owed' \subseteq Owed
  BY <1>1, <1>3 DEF Owed
<1>5. Cardinality(Owed') <= Cardinality(Owed)
  BY <1>4, OwedFinite, FS_Subset
<1>6. Reserved'
  BY <1>a, <1>1, <1>5, OwedFinite, SMT, Z3 DEF CountInv, Reserved
<1>7. \A q \in Procs : UsedInv(q)'
  BY <1>1, <1>3 DEF CountInv, UsedInv
<1> QED
  BY <1>1, <1>6, <1>7 DEF CountInv

\* A step outside calls: nothing is owed before or after it, and the headers
\* come from one another.
LEMMA CountIdle ==
  ASSUME Shape, Shape', CountInv, \A p \in Procs : ~InOp(p), \A p \in Procs : ~InOp(p)',
         used' = used \/ (\A p \in Procs : used'[p] = {}),
         head' = head \/ head' = lh \/ head' = <<>>,
         lh' = lh \/ lh' = head \/ lh' = <<>>
  PROVE  CountInv'
<1>a. LOGSIZE \in Nat /\ MAXOPBLOCKS \in Nat
  BY LogConstants DEF LOGSIZE
<1>b. /\ Len(lh) \in Nat /\ Len(head) \in Nat
      /\ Len(lh') \in Nat /\ Len(head') \in Nat
  BY DEF Shape, HeadType
<1>1. Active = {} /\ Active' = {}
  BY DEF Active
<1>2. Cardinality(Owed) = 0 /\ Cardinality(Owed') = 0
  BY <1>1, NothingOwed
<1>3. Len(lh) <= LOGSIZE /\ Len(head) <= LOGSIZE
  BY <1>a, <1>b, <1>2 DEF CountInv, Reserved
<1>4. Len(lh') <= LOGSIZE /\ Len(head') <= LOGSIZE
  BY <1>a, <1>3
<1>5. Reserved'
  BY <1>a, <1>b, <1>2, <1>4 DEF Reserved
<1>6. \A q \in Procs : UsedInv(q)'
  <2> SUFFICES ASSUME NEW q \in Procs PROVE UsedInv(q)'
    OBVIOUS
  <2>1. ~InOp(q)' /\ pc'[q] # "append"
    BY DEF InOp
  <2>2. IsFiniteSet(used'[q]) /\ Cardinality(used'[q]) <= MAXOPBLOCKS
    <3>1. CASE used' = used
      BY <3>1, Zenon DEF CountInv, UsedInv
    <3>2. CASE used'[q] = {}
      BY <1>a, <3>2, FS_EmptySet
    <3> QED
      BY <3>1, <3>2
  <2> QED
    BY <2>1, <2>2 DEF UsedInv
<1> QED
  BY <1>4, <1>5, <1>6 DEF CountInv

\* The counts are inductive.
LEMMA CountStep ==
  ASSUME Shape, Shape', CountInv, [Next]_vars
  PROVE  CountInv'
<1>1. ASSUME UNCHANGED <<head, lh, pc, wr, used>> PROVE CountInv'
  <2>1. InLog' = InLog /\ \A q \in Procs : InOp(q)' <=> InOp(q)
    BY <1>1 DEF InLog, InOp
  <2>2. Owed' = Owed
    BY <1>1, <2>1, OwedSame
  <2>3. \A q \in Procs : UsedInv(q)'
    BY <1>1, <2>1 DEF CountInv, UsedInv
  <2> QED
    BY <1>1, <2>2, <2>3 DEF CountInv, Reserved
<1>2. ASSUME NEW b \in Blocks, read_block(b) \/ recycle(b) PROVE CountInv'
  BY <1>1, <1>2 DEF read_block, recycle, diskVars, logVars, procVars
<1>3. ASSUME NEW p \in Procs, commit(p) PROVE CountInv'
  <2>1. committing /\ \A q \in Procs : ~InOp(q)
    BY <1>3 DEF commit, write_log, write_head, install_trans, erase, finish, Shape, ProcInv,
       CommitPcs
  <2>2. PICK x \in PcSet : Goes(p, x) /\ x \notin {"op", "append"}
    <3>1. pc' = [pc EXCEPT ![p] = "write_log"] \/ pc' = [pc EXCEPT ![p] = "write_head"]
          \/ pc' = [pc EXCEPT ![p] = "install"] \/ pc' = [pc EXCEPT ![p] = "erase"]
          \/ pc' = [pc EXCEPT ![p] = "finish"] \/ pc' = [Woken EXCEPT ![p] = "out"]
      BY <1>3 DEF commit, write_log, write_head, install_trans, erase, finish, NextBlock
    <3> QED
      BY <3>1, GoesTo DEF Shape, CtrlType, PcSet
  <2>3. \A q \in Procs : ~InOp(q)'
    BY <2>1, <2>2, GoesActive
  <2>4. /\ used' = used
        /\ head' = head \/ head' = lh \/ head' = <<>>
        /\ lh' = lh \/ lh' = <<>>
    BY <1>3 DEF commit, write_log, write_head, install_trans, erase, finish, EraseLog,
       diskVars, logVars
  <2> QED
    BY <2>1, <2>3, <2>4, CountIdle, Zenon
<1>4. CASE recover_from_log
  <2>1. pc' = pc /\ used' = used /\ \A q \in Procs : pc[q] = "out"
    BY <1>4 DEF recover_from_log, read_head, recover_install, recover_erase, procVars, Shape,
       ProcInv, RecoveryBoots
  <2>2. \A q \in Procs : ~InOp(q) /\ ~InOp(q)'
    BY <2>1 DEF InOp
  <2>3. /\ head' = head \/ head' = <<>>
        /\ lh' = lh \/ lh' = head \/ lh' = <<>>
    BY <1>4 DEF recover_from_log, read_head, recover_install, recover_erase, EraseLog,
       diskVars, logVars
  <2> QED
    BY <2>1, <2>2, <2>3, CountIdle
<1>5. CASE crash
  <2>1. /\ Active' = {} /\ \A q \in Procs : used'[q] = {} /\ ~InOp(q)' /\ pc'[q] # "append"
        /\ head' = head /\ lh' = <<>>
    BY <1>5 DEF crash, Active, InOp, diskVars
  <2>2. Cardinality(Owed') = 0 /\ Len(lh') = 0
    BY <2>1, NothingOwed
  <2>3. LOGSIZE \in Nat /\ MAXOPBLOCKS \in Nat
    BY LogConstants DEF LOGSIZE
  <2>4. Reserved'
    BY <2>2, <2>3 DEF Reserved
  <2>5. \A q \in Procs : UsedInv(q)'
    <3> SUFFICES ASSUME NEW q \in Procs PROVE UsedInv(q)'
      OBVIOUS
    <3>1. IsFiniteSet(used'[q]) /\ Cardinality(used'[q]) = 0
      <4>1. used'[q] = {}
        BY <2>1
      <4> QED
        BY <4>1, CountEmpty, Zenon
    <3>2. ~InOp(q)' /\ pc'[q] # "append"
      BY <2>1
    <3>3. Cardinality(used'[q]) <= MAXOPBLOCKS
      BY <2>3, <3>1
    <3> QED
      BY <3>1, <3>2, <3>3 DEF UsedInv
  <2> QED
    BY <2>1, <2>4, <2>5 DEF CountInv
<1>6. CASE UNCHANGED vars
  BY <1>1, <1>6 DEF vars, diskVars, logVars, procVars
<1> QED
  BY <1>2, <1>3, <1>4, <1>5, <1>6, CountBegin, CountLogWrite, CountAppend, CountEnd DEF Next

-------------------------------------------------------------------------------
(***************************************************************************)
(* Contents.  From here on the log is assumed not to be overrun (LogFits). *)
(***************************************************************************)

\* The processes in the middle of a commit.
LoopPcs == {"write_log", "write_head", "install", "erase"}

\* Whether a logged block still waits depends on the committer alone.
LEMMA WaitingFacts ==
  ASSUME Shape
  PROVE  /\ (\A p \in Procs : pc[p] \notin {"install", "erase"}) => \A i : Waiting(i)
         /\ \A p \in Procs : pc[p] = "install" => \A i : Waiting(i) <=> i > tail
         /\ \A p \in Procs : pc[p] \in {"write_log", "write_head"} => \A i : Waiting(i)
BY DEF Shape, ProcInv, CommitPcs, Waiting

\* Blocks are not installed yet, so they are dirty and cached.
LEMMA PinnedFacts ==
  ASSUME Shape, DataInv, ValType, boot \in {"up", "panic"}, NEW i \in 1..Len(lh), Waiting(i)
  PROVE  lh[i] \in dirty /\ buf[lh[i]] # NoBuf /\ bread(lh[i]) = buf[lh[i]]
BY DEF DataInv, PinInv, BufInv, bread

\* Init establishes the contents invariant.
LEMMA InitData == Init => ValType /\ DataInv
<1>1. Init => ValType
  BY DEF Init, ValType
<1>2. ASSUME Init PROVE DataInv
  <2>1. PinInv
    BY <1>2 DEF Init, PinInv, RecoveryBoots
  <2>2. BufInv
    BY <1>2 DEF Init, BufInv
  <2>3. BootInv
    BY <1>2 DEF Init, BootInv
  <2>4. LoopInv
    BY <1>2 DEF Init, LoopInv
  <2> QED
    BY <2>1, <2>2, <2>3, <2>4 DEF DataInv
<1> QED
  BY <1>1, <1>2

\* Contents are typed after every step.
LEMMA StepValType ==
  ASSUME Shape, LogFits, ValType, [Next]_vars
  PROVE  ValType'
<1>n. NLOG \in Nat
  BY LogConstants
<1>a. tail \in Nat /\ Len(lh) \in Nat
  BY DEF Shape, HeadType, CtrlType
<1>b. tail < Len(lh) => tail + 1 \in 1..(NLOG - 1) /\ lh[tail + 1] \in Blocks
  BY <1>n, <1>a DEF LogFits, Shape, HeadType
<1>1. CASE UNCHANGED <<home, logblk, buf, dirty>>
  BY <1>1 DEF ValType
<1>2. ASSUME NEW b \in Blocks, read_block(b) \/ recycle(b) PROVE ValType'
  BY <1>2 DEF read_block, recycle, ValType, diskVars
<1>3. ASSUME NEW p \in Procs, NEW v \in Vals, log_append(p, v) PROVE ValType'
  <2>1. wr[p] \in Blocks
    BY <1>3 DEF log_append, Shape, ProcInv
  <2> QED
    BY <1>3, <2>1 DEF log_append, ValType, diskVars
<1>4. ASSUME NEW p \in Procs, write_log(p) PROVE ValType'
  <2>1. lh[tail + 1] \in Blocks
    BY <1>4, <1>b DEF write_log, Shape, LogInv
  <2>2. bread(lh[tail + 1]) \in Vals
    BY <2>1 DEF bread, ValType
  <2> QED
    BY <1>4, <2>1, <2>2, Zenon DEF write_log, ValType
<1>5. ASSUME InstallBlock, tail < Len(lh), logblk' = logblk PROVE ValType'
  <2>1. logblk[tail + 1] \in Vals /\ lh[tail + 1] \in Blocks
    BY <1>5, <1>b DEF ValType
  <2> QED
    BY <1>5, <2>1 DEF InstallBlock, ValType
<1>6. CASE crash
  BY <1>6 DEF crash, diskVars, ValType
<1>7. ASSUME NEW p \in Procs, commit(p) PROVE ValType'
  <2>1. CASE install_trans(p)
    BY <2>1, <1>5 DEF install_trans, Shape, LogInv
  <2>2. CASE write_head(p) \/ erase(p) \/ finish(p)
    BY <2>2, <1>1 DEF write_head, erase, finish, diskVars, cacheVars
  <2> QED
    BY <1>7, <1>4, <2>1, <2>2 DEF commit
<1>8. CASE recover_from_log
  <2>1. CASE recover_install
    BY <2>1, <1>5 DEF recover_install, Shape, LogInv
  <2>2. CASE read_head \/ recover_erase
    BY <2>2, <1>1 DEF read_head, recover_erase, diskVars, cacheVars
  <2> QED
    BY <1>8, <2>1, <2>2 DEF recover_from_log
<1>9. ASSUME NEW p \in Procs,
             begin_op(p) \/ end_op(p) \/ \E b \in Blocks : log_write(p, b)
      PROVE  ValType'
  BY <1>9, <1>1, Zenon DEF begin_op, end_op, log_write, diskVars, cacheVars
<1>10. CASE UNCHANGED vars
  BY <1>10, <1>1 DEF vars, diskVars, cacheVars
<1> QED
  BY <1>2, <1>3, <1>6, <1>7, <1>8, <1>9, <1>10 DEF Next

\* A move of p outside the loops of commit leaves contents alone.
LEMMA DataMoves ==
  ASSUME Shape, DataInv, NEW p \in Procs, NEW x \in PcSet, Goes(p, x),
         UNCHANGED <<home, logblk, buf, dirty, lh>>,
         boot \in {"up", "panic"}, boot' \in {"up", "panic"},
         pc[p] \notin LoopPcs, x \notin LoopPcs \/ (x = "write_log" /\ tail' = 0),
         tail' = tail \/ \A q \in Procs : pc[q] \notin LoopPcs
  PROVE  DataInv'
<1>1. \A q \in Procs : q # p => (pc'[q] \in LoopPcs => pc'[q] = pc[q])
  BY DEF Goes, LoopPcs
<1>2. \A q \in Procs : pc'[q] \in {"install", "erase", "write_head"} => pc[q] = pc'[q] /\ tail' = tail
  BY <1>1 DEF Goes, LoopPcs
<1>3. \A i : Waiting(i)' => Waiting(i)
  <2> SUFFICES ASSUME NEW i, Waiting(i)', NEW q \in Procs
               PROVE  pc[q] # "erase" /\ (pc[q] = "install" => i > tail)
    BY DEF Waiting
  <2>1. CASE q = p
    BY <2>1 DEF LoopPcs
  <2>2. CASE q # p /\ pc[q] \in {"install", "erase"}
    <3>1. pc'[q] = pc[q] /\ tail' = tail
      BY <2>2 DEF Goes, LoopPcs
    <3> QED
      BY <3>1 DEF Waiting
  <2> QED
    BY <2>1, <2>2
<1>4. InLog' = InLog
  BY DEF InLog
<1>5. boot' \notin RecoveryBoots
  BY DEF RecoveryBoots
<1>6. \A q \in Procs : pc'[q] = "write_log" => tail' = 0 \/ (pc[q] = "write_log" /\ tail' = tail)
  BY <1>1 DEF Goes, LoopPcs
<1>7. \A q \in Procs : pc'[q] = "write_log" => \A i \in 1..tail' : logblk'[i] = buf'[lh'[i]]
  <2> SUFFICES ASSUME NEW q \in Procs, pc'[q] = "write_log"
               PROVE  \A i \in 1..tail' : logblk'[i] = buf'[lh'[i]]
    OBVIOUS
  <2>1. CASE tail' = 0
    BY <2>1
  <2>2. CASE pc[q] = "write_log" /\ tail' = tail
    <3>1. \A i \in 1..tail : logblk[i] = buf[lh[i]]
      BY <2>2 DEF DataInv, LoopInv
    <3> QED
      BY <2>2, <3>1
  <2> QED
    BY <1>6, <2>1, <2>2
<1> QED
  <2>1. PinInv'
    BY <1>2, <1>3, <1>4, <1>5, <1>7 DEF DataInv, PinInv
  <2>2. BufInv'
    BY <1>2, <1>3, <1>4, <1>5, <1>7 DEF DataInv, BufInv
  <2>3. BootInv'
    BY <1>2, <1>3, <1>4, <1>5, <1>7, Zenon DEF DataInv, BootInv
  <2>4. LoopInv'
    <3> SUFFICES ASSUME NEW q \in Procs, pc'[q] \in {"write_head", "install", "erase"}
                 PROVE  /\ pc'[q] = "write_head" => \A i \in 1..Len(lh) : logblk[i] = buf[lh[i]]
                        /\ pc'[q] = "install" =>
                             \A i \in 1..Len(lh) :
                               IF i <= tail' THEN lh[i] \notin dirty /\ home[lh[i]] = logblk[i]
                                             ELSE logblk[i] = buf[lh[i]]
                        /\ pc'[q] = "erase" => dirty = {} /\ \A i \in 1..Len(lh) : home[lh[i]] = logblk[i]
      BY <1>7, Zenon DEF LoopInv
    <3>1. pc[q] = pc'[q] /\ tail' = tail
      BY <1>2
    <3> QED
      BY <3>1, Zenon DEF DataInv, LoopInv
  <2> QED
    BY <2>1, <2>2, <2>3, <2>4 DEF DataInv

\* Calls that begin, end, or are about to append.
LEMMA DataCalls ==
  ASSUME Shape, DataInv, NEW p \in Procs,
         begin_op(p) \/ end_op(p) \/ finish(p) \/ \E b \in Blocks : log_write(p, b)
  PROVE  DataInv'
<1>0. pc \in [Procs -> PcSet]
  BY DEF Shape, CtrlType
<1>1. CASE begin_op(p)
  <2>1. PICK x \in {"sleep", "op"} : Goes(p, x)
    BY <1>0, <1>1, GoesTo DEF begin_op, PcSet
  <2> QED
    BY <1>1, <2>1, DataMoves DEF begin_op, diskVars, cacheVars, LoopPcs, PcSet
<1>2. CASE end_op(p)
  <2>1. PICK x \in {"out", "finish", "write_log"} :
          Goes(p, x) /\ (x = "out" => tail' = tail) /\ (x # "out" => tail' = 0)
    BY <1>0, <1>2, GoesTo, Zenon DEF end_op, PcSet
  <2>2. \A q \in Procs : pc[q] \notin LoopPcs
    BY <1>2 DEF end_op, Shape, ProcInv, LoopPcs, CommitPcs, InOp
  <2>3. boot' \in {"up", "panic"} /\ boot = "up" /\ UNCHANGED <<home, logblk, buf, dirty, lh>>
    BY <1>2 DEF end_op, diskVars, cacheVars
  <2>4. x \in PcSet /\ (x \notin LoopPcs \/ (x = "write_log" /\ tail' = 0))
    BY <2>1 DEF LoopPcs, PcSet
  <2> QED
    BY <2>1, <2>2, <2>3, <2>4, DataMoves, Zenon
<1>3. CASE finish(p)
  <2>1. Goes(p, "out") /\ "out" \in PcSet
    BY <1>0, <1>3, GoesTo, Zenon DEF finish, PcSet
  <2> QED
    BY <1>3, <2>1, DataMoves, Zenon DEF finish, diskVars, cacheVars, LoopPcs
<1>4. ASSUME NEW b \in Blocks, log_write(p, b) PROVE DataInv'
  <2>1. PICK x \in {"op", "append"} : Goes(p, x)
    <3>1. CASE pc' = [pc EXCEPT ![p] = "append"]
      BY <1>0, <3>1, GoesTo, Zenon DEF PcSet
    <3>2. CASE pc' = pc
      BY <1>0, <1>4, <3>2, Zenon DEF log_write, Goes
    <3> QED
      BY <1>4, <3>1, <3>2, Zenon DEF log_write, procVars
  <2>2. boot' \in {"up", "panic"} /\ boot = "up" /\ UNCHANGED <<home, logblk, buf, dirty, lh, tail>>
    BY <1>4, Zenon DEF log_write, diskVars, cacheVars, logVars, procVars
  <2>3. pc[p] \notin LoopPcs /\ x \in PcSet /\ x \notin LoopPcs
    BY <1>4 DEF log_write, LoopPcs, PcSet
  <2> QED
    BY <2>1, <2>2, <2>3, DataMoves, Zenon
<1> QED
  BY <1>1, <1>2, <1>3, <1>4

\* A call logs a block: its new contents are in the cache, pinned.
LEMMA DataAppend ==
  ASSUME Shape, Shape', ValType, DataInv, NEW p \in Procs, NEW v \in Vals, log_append(p, v)
  PROVE  DataInv'
<1> DEFINE b == wr[p]
<1>0. v # NoBuf /\ b \in Blocks
  BY BlockConstants, Zenon DEF Shape, ProcInv, log_append
<1>1. \A q \in Procs : pc[q] \notin LoopPcs /\ pc'[q] \notin LoopPcs
  <2>1. \A q \in Procs : pc[q] \notin LoopPcs
    BY DEF log_append, Shape, ProcInv, InOp, LoopPcs, CommitPcs
  <2> QED
    BY <2>1 DEF log_append, Shape, CtrlType, LoopPcs
<1>2. \A i : Waiting(i)
  BY <1>1 DEF Waiting, LoopPcs
<1>3. boot' = "up" /\ boot = "up" /\ UNCHANGED <<home, logblk>>
  BY DEF log_append, diskVars
<1>4. dirty' = dirty \cup {b} /\ buf' = [buf EXCEPT ![b] = v]
  BY Zenon DEF log_append
<1>5. InLog' = InLog \cup {b} /\ \A i \in 1..Len(lh') : lh'[i] \in InLog \cup {b}
  <2>1. CASE b \in InLog
    BY <2>1 DEF log_append, Appended, InLog
  <2>2. CASE b \notin InLog
    <3>1. lh' = Append(lh, b)
      BY <2>2 DEF log_append, Appended
    <3>2. /\ Len(lh') = Len(lh) + 1 /\ lh'[Len(lh) + 1] = b /\ Len(lh) \in Nat
          /\ \A i \in 1..Len(lh) : lh'[i] = lh[i]
      BY <1>0, <3>1, SMT, Z3 DEF Shape, HeadType
    <3> QED
      BY <3>2 DEF InLog
  <2> QED
    BY <2>1, <2>2, Zenon
<1>6. dirty' \subseteq InLog' /\ \A i \in 1..Len(lh') : lh'[i] \in dirty'
  BY <1>2, <1>3, <1>4, <1>5, Zenon DEF DataInv, PinInv, InLog
<1>7. \A c \in dirty' : buf'[c] # NoBuf
  BY <1>0, <1>4 DEF DataInv, BufInv, ValType
<1>8. \A c \in Blocks \ dirty' : buf'[c] \in {NoBuf, home'[c]}
  BY <1>3, <1>4 DEF DataInv, BufInv, ValType
<1> QED
  <2>1. PinInv'
    BY <1>1, <1>3, <1>6, <1>7, <1>8, Zenon DEF DataInv, PinInv, RecoveryBoots, LoopPcs
  <2>2. BufInv'
    BY <1>1, <1>3, <1>6, <1>7, <1>8 DEF DataInv, BufInv, RecoveryBoots, LoopPcs
  <2>3. BootInv'
    BY <1>1, <1>3, <1>6, <1>7, <1>8, Zenon DEF DataInv, BootInv, RecoveryBoots, LoopPcs
  <2>4. LoopInv'
    BY <1>1, <1>3, <1>6, <1>7, <1>8, Zenon DEF DataInv, LoopInv, RecoveryBoots, LoopPcs
  <2> QED
    BY <2>1, <2>2, <2>3, <2>4 DEF DataInv

\* Filling or recycling a clean buffer.
LEMMA DataCache ==
  ASSUME Shape, ValType, DataInv, NEW b \in Blocks, read_block(b) \/ recycle(b)
  PROVE  DataInv'
<1>a. b \notin dirty
  BY Zenon DEF read_block, recycle, DataInv, BufInv
<1>b. UNCHANGED <<home, logblk, dirty, lh, boot, tail, pc>>
  BY DEF read_block, recycle, diskVars, logVars, procVars
<1>c. InLog' = InLog
  BY <1>b DEF InLog
<1>d. \A i : Waiting(i)' <=> Waiting(i)
  BY <1>b DEF Waiting
<1>1. /\ UNCHANGED <<home, logblk, dirty, lh, boot, tail, pc>> /\ b \notin dirty
      /\ InLog' = InLog /\ \A i : Waiting(i)' <=> Waiting(i)
  BY <1>a, <1>b, <1>c, <1>d
<1>2. buf' = [buf EXCEPT ![b] = NoBuf] \/ buf' = [buf EXCEPT ![b] = home[b]]
  BY DEF read_block, recycle
<1>3. \A c \in dirty : buf'[c] = buf[c]
  BY <1>1, <1>2 DEF ValType
<1>4. \A c \in Blocks \ dirty : buf'[c] \in {NoBuf, home[c]}
  BY <1>2 DEF ValType, DataInv, BufInv
<1>5. ASSUME NEW q \in Procs, pc[q] \in {"write_log", "write_head"}, NEW i \in 1..Len(lh)
      PROVE  buf'[lh[i]] = buf[lh[i]]
  <2>1. Waiting(i) /\ boot \in {"up", "panic"}
    BY <1>5, WaitingFacts, Zenon DEF Shape, ProcInv, CtrlType, RecoveryBoots
  <2> QED
    BY <1>3, <2>1 DEF DataInv, PinInv
<1>6. ASSUME NEW q \in Procs, pc[q] = "install", NEW i \in 1..Len(lh), i > tail
      PROVE  buf'[lh[i]] = buf[lh[i]]
  <2>1. Waiting(i) /\ boot \in {"up", "panic"}
    BY <1>6, WaitingFacts, Zenon DEF Shape, ProcInv, CtrlType, RecoveryBoots
  <2> QED
    BY <1>3, <2>1 DEF DataInv, PinInv
<1>7. \A q \in Procs :
        /\ pc[q] = "write_log" => \A i \in 1..tail : logblk[i] = buf'[lh[i]]
        /\ pc[q] = "write_head" => \A i \in 1..Len(lh) : logblk[i] = buf'[lh[i]]
        /\ pc[q] = "install" =>
            \A i \in 1..Len(lh) :
              IF i <= tail THEN lh[i] \notin dirty /\ home[lh[i]] = logblk[i]
                           ELSE logblk[i] = buf'[lh[i]]
  <2> SUFFICES ASSUME NEW q \in Procs
               PROVE  /\ pc[q] = "write_log" => \A i \in 1..tail : logblk[i] = buf'[lh[i]]
                      /\ pc[q] = "write_head" => \A i \in 1..Len(lh) : logblk[i] = buf'[lh[i]]
                      /\ pc[q] = "install" =>
                          \A i \in 1..Len(lh) :
                            IF i <= tail THEN lh[i] \notin dirty /\ home[lh[i]] = logblk[i]
                                         ELSE logblk[i] = buf'[lh[i]]
    OBVIOUS
  <2>0. tail \in Nat /\ Len(lh) \in Nat
    BY SMT, Z3 DEF Shape, CtrlType, HeadType
  <2>1. CASE pc[q] = "write_log"
    <3>1. \A i \in 1..tail : i \in 1..Len(lh)
      BY <2>0, <2>1, SMT, Z3 DEF Shape, LogInv
    <3> QED
      BY <1>5, <2>1, <3>1 DEF DataInv, LoopInv
  <2>2. CASE pc[q] = "write_head"
    BY <1>5, <2>2 DEF DataInv, LoopInv
  <2>3. CASE pc[q] = "install"
    <3>1. \A i \in 1..Len(lh) :
            IF i <= tail THEN lh[i] \notin dirty /\ home[lh[i]] = logblk[i]
                         ELSE logblk[i] = buf[lh[i]]
      <4>1. LoopInv
        BY DEF DataInv
      <4> QED
        BY <2>3, <4>1 DEF LoopInv
    <3>2. \A i \in 1..Len(lh) : ~(i <= tail) => buf'[lh[i]] = buf[lh[i]]
      BY <1>6, <2>0, <2>3
    <3>3. \A i \in 1..Len(lh) :
            IF i <= tail THEN lh[i] \notin dirty /\ home[lh[i]] = logblk[i]
                         ELSE logblk[i] = buf'[lh[i]]
      BY <3>1, <3>2
    <3> QED
      BY <2>3, <3>3
  <2> QED
    BY <2>1, <2>2, <2>3, Zenon
<1> QED
  <2>1. PinInv'
    BY <1>1, <1>3, <1>4, <1>7 DEF DataInv, PinInv
  <2>2. BufInv'
    BY <1>1, <1>3, <1>4, <1>7, Zenon DEF DataInv, BufInv
  <2>3. BootInv'
    BY <1>1, <1>3, <1>4, <1>7, Zenon DEF DataInv, BootInv
  <2>4. LoopInv'
    BY <1>1, <1>3, <1>4, <1>7 DEF DataInv, LoopInv
  <2> QED
    BY <2>1, <2>2, <2>3, <2>4 DEF DataInv

\* A crash empties the cache; reading the header starts recovery.
LEMMA DataBoot ==
  ASSUME Shape, ValType, DataInv, crash \/ read_head \/ recover_erase
  PROVE  DataInv'
<1>1. CASE crash
  <2>1. PinInv'
    BY <1>1 DEF crash, DataInv, PinInv, diskVars
  <2>2. BufInv'
    BY <1>1, Zenon DEF crash, DataInv, BufInv, diskVars
  <2>3. BootInv'
    BY <1>1, Zenon DEF crash, DataInv, BootInv, diskVars
  <2>4. LoopInv'
    BY <1>1 DEF crash, DataInv, LoopInv, diskVars
  <2> QED
    BY <2>1, <2>2, <2>3, <2>4 DEF DataInv
<1>2. CASE read_head
  <2>1. \A q \in Procs : pc'[q] = "out"
    BY <1>2 DEF read_head, procVars, Shape, ProcInv, RecoveryBoots
  <2>2. /\ UNCHANGED <<home, logblk, buf, dirty>> /\ dirty = {} /\ lh' = head /\ tail' = 0
        /\ boot' \in {"erase", "install"} /\ (boot' = "erase" => Len(lh') = 0)
    BY <1>2 DEF read_head, diskVars, cacheVars, procVars, DataInv, PinInv, RecoveryBoots, Shape, LogInv
  <2> QED
    <3>1. PinInv'
      BY <2>1, <2>2 DEF DataInv, PinInv
    <3>2. BufInv'
      BY <2>1, <2>2 DEF DataInv, BufInv
    <3>3. BootInv'
      BY <2>1, <2>2, SMT, Z3 DEF DataInv, BootInv
    <3>4. LoopInv'
      BY <2>1, <2>2, Zenon DEF DataInv, LoopInv
    <3> QED
      BY <3>1, <3>2, <3>3, <3>4 DEF DataInv
<1>3. CASE recover_erase
  <2>1. \A q \in Procs : pc'[q] = "out"
    BY <1>3 DEF recover_erase, procVars, Shape, ProcInv, RecoveryBoots
  <2>2. UNCHANGED <<home, logblk, buf, dirty>> /\ dirty = {} /\ Len(lh') = 0 /\ boot' = "up"
    BY <1>3 DEF recover_erase, EraseLog, cacheVars, DataInv, PinInv, RecoveryBoots
  <2> QED
    <3>1. PinInv'
      <4>1. boot' \notin RecoveryBoots
        BY <2>2 DEF RecoveryBoots
      <4>2. dirty' = {} /\ 1..Len(lh') = {}
        BY <2>2
      <4> QED
        BY <4>1, <4>2 DEF PinInv
    <3>2. BufInv'
      BY <2>1, <2>2 DEF DataInv, BufInv, RecoveryBoots
    <3>3. BootInv'
      BY <2>1, <2>2, Zenon DEF DataInv, BootInv, RecoveryBoots
    <3>4. LoopInv'
      BY <2>1, <2>2, Zenon DEF DataInv, LoopInv, RecoveryBoots
    <3> QED
      BY <3>1, <3>2, <3>3, <3>4 DEF DataInv
<1> QED
  BY <1>1, <1>2, <1>3

\* The committer copies a block into the log; the cache stays as it is.
LEMMA WriteLogFacts ==
  ASSUME Shape, LogFits, ValType, DataInv, NEW p \in Procs, write_log(p)
  PROVE  /\ buf' = buf /\ UNCHANGED <<home, head, dirty, lh, boot>>
         /\ tail + 1 \in 1..Len(lh)
         /\ logblk' = [logblk EXCEPT ![tail + 1] = buf[lh[tail + 1]]]
         /\ logblk'[tail + 1] = buf[lh[tail + 1]]
         /\ \A i \in 1..tail : logblk'[i] = logblk[i]
<1>1. tail \in Nat /\ Len(lh) \in Nat /\ tail < Len(lh) /\ NLOG \in Nat
  <2>1. tail \in Nat /\ Len(lh) \in Nat /\ NLOG \in Nat
    BY LogConstants DEF Shape, CtrlType, HeadType
  <2>2. tail < Len(lh)
    BY DEF write_log, Shape, LogInv
  <2> QED
    BY <2>1, <2>2
<1>2. tail + 1 \in 1..Len(lh) /\ tail + 1 \in 1..(NLOG - 1)
  BY <1>1 DEF LogFits
<1>3. Waiting(tail + 1) /\ boot = "up"
  BY WaitingFacts DEF write_log
<1>4. bread(lh[tail + 1]) = buf[lh[tail + 1]]
  BY <1>2, <1>3, PinnedFacts
<1>5. buf' = buf
  BY <1>4 DEF write_log, ValType
<1>6. logblk' = [logblk EXCEPT ![tail + 1] = buf[lh[tail + 1]]]
  BY <1>4 DEF write_log
<1>7. \A i \in 1..tail : logblk'[i] = logblk[i]
  BY <1>1, <1>2, <1>6 DEF ValType, LogFits
<1>8. logblk'[tail + 1] = buf[lh[tail + 1]]
  BY <1>2, <1>6, Zenon DEF ValType
<1> QED
  BY <1>2, <1>5, <1>6, <1>7, <1>8, Zenon DEF write_log, logVars

\* Nobody but the committer is in a commit, before and after its step.
LEMMA CommitterAlone ==
  ASSUME Shape, NEW p \in Procs, pc[p] \in CommitPcs, NEW x \in PcSet, Goes(p, x)
  PROVE  \A q \in Procs \ {p} : pc[q] \notin LoopPcs /\ pc'[q] \notin LoopPcs
BY DEF Shape, ProcInv, Goes, CommitPcs, LoopPcs

\* The loop of write_log.
LEMMA DataWriteLog ==
  ASSUME Shape, LogFits, ValType, DataInv, NEW p \in Procs, write_log(p)
  PROVE  DataInv'
<1>0. tail \in Nat /\ Len(lh) \in Nat /\ tail < Len(lh)
  <2>1. tail \in Nat /\ Len(lh) \in Nat
    BY DEF Shape, CtrlType, HeadType
  <2>2. pc[p] = "write_log"
    BY DEF write_log
  <2>3. tail < Len(lh)
    BY <2>2, Zenon DEF Shape, LogInv
  <2> QED
    BY <2>1, <2>3
<1>1. /\ UNCHANGED <<buf, home, dirty, lh, boot>>
      /\ logblk'[tail + 1] = buf[lh[tail + 1]]
      /\ \A i \in 1..tail : logblk'[i] = logblk[i]
  BY WriteLogFacts, Zenon
<1>2. \/ Goes(p, "write_log") /\ tail' = tail + 1
      \/ Goes(p, "write_head") /\ tail + 1 = Len(lh)
  BY <1>0, NextBlockFacts DEF write_log, Shape, PcSet
<1>3. pc[p] = "write_log" /\ boot = "up"
  BY Zenon DEF write_log
<1>4. \A i \in 1..(tail + 1) : logblk'[i] = buf[lh[i]]
  <2>1. \A i \in 1..tail : logblk[i] = buf[lh[i]]
    BY <1>3 DEF DataInv, LoopInv
  <2>2. \A i \in 1..(tail + 1) : i \in 1..tail \/ i = tail + 1
    BY <1>0
  <2> QED
    BY <1>1, <2>1, <2>2, Zenon
<1>5. \A q \in Procs \ {p} : pc'[q] \notin LoopPcs
  BY <1>2, <1>3, CommitterAlone DEF CommitPcs, PcSet
<1>6. \A q \in Procs : pc'[q] \notin {"install", "erase"}
  BY <1>2, <1>5, Zenon DEF Goes, LoopPcs
<1>7. \A q \in Procs :
        /\ pc'[q] = "write_log" => \A i \in 1..tail' : logblk'[i] = buf'[lh'[i]]
        /\ pc'[q] = "write_head" => \A i \in 1..Len(lh') : logblk'[i] = buf'[lh'[i]]
  BY <1>1, <1>2, <1>4, <1>5 DEF Goes, LoopPcs
<1>8. \A i : Waiting(i)
  BY <1>3, WaitingFacts
<1>9. InLog' = InLog
  BY <1>1 DEF InLog
<1> QED
  <2>1. PinInv'
    BY <1>1, <1>3, <1>6, <1>7, <1>8, <1>9, Zenon DEF DataInv, PinInv, RecoveryBoots
  <2>2. BufInv'
    BY <1>1, <1>3, <1>6, <1>7, <1>8, <1>9, Zenon DEF DataInv, BufInv, RecoveryBoots
  <2>3. BootInv'
    BY <1>1, <1>3, <1>6, <1>7, <1>8, <1>9, Zenon DEF DataInv, BootInv, RecoveryBoots
  <2>4. LoopInv'
    BY <1>1, <1>3, <1>6, <1>7, <1>8, <1>9 DEF DataInv, LoopInv, RecoveryBoots
  <2> QED
    BY <2>1, <2>2, <2>3, <2>4, Zenon DEF DataInv

\* The write of the header.
LEMMA DataWriteHead ==
  ASSUME Shape, ValType, DataInv, NEW p \in Procs, write_head(p)
  PROVE  DataInv'
<1>1. /\ UNCHANGED <<home, logblk, buf, dirty, lh, boot, tail>> /\ boot = "up" /\ tail = 0
      /\ pc[p] = "write_head" /\ Goes(p, "install")
  BY GoesTo, Zenon DEF write_head, cacheVars, logVars, Shape, LogInv, CtrlType, PcSet
<1>2. \A q \in Procs \ {p} : pc'[q] \notin LoopPcs
  BY <1>1, CommitterAlone DEF CommitPcs, PcSet
<1>3. pc'[p] = "install"
  BY <1>1 DEF Goes
<1>4. \A i : Waiting(i)
  BY <1>1, WaitingFacts, Zenon
<1>5. InLog' = InLog
  BY <1>1, Zenon DEF InLog
<1>6. \A i \in 1..Len(lh) : ~(i <= tail) /\ logblk[i] = buf[lh[i]]
  <2>1. \A i \in 1..Len(lh) : ~(i <= tail)
    BY <1>1, SMT, Z3 DEF Shape, HeadType
  <2>2. \A i \in 1..Len(lh) : logblk[i] = buf[lh[i]]
    BY <1>1, Zenon DEF DataInv, LoopInv
  <2> QED
    BY <2>1, <2>2
<1> QED
  <2>1. PinInv'
    BY <1>1, <1>2, <1>3, <1>4, <1>5, <1>6, Zenon DEF DataInv, PinInv, LoopPcs, RecoveryBoots
  <2>2. BufInv'
    BY <1>1, <1>2, <1>3, <1>4, <1>5, <1>6, Zenon DEF DataInv, BufInv, LoopPcs, RecoveryBoots
  <2>3. BootInv'
    BY <1>1, <1>2, <1>3, <1>4, <1>5, <1>6, Zenon DEF DataInv, BootInv, LoopPcs, RecoveryBoots
  <2>4. LoopInv'
    BY <1>1, <1>2, <1>3, <1>4, <1>5, <1>6, Zenon DEF DataInv, LoopInv, LoopPcs, RecoveryBoots
  <2> QED
    BY <2>1, <2>2, <2>3, <2>4, Zenon DEF DataInv

\* Installing the block at tail brings home what the log holds of it, and
\* nothing else, since a block is logged once.
LEMMA InstallFacts ==
  ASSUME Shape, LogFits, ValType, InstallBlock, tail < Len(lh)
  PROVE  /\ tail \in Nat /\ Len(lh) \in Nat /\ tail + 1 \in 1..Len(lh)
         /\ lh[tail + 1] \in Blocks
         /\ home'[lh[tail + 1]] = logblk[tail + 1] /\ buf'[lh[tail + 1]] = logblk[tail + 1]
         /\ logblk[tail + 1] # NoBuf
         /\ dirty' = dirty \ {lh[tail + 1]}
         /\ \A c \in Blocks : c # lh[tail + 1] => home'[c] = home[c] /\ buf'[c] = buf[c]
         /\ \A i \in 1..Len(lh) : i # tail + 1 => lh[i] # lh[tail + 1]
<1>1. tail \in Nat /\ Len(lh) \in Nat /\ NLOG \in Nat
  BY LogConstants DEF Shape, CtrlType, HeadType
<1>2. tail + 1 \in 1..Len(lh) /\ tail + 1 \in 1..(NLOG - 1)
  BY <1>1 DEF LogFits
<1>3. lh[tail + 1] \in Blocks /\ logblk[tail + 1] \in Vals
  BY <1>2 DEF Shape, HeadType, ValType
<1>4. \A i \in 1..Len(lh) : i # tail + 1 => lh[i] # lh[tail + 1]
  BY <1>2 DEF Shape, LogInv
<1> QED
  BY <1>1, <1>2, <1>3, <1>4, BlockConstants DEF InstallBlock, ValType

\* The loop of install_trans in commit.
LEMMA DataInstall ==
  ASSUME Shape, LogFits, ValType, DataInv, NEW p \in Procs, install_trans(p)
  PROVE  DataInv'
<1>1. /\ InstallBlock /\ tail < Len(lh) /\ pc[p] = "install" /\ boot = "up"
      /\ UNCHANGED <<logblk, lh, boot>>
  BY Zenon DEF install_trans, Shape, LogInv, logVars
<1>2. /\ tail \in Nat /\ Len(lh) \in Nat /\ tail + 1 \in 1..Len(lh)
      /\ lh[tail + 1] \in Blocks
      /\ home'[lh[tail + 1]] = logblk[tail + 1] /\ buf'[lh[tail + 1]] = logblk[tail + 1]
      /\ logblk[tail + 1] # NoBuf
      /\ dirty' = dirty \ {lh[tail + 1]}
      /\ \A c \in Blocks : c # lh[tail + 1] => home'[c] = home[c] /\ buf'[c] = buf[c]
      /\ \A i \in 1..Len(lh) : i # tail + 1 => lh[i] # lh[tail + 1]
  BY <1>1, InstallFacts, Zenon
<1>3. \/ Goes(p, "install") /\ tail' = tail + 1
      \/ Goes(p, "erase") /\ tail + 1 = Len(lh)
  BY <1>1, NextBlockFacts, Zenon DEF install_trans, Shape, PcSet
<1>4. \A q \in Procs \ {p} : pc'[q] \notin LoopPcs
  BY <1>1, <1>3, CommitterAlone DEF CommitPcs, PcSet
<1>5. \A i \in 1..Len(lh) : lh[i] \in Blocks
  BY SMT, Z3 DEF Shape, HeadType
<1>6. \A i \in 1..Len(lh) :
        IF i <= tail + 1 THEN lh[i] \notin dirty' /\ home'[lh[i]] = logblk[i]
                         ELSE logblk[i] = buf'[lh[i]]
  <2> SUFFICES ASSUME NEW i \in 1..Len(lh)
               PROVE  IF i <= tail + 1 THEN lh[i] \notin dirty' /\ home'[lh[i]] = logblk[i]
                                       ELSE logblk[i] = buf'[lh[i]]
    BY Zenon
  <2>1. CASE i = tail + 1
    BY <1>2, <2>1, Zenon
  <2>2. CASE i # tail + 1
    <3>1. home'[lh[i]] = home[lh[i]] /\ buf'[lh[i]] = buf[lh[i]]
      BY <1>2, <1>5, <2>2, Zenon
    <3>2. IF i <= tail THEN lh[i] \notin dirty /\ home[lh[i]] = logblk[i]
                       ELSE logblk[i] = buf[lh[i]]
      BY <1>1 DEF DataInv, LoopInv
    <3>3. (i <= tail + 1 => i <= tail) /\ (i <= tail => i <= tail + 1)
      <4>1. tail \in Nat
        BY <1>2, Zenon
      <4> QED
        BY <2>2, <4>1, SMT, Z3
    <3> QED
      BY <1>2, <3>1, <3>2, <3>3, Zenon
  <2> QED
    BY <2>1, <2>2
<1>7. dirty' \subseteq InLog' /\ \A i \in 1..Len(lh) : i > tail + 1 => lh[i] \in dirty'
  <2>1. InLog' = InLog
    BY <1>1 DEF InLog
  <2>2. \A i \in 1..Len(lh) : i > tail => lh[i] \in dirty
    BY <1>1, WaitingFacts DEF DataInv, PinInv
  <2>3. \A i \in 1..Len(lh) : i > tail + 1 => i > tail /\ i # tail + 1
    <3>1. tail \in Nat
      BY <1>2, Zenon
    <3> QED
      BY <3>1
  <2> QED
    BY <1>1, <1>2, <2>1, <2>2, <2>3 DEF DataInv, PinInv
<1>8. \A c \in dirty' : buf'[c] # NoBuf
  BY <1>2, Zenon DEF DataInv, BufInv, ValType
<1>9. \A c \in Blocks \ dirty' : buf'[c] \in {NoBuf, home'[c]}
  BY <1>2, Zenon DEF DataInv, BufInv
<1>10. CASE Goes(p, "install") /\ tail' = tail + 1
  <2>1. pc'[p] = "install"
    BY <1>10 DEF Goes
  <2>2. \A i : Waiting(i)' => i > tail + 1
    BY <1>10, <2>1, Zenon DEF Waiting
  <2> QED
    <3>1. PinInv'
      BY <1>1, <1>4, <1>6, <1>7, <1>8, <1>9, <1>10, <2>1, <2>2, Zenon DEF DataInv, PinInv, LoopPcs, RecoveryBoots
    <3>2. BufInv'
      BY <1>1, <1>4, <1>6, <1>7, <1>8, <1>9, <1>10, <2>1, <2>2, Zenon DEF DataInv, BufInv, LoopPcs, RecoveryBoots
    <3>3. BootInv'
      BY <1>1, <1>4, <1>6, <1>7, <1>8, <1>9, <1>10, <2>1, <2>2, Zenon DEF DataInv, BootInv, LoopPcs, RecoveryBoots
    <3>4. LoopInv'
      BY <1>1, <1>4, <1>6, <1>7, <1>8, <1>9, <1>10, <2>1, <2>2, Zenon DEF DataInv, LoopInv, LoopPcs, RecoveryBoots
    <3> QED
      BY <3>1, <3>2, <3>3, <3>4 DEF DataInv
<1>11. CASE Goes(p, "erase") /\ tail + 1 = Len(lh)
  <2>1. pc'[p] = "erase"
    BY <1>11 DEF Goes
  <2>2. \A i : ~Waiting(i)'
    BY <2>1, Zenon DEF Waiting
  <2>3. \A i \in 1..Len(lh) : lh[i] \notin dirty' /\ home'[lh[i]] = logblk[i]
    <3>1. \A i \in 1..Len(lh) : i <= tail + 1
      BY <1>11, SMT, Z3
    <3> QED
      BY <1>6, <3>1
  <2>4. dirty' = {}
    BY <1>1, <1>7, <2>3, SMT, Z3 DEF InLog
  <2> QED
    <3>1. PinInv'
      BY <1>1, <1>4, <1>8, <1>9, <2>1, <2>2, <2>3, <2>4, Zenon DEF DataInv, PinInv, LoopPcs, RecoveryBoots
    <3>2. BufInv'
      BY <1>1, <1>4, <1>8, <1>9, <2>1, <2>2, <2>3, <2>4, Zenon DEF DataInv, BufInv, LoopPcs, RecoveryBoots
    <3>3. BootInv'
      BY <1>1, <1>4, <1>8, <1>9, <2>1, <2>2, <2>3, <2>4, Zenon DEF DataInv, BootInv, LoopPcs, RecoveryBoots
    <3>4. LoopInv'
      BY <1>1, <1>4, <1>8, <1>9, <2>1, <2>2, <2>3, <2>4, Zenon DEF DataInv, LoopInv, LoopPcs, RecoveryBoots
    <3> QED
      BY <3>1, <3>2, <3>3, <3>4 DEF DataInv
<1> QED
  BY <1>3, <1>10, <1>11

\* Erasing the header.
LEMMA DataErase ==
  ASSUME Shape, ValType, DataInv, NEW p \in Procs, erase(p)
  PROVE  DataInv'
<1>a. UNCHANGED <<home, logblk, buf, dirty, boot>> /\ pc[p] = "erase"
  BY DEF erase, EraseLog, cacheVars
<1>b. Len(lh') = 0
  BY Zenon DEF erase, EraseLog
<1>c. Goes(p, "finish")
  BY GoesTo, Zenon DEF erase, Shape, CtrlType, PcSet
<1>d. boot = "up"
  BY DEF erase
<1>1. /\ UNCHANGED <<home, logblk, buf, dirty, boot>> /\ Len(lh') = 0
      /\ pc[p] = "erase" /\ boot = "up" /\ Goes(p, "finish")
  BY <1>a, <1>b, <1>c, <1>d, Zenon
<1>2. \A q \in Procs \ {p} : pc'[q] \notin LoopPcs
  BY <1>1, CommitterAlone, Zenon DEF CommitPcs, PcSet
<1>3. pc'[p] = "finish" /\ dirty = {}
  BY <1>1 DEF Goes, DataInv, LoopInv
<1> QED
  <2>1. PinInv'
    <3>1. boot' \notin RecoveryBoots
      BY <1>1, Zenon DEF RecoveryBoots
    <3>2. dirty' = {} /\ 1..Len(lh') = {}
      <4>1. 1..0 = {}
        OBVIOUS
      <4> QED
        BY <1>1, <1>3, <4>1
    <3> QED
      BY <3>1, <3>2 DEF PinInv
  <2>2. BufInv'
    BY <1>1, <1>2, <1>3, Zenon DEF DataInv, BufInv, LoopPcs, RecoveryBoots
  <2>3. BootInv'
    BY <1>1, <1>2, <1>3, Zenon DEF DataInv, BootInv, LoopPcs, RecoveryBoots
  <2>4. LoopInv'
    BY <1>1, <1>2, <1>3 DEF DataInv, LoopInv, LoopPcs, RecoveryBoots
  <2> QED
    BY <2>1, <2>2, <2>3, <2>4 DEF DataInv

\* The loop of install_trans in recovery.
LEMMA DataRecover ==
  ASSUME Shape, LogFits, ValType, DataInv, recover_install
  PROVE  DataInv'
<1>1. /\ InstallBlock /\ tail < Len(lh) /\ boot = "install" /\ dirty = {}
      /\ UNCHANGED <<logblk, lh>>
  BY Zenon DEF recover_install, Shape, LogInv, logVars, DataInv, PinInv, RecoveryBoots
<1>2. /\ tail \in Nat /\ Len(lh) \in Nat /\ tail + 1 \in 1..Len(lh)
      /\ lh[tail + 1] \in Blocks
      /\ home'[lh[tail + 1]] = logblk[tail + 1] /\ buf'[lh[tail + 1]] = logblk[tail + 1]
      /\ dirty' = dirty \ {lh[tail + 1]}
      /\ \A c \in Blocks : c # lh[tail + 1] => home'[c] = home[c] /\ buf'[c] = buf[c]
      /\ \A i \in 1..Len(lh) : i # tail + 1 => lh[i] # lh[tail + 1]
  BY <1>1, InstallFacts, Zenon
<1>3. \A q \in Procs : pc'[q] = "out"
  BY <1>1 DEF recover_install, Shape, ProcInv, RecoveryBoots
<1>4. \/ boot' = "install" /\ tail' = tail + 1
      \/ boot' = "erase" /\ tail + 1 = Len(lh)
  <2>1. IF tail + 1 < Len(lh) THEN tail' = tail + 1 /\ boot' = boot
                              ELSE tail' = 0 /\ boot' = "erase"
    BY Zenon DEF recover_install
  <2>2. ~(tail + 1 < Len(lh)) => tail + 1 = Len(lh)
    BY <1>1, <1>2
  <2> QED
    BY <1>1, <2>1, <2>2
<1>5. \A i \in 1..Len(lh) : lh[i] \in Blocks
  BY DEF Shape, HeadType
<1>6. \A i \in 1..(tail + 1) : home'[lh[i]] = logblk[i]
  <2> SUFFICES ASSUME NEW i \in 1..(tail + 1) PROVE home'[lh[i]] = logblk[i]
    BY Zenon
  <2>1. CASE i = tail + 1
    BY <1>2, <2>1
  <2>2. CASE i # tail + 1
    <3>1. i \in 1..tail /\ i \in 1..Len(lh)
      <4>1. tail \in Nat /\ Len(lh) \in Nat /\ tail < Len(lh)
        BY <1>1, <1>2, Zenon
      <4> QED
        BY <2>2, <4>1, SMT, Z3
    <3>2. home'[lh[i]] = home[lh[i]]
      BY <1>2, <1>5, <2>2, <3>1, Zenon
    <3> QED
      BY <1>1, <3>1, <3>2 DEF DataInv, BootInv
  <2> QED
    BY <2>1, <2>2, Zenon
<1>7. \A c \in Blocks : buf'[c] \in {NoBuf, home'[c]}
  BY <1>1, <1>2, Zenon DEF DataInv, BufInv
<1>8. dirty' = {}
  BY <1>1, <1>2
<1> QED
  <2>1. PinInv'
    BY <1>1, <1>3, <1>4, <1>6, <1>7, <1>8, Zenon DEF DataInv, PinInv
  <2>2. BufInv'
    BY <1>1, <1>3, <1>4, <1>6, <1>7, <1>8, Zenon DEF DataInv, BufInv
  <2>3. BootInv'
    BY <1>1, <1>3, <1>4, <1>6, <1>7, <1>8, Zenon DEF DataInv, BootInv
  <2>4. LoopInv'
    BY <1>1, <1>3, <1>4, <1>6, <1>7, <1>8, Zenon DEF DataInv, LoopInv
  <2> QED
    BY <2>1, <2>2, <2>3, <2>4, Zenon DEF DataInv

\* Contents: the invariant is inductive.
LEMMA DataStep ==
  ASSUME Shape, Shape', LogFits, ValType, DataInv, [Next]_vars
  PROVE  DataInv'
<1>1. CASE UNCHANGED vars
  <2>1. InLog' = InLog /\ \A i : Waiting(i)' <=> Waiting(i)
    BY <1>1 DEF vars, logVars, procVars, InLog, Waiting
  <2> QED
    <3>1. PinInv'
      BY <1>1, <2>1, Zenon DEF DataInv, PinInv, vars, diskVars, cacheVars, logVars, procVars
    <3>2. BufInv'
      BY <1>1, <2>1, Zenon DEF DataInv, BufInv, vars, diskVars, cacheVars, logVars, procVars
    <3>3. BootInv'
      BY <1>1, <2>1, Zenon DEF DataInv, BootInv, vars, diskVars, cacheVars, logVars, procVars
    <3>4. LoopInv'
      BY <1>1, <2>1 DEF DataInv, LoopInv, vars, diskVars, cacheVars, logVars, procVars
    <3> QED
      BY <3>1, <3>2, <3>3, <3>4, Zenon DEF DataInv
<1>2. ASSUME NEW p \in Procs, commit(p) PROVE DataInv'
  BY <1>2, DataWriteLog, DataWriteHead, DataInstall, DataErase, DataCalls DEF commit
<1>3. CASE crash \/ recover_from_log
  BY <1>3, DataBoot, DataRecover DEF recover_from_log
<1> QED
  BY <1>1, <1>2, <1>3, DataCalls, DataAppend, DataCache DEF Next

-------------------------------------------------------------------------------
(***************************************************************************)
(* Theorems                                                                *)
(***************************************************************************)

\* The control state and the counts hold for every size of the log.
LEMMA CtrlInvariant == Spec => [](Shape /\ CountInv /\ BoolType)
<1>1. Init => BoolType
  BY Zenon DEF Init, BoolType
<1>2. Init => Shape /\ CountInv /\ BoolType
  BY <1>1, InitShape, InitCount
<1>3. (Shape /\ CountInv /\ BoolType) /\ [Next]_vars => (Shape /\ CountInv /\ BoolType)'
  BY ShapeStep, CountStep, StepBoolType
<1> QED
  BY <1>2, <1>3, PTL DEF Spec

\* The test of begin_op reserves enough log space for every running call,
\* for every number of processes and every MAXOPBLOCKS.
THEOREM ReservationHolds == Spec => []Reserved
<1>1. CountInv => Reserved
  BY DEF CountInv
<1> QED
  BY <1>1, CtrlInvariant, PTL

\* commit never runs beside a file system call, so end_op never panics.
THEOREM CommitIsAlone == Spec => []CommitsAlone
<1>1. ASSUME Shape PROVE CommitsAlone
  <2>1. (\A p \in Procs : ~InOp(p)) => Active = {}
    BY DEF Active
  <2>2. Cardinality({}) = 0
    BY FS_EmptySet
  <2> QED
    BY <1>1, <2>1, <2>2 DEF Shape, ProcInv, CommitsAlone
<1> QED
  BY <1>1, CtrlInvariant, PTL

\* The log is empty between transactions, and sleepers have somebody to
\* wake them.
WakeInv ==
  /\ boot = "up" /\ outstanding = 0 /\ ~committing => lh = <<>>
  /\ \A p \in Procs : pc[p] = "finish" => lh = <<>>
  /\ SomeoneWakes

\* A step of begin_op goes to sleep only beside a call or a commit.
LEMMA WakeBegin ==
  ASSUME Shape, WakeInv, NEW p \in Procs, begin_op(p)
  PROVE  WakeInv'
<1>0. LOGSIZE \in Nat /\ MAXOPBLOCKS \in Nat /\ MAXOPBLOCKS <= LOGSIZE
  BY LogConstants, SMT, Z3 DEF LOGSIZE
<1>a. outstanding \in Nat
  BY ActiveFinite, FS_CardinalityType DEF Shape, ProcInv
<1>1. UNCHANGED <<lh, boot, committing>> /\ boot = "up"
  BY DEF begin_op
<1>2. CASE MustWait /\ pc' = [pc EXCEPT ![p] = "sleep"] /\ UNCHANGED outstanding
  <2>1. outstanding > 0 \/ committing
    <3> SUFFICES ASSUME outstanding = 0, ~committing PROVE FALSE
      BY <1>a
    <3>1. Len(lh) = 0
      BY <1>1 DEF WakeInv
    <3>2. (outstanding + 1) * MAXOPBLOCKS = MAXOPBLOCKS
      BY <1>0
    <3> QED
      BY <1>0, <1>2, <3>1, <3>2 DEF MustWait
  <2>2. \A q \in Procs : pc'[q] = "finish" => pc[q] = "finish"
    <3>1. pc' = [pc EXCEPT ![p] = pc'[p]] /\ pc'[p] # "finish"
      BY <1>2 DEF Shape, CtrlType
    <3> QED
      BY <3>1 DEF Shape, CtrlType
  <2> QED
    BY <1>1, <1>2, <2>1, <2>2 DEF WakeInv, SomeoneWakes
<1>3. CASE pc' = [pc EXCEPT ![p] = "op"] /\ outstanding' = outstanding + 1
  <2>1. outstanding' > 0
    BY <1>3, <1>a
  <2>2. \A q \in Procs : pc'[q] = "finish" => pc[q] = "finish"
    <3>1. pc \in [Procs -> PcSet] /\ pc' = [pc EXCEPT ![p] = "op"]
      BY <1>3 DEF Shape, CtrlType
    <3> QED
      BY <3>1
  <2>3. SomeoneWakes'
    BY <2>1 DEF SomeoneWakes
  <2> QED
    BY <1>1, <2>1, <2>2, <2>3 DEF WakeInv
<1> QED
  BY <1>2, <1>3 DEF begin_op

\* A call that ends leaves another one running, or commits.
LEMMA WakeEnd ==
  ASSUME Shape, WakeInv, NEW p \in Procs, end_op(p)
  PROVE  WakeInv'
<1>0. outstanding \in Nat /\ outstanding > 0 /\ ~committing /\ lh' = lh
  <2>1. p \in Active /\ ~committing
    BY DEF end_op, Active, InOp, Shape, ProcInv
  <2>2. Cardinality(Active) # 0
    BY <2>1, ActiveFinite, FS_EmptySet
  <2>3. Cardinality(Active) \in Nat
    BY ActiveFinite, FS_CardinalityType, Zenon
  <2>4. outstanding = Cardinality(Active)
    BY DEF Shape, ProcInv
  <2>5. lh' = lh
    BY DEF end_op
  <2> QED
    BY <2>1, <2>2, <2>3, <2>4, <2>5, SMT, Z3
<1>1. CASE LastOut
  <2>1. committing' /\ pc' = [pc EXCEPT ![p] = IF lh = <<>> THEN "finish" ELSE "write_log"]
    BY <1>1 DEF end_op
  <2>2. \A q \in Procs : pc'[q] = "finish" => lh = <<>>
    BY <2>1 DEF Shape, CtrlType, WakeInv
  <2> QED
    BY <1>0, <2>1, <2>2 DEF WakeInv, SomeoneWakes
<1>2. CASE ~LastOut
  <2>1. outstanding' > 0
    BY <1>0, <1>2 DEF LastOut, end_op
  <2>2. pc' = [Woken EXCEPT ![p] = "out"]
    BY <1>2, Zenon DEF end_op
  <2>3. \A q \in Procs : pc'[q] = "finish" => pc[q] = "finish"
    <3>1. pc \in [Procs -> PcSet]
      BY DEF Shape, CtrlType
    <3>2. Woken \in [Procs -> PcSet] /\ \A q \in Procs : Woken[q] = "finish" => pc[q] = "finish"
      BY <3>1, WokenFacts
    <3>3. \A q \in Procs : pc'[q] = "finish" => Woken[q] = "finish"
      BY <2>2, <3>2
    <3> QED
      BY <3>2, <3>3
  <2> QED
    BY <1>0, <2>1, <2>3 DEF WakeInv, SomeoneWakes
<1> QED
  BY <1>1, <1>2

\* Nobody sleeps on the log when a commit is over.
LEMMA WakeCommit ==
  ASSUME Shape, WakeInv, NEW p \in Procs, commit(p)
  PROVE  WakeInv'
<1>0. committing /\ pc \in [Procs -> PcSet]
  BY DEF commit, write_log, write_head, install_trans, erase, finish, Shape, ProcInv, CtrlType,
     CommitPcs
<1>1. CASE finish(p)
  <2>1. lh' = <<>> /\ pc' = [Woken EXCEPT ![p] = "out"]
    BY <1>1 DEF finish, WakeInv
  <2>2. \A q \in Procs : pc'[q] # "sleep"
    BY <1>0, <2>1, WokenFacts
  <2> QED
    BY <2>1, <2>2 DEF WakeInv, SomeoneWakes
<1>2. CASE erase(p)
  <2>1. lh' = <<>> /\ committing'
    BY <1>0, <1>2 DEF erase, EraseLog
  <2> QED
    BY <2>1 DEF WakeInv, SomeoneWakes
<1>3. CASE write_log(p) \/ write_head(p) \/ install_trans(p)
  <2>1. lh' = lh /\ committing'
    BY <1>0, <1>3, Zenon DEF write_log, write_head, install_trans, logVars
  <2>2. \A q \in Procs : pc'[q] = "finish" => pc[q] = "finish"
    BY <1>0, <1>3 DEF write_log, write_head, install_trans, NextBlock
  <2> QED
    BY <2>1, <2>2 DEF WakeInv, SomeoneWakes
<1> QED
  BY <1>1, <1>2, <1>3, Zenon DEF commit

\* No process sleeps in begin_op without a call or a commit that will wake it.
THEOREM NoLostWakeup == Spec => []SomeoneWakes
<1>1. Init => WakeInv
  BY DEF Init, WakeInv, SomeoneWakes
<1>2. ASSUME Shape, WakeInv, [Next]_vars PROVE WakeInv'
  <2>1. ASSUME UNCHANGED <<lh, outstanding, committing, boot, pc>> PROVE WakeInv'
    BY <1>2, <2>1, Zenon DEF WakeInv, SomeoneWakes
  <2>2. ASSUME NEW b \in Blocks, read_block(b) \/ recycle(b) PROVE WakeInv'
    BY <2>1, <2>2, Zenon DEF read_block, recycle, logVars, procVars
  <2>3. ASSUME NEW p \in Procs, pc[p] \in {"op", "append"},
               UNCHANGED <<outstanding, committing>>,
               pc' = pc \/ (\E y \in {"op", "append"} : pc' = [pc EXCEPT ![p] = y])
        PROVE  WakeInv'
    <3>1. p \in Active /\ ~committing
      BY <1>2, <2>3 DEF Active, InOp, Shape, ProcInv
    <3>2. outstanding \in Nat /\ outstanding > 0
      <4>1. Cardinality(Active) \in Nat /\ Cardinality(Active) # 0
        BY <3>1, ActiveFinite, FS_EmptySet, FS_CardinalityType, Zenon
      <4>2. outstanding = Cardinality(Active)
        BY <1>2, Zenon DEF Shape, ProcInv
      <4> QED
        BY <4>1, <4>2
    <3>3. \A q \in Procs : pc[q] # "finish" /\ pc'[q] # "finish"
      BY <1>2, <2>3, <3>1, Zenon DEF Shape, ProcInv, CtrlType, CommitPcs
    <3> QED
      BY <2>3, <3>2, <3>3, SMT, Z3 DEF WakeInv, SomeoneWakes
  <2>4. ASSUME NEW p \in Procs, NEW b \in Blocks, log_write(p, b) PROVE WakeInv'
    BY <2>3, <2>4, Zenon DEF log_write, logVars, procVars
  <2>5. ASSUME NEW p \in Procs, NEW v \in Vals, log_append(p, v) PROVE WakeInv'
    BY <2>3, <2>5, Zenon DEF log_append
  <2>6. CASE crash
    BY <2>6 DEF crash, WakeInv, SomeoneWakes
  <2>7. CASE recover_from_log
    <3>1. \A q \in Procs : pc'[q] = "out"
      BY <1>2, <2>7 DEF recover_from_log, read_head, recover_install, recover_erase, procVars,
         Shape, ProcInv, RecoveryBoots
    <3>2. boot' = "up" => lh' = <<>>
      BY <2>7 DEF recover_from_log, read_head, recover_install, recover_erase, EraseLog
    <3> QED
      BY <3>1, <3>2 DEF WakeInv, SomeoneWakes
  <2>8. CASE UNCHANGED vars
    BY <2>1, <2>8 DEF vars, logVars, procVars
  <2> QED
    BY <1>2, <2>2, <2>4, <2>5, <2>6, <2>7, <2>8, WakeBegin, WakeEnd, WakeCommit DEF Next
<1>3. WakeInv => SomeoneWakes
  BY DEF WakeInv
<1> QED
  BY <1>1, <1>2, <1>3, CtrlInvariant, PTL DEF Spec

(***************************************************************************)
(* The log that mkfs makes: sb.nlog = LOGSIZE blocks, of which the header  *)
(* takes one, so that it has a block less than begin_op gives away.        *)
(***************************************************************************)

MadeByMkfs == NLOG >= LOGSIZE

\* Every running call leaves n of the blocks begin_op reserved for it.
Spare(n) == \A p \in Procs : InOp(p) => Cardinality(used[p]) + n <= MAXOPBLOCKS

\* Both headers fit in the log.
FitInv == LogFits /\ Len(head) <= NLOG - 1

\* A running call that has blocks to spare owes them.
LEMMA OwedSpare ==
  ASSUME NEW p \in Procs, InOp(p), UsedInv(p), NEW k \in 1..MAXOPBLOCKS,
         Cardinality(used[p]) < k
  PROVE  <<p, k>> \in Owed
BY DEF Owed

\* Two debts are at least two.
LEMMA TwoOwed ==
  ASSUME NEW x \in Owed, NEW y \in Owed, x # y
  PROVE  Cardinality(Owed) >= 2
<1>1. IsFiniteSet(Owed) /\ IsFiniteSet(Owed \ {x}) /\ Cardinality(Owed) \in Nat
      /\ Cardinality(Owed \ {x}) \in Nat
  BY OwedFinite, FS_RemoveElement, FS_CardinalityType, Zenon
<1>2. Cardinality(Owed \ {x}) = Cardinality(Owed) - 1
  BY <1>1, FS_RemoveElement
<1>3. Cardinality(Owed \ {x}) # 0
  BY <1>1, FS_EmptySet
<1> QED
  BY <1>1, <1>2, <1>3

\* A logged block leaves room for the debt of the call that logged it.
LEMMA FitAppend ==
  ASSUME MadeByMkfs, Shape, Shape', CountInv', Spare(1)',
         NEW p \in Procs, NEW v \in Vals, log_append(p, v)
  PROVE  LogFits'
<1>1. /\ LOGSIZE \in Nat /\ NLOG \in Nat /\ MAXOPBLOCKS \in Nat \ {0}
      /\ MAXOPBLOCKS \in 1..MAXOPBLOCKS
  BY LogConstants DEF LOGSIZE
<1>2. InOp(p)' /\ UsedInv(p)'
  BY DEF log_append, InOp, Shape, CtrlType, CountInv
<1>3. Cardinality(used'[p]) \in Nat /\ Cardinality(used'[p]) + 1 <= MAXOPBLOCKS
  BY <1>2, FS_CardinalityType DEF Spare, UsedInv
<1>4. <<p, MAXOPBLOCKS>> \in Owed'
  BY <1>1, <1>2, <1>3 DEF Owed
<1>5. Cardinality(Owed') # 0 /\ Cardinality(Owed') \in Nat
  BY <1>4, OwedFinite, FS_EmptySet
<1>6. Len(lh') \in Nat
  BY DEF Shape, HeadType
<1> QED
  BY <1>1, <1>5, <1>6 DEF CountInv, Reserved, LogFits, MadeByMkfs

\* Every other step shortens a header, or copies one from the other.
LEMMA FitStep ==
  ASSUME MadeByMkfs, Shape, Shape', CountInv', Spare(1)', FitInv, [Next]_vars
  PROVE  FitInv'
<1>1. NLOG \in Nat \ {0} /\ Len(<<>>) = 0
  BY LogConstants
<1>2. CASE /\ lh' \in {lh, head, <<>>}
           /\ head' \in {lh, head, <<>>}
  BY <1>1, <1>2 DEF FitInv, LogFits
<1>3. ASSUME NEW p \in Procs, NEW v \in Vals, log_append(p, v) PROVE FitInv'
  BY <1>3, FitAppend, Zenon DEF log_append, diskVars, FitInv
<1>4. ASSUME NEW p \in Procs,
             \/ begin_op(p) \/ (\E b \in Blocks : log_write(p, b)) \/ end_op(p) \/ commit(p)
      PROVE  lh' \in {lh, head, <<>>} /\ head' \in {lh, head, <<>>}
  BY <1>4, Zenon DEF begin_op, log_write, end_op, commit, write_log, write_head,
     install_trans, erase, finish, EraseLog, diskVars, logVars
<1>5. (\E b \in Blocks : read_block(b) \/ recycle(b)) \/ recover_from_log \/ crash \/ UNCHANGED vars
      => lh' \in {lh, head, <<>>} /\ head' \in {lh, head, <<>>}
  BY Zenon DEF read_block, recycle, recover_from_log, read_head, recover_install, recover_erase,
     crash, EraseLog, vars, diskVars, logVars
<1> QED
  BY <1>2, <1>3, <1>4, <1>5, Zenon DEF Next

\* The log mkfs makes is never overrun by calls that leave one of the blocks
\* reserved for them, however they begin, log and end.
THEOREM SpareFits ==
  ASSUME MadeByMkfs
  PROVE  Spec /\ []Spare(1) => []LogFits
<1>1. Init => FitInv
  BY LogConstants DEF Init, FitInv, LogFits
<1>2. FitInv => LogFits
  BY DEF FitInv
<1> QED
  BY <1>1, <1>2, FitStep, CtrlInvariant, PTL DEF Spec

\* A panic comes of a call that logs a block when the running calls together
\* have at most one block left of those reserved for them.
SpentPanic ==
  boot # "panic" /\ boot' = "panic" =>
    /\ \E p \in Procs, b \in Blocks : log_write(p, b)
    /\ \A p \in Procs : InOp(p) => Cardinality(used[p]) >= MAXOPBLOCKS - 1
    /\ \A p, q \in Procs : InOp(p) /\ InOp(q) /\ p # q =>
         MAXOPBLOCKS \in {Cardinality(used[p]), Cardinality(used[q])}

\* The reservation of begin_op keeps the panics of log.c away from calls that
\* have not used it up: in the log mkfs makes, log_write panics ("too big a
\* transaction") only when every running call has logged MAXOPBLOCKS different
\* blocks, or all but one of them have and that one lacks a single block;
\* end_op ("log.committing") never panics.
THEOREM PanicWhenSpent ==
  ASSUME MadeByMkfs
  PROVE  Spec => [][SpentPanic]_vars
<1>1. ASSUME Shape, CountInv, [Next]_vars PROVE SpentPanic
  <2> SUFFICES ASSUME boot # "panic", boot' = "panic"
               PROVE  /\ \E p \in Procs, b \in Blocks : log_write(p, b)
                      /\ \A p \in Procs : InOp(p) => Cardinality(used[p]) >= MAXOPBLOCKS - 1
                      /\ \A p, q \in Procs : InOp(p) /\ InOp(q) /\ p # q =>
                           MAXOPBLOCKS \in {Cardinality(used[p]), Cardinality(used[q])}
    BY DEF SpentPanic
  <2>1. PICK p \in Procs : (\E b \in Blocks : log_write(p, b)) \/ end_op(p)
    <3>1. ASSUME NEW p \in Procs, begin_op(p) \/ commit(p) \/ \E v \in Vals : log_append(p, v)
          PROVE  boot' = boot
      BY <3>1, Zenon DEF begin_op, commit, log_append, write_log, write_head, install_trans, erase, finish
    <3>2. ASSUME NEW b \in Blocks, read_block(b) \/ recycle(b) PROVE boot' = boot
      BY <3>2 DEF read_block, recycle
    <3>3. recover_from_log => boot' \in {boot, "install", "erase", "up"}
      BY DEF recover_from_log, read_head, recover_install, recover_erase
    <3>4. crash => boot' = "read_head"
      BY DEF crash
    <3>5. UNCHANGED vars => boot' = boot
      BY Zenon DEF vars
    <3> QED BY <1>1, <3>1, <3>2, <3>3, <3>4, <3>5, Zenon DEF Next
  <2>2. p \in Active /\ ~committing
    BY <1>1, <2>1, Zenon DEF log_write, end_op, Active, InOp, Shape, ProcInv
  <2>3. PICK b \in Blocks : log_write(p, b)
    BY <2>1, <2>2 DEF end_op
  <2>4. Len(lh) >= LOGSIZE \/ Len(lh) >= NLOG - 1 \/ outstanding < 1
    BY <2>3 DEF log_write
  <2>5. outstanding \in Nat /\ outstanding # 0
    <3>1. outstanding = Cardinality(Active)
      BY <1>1 DEF Shape, ProcInv
    <3> QED BY <2>2, <3>1, ActiveFinite, FS_EmptySet, FS_CardinalityType, Zenon
  <2>6. /\ LOGSIZE \in Nat /\ NLOG \in Nat /\ NLOG >= LOGSIZE /\ Len(lh) \in Nat
        /\ Cardinality(Owed) \in Nat /\ Len(lh) + Cardinality(Owed) <= LOGSIZE
    BY <1>1, LogConstants, OwedFinite DEF LOGSIZE, MadeByMkfs, Shape, HeadType, CountInv, Reserved
  <2>7. Cardinality(Owed) <= 1
    BY <2>4, <2>5, <2>6
  <2>8. \A x, y \in Owed : x = y
    BY <2>6, <2>7, TwoOwed
  <2>9. ASSUME NEW q \in Procs, InOp(q)
        PROVE  /\ UsedInv(q) /\ Cardinality(used[q]) \in Nat /\ Cardinality(used[q]) <= MAXOPBLOCKS
               /\ MAXOPBLOCKS \in Nat \ {0} /\ MAXOPBLOCKS \in 1..MAXOPBLOCKS
    <3>1. UsedInv(q) /\ Cardinality(used[q]) \in Nat /\ Cardinality(used[q]) <= MAXOPBLOCKS
      BY <1>1, FS_CardinalityType, Zenon DEF CountInv, UsedInv
    <3>2. MAXOPBLOCKS \in Nat \ {0} /\ MAXOPBLOCKS \in 1..MAXOPBLOCKS
      BY LogConstants
    <3> QED BY <3>1, <3>2, Zenon
  <2>10. ASSUME NEW q \in Procs, InOp(q), Cardinality(used[q]) < MAXOPBLOCKS - 1 PROVE FALSE
    <3>1. MAXOPBLOCKS - 1 \in 1..MAXOPBLOCKS
      BY <2>9, <2>10
    <3>2. <<q, MAXOPBLOCKS>> \in Owed /\ <<q, MAXOPBLOCKS - 1>> \in Owed
      BY <2>9, <2>10, <3>1, OwedSpare
    <3>3. MAXOPBLOCKS = MAXOPBLOCKS - 1
      BY <2>8, <3>2
    <3> QED BY <2>9, <2>10, <3>3
  <2>11. ASSUME NEW q \in Procs, NEW r \in Procs, InOp(q), InOp(r), q # r,
                MAXOPBLOCKS \notin {Cardinality(used[q]), Cardinality(used[r])}
         PROVE  FALSE
    <3>1. Cardinality(used[q]) < MAXOPBLOCKS /\ Cardinality(used[r]) < MAXOPBLOCKS
      BY <2>9, <2>11
    <3>2. <<q, MAXOPBLOCKS>> \in Owed /\ <<r, MAXOPBLOCKS>> \in Owed
      BY <2>9, <2>11, <3>1, OwedSpare
    <3> QED BY <2>8, <2>11, <3>2
  <2>12. \A q \in Procs : InOp(q) => Cardinality(used[q]) >= MAXOPBLOCKS - 1
    BY <2>9, <2>10
  <2>13. \A q, r \in Procs : InOp(q) /\ InOp(r) /\ q # r =>
           MAXOPBLOCKS \in {Cardinality(used[q]), Cardinality(used[r])}
    BY <2>11, Zenon
  <2> QED BY <2>3, <2>12, <2>13, Zenon
<1> QED
  BY <1>1, CtrlInvariant, PTL DEF Spec

\* log.c has not panicked.
Alive == boot # "panic"

\* No panic of log.c is met by calls that leave two of the blocks reserved for
\* them, in the log mkfs makes.
THEOREM SpareNeverPanics ==
  ASSUME MadeByMkfs
  PROVE  Spec /\ []Spare(2) => []Alive
<1>1. ASSUME Shape, CountInv, Spare(2), SpentPanic, Alive PROVE Alive'
  <2> SUFFICES ASSUME boot' = "panic" PROVE FALSE
    BY DEF Alive
  <2>1. PICK p \in Procs, b \in Blocks : log_write(p, b)
    BY <1>1, Zenon DEF SpentPanic, Alive
  <2>2. InOp(p)
    BY <2>1 DEF log_write, InOp
  <2>3. Cardinality(used[p]) \in Nat /\ MAXOPBLOCKS \in Nat
    BY <1>1, LogConstants, FS_CardinalityType, Zenon DEF CountInv, UsedInv
  <2> QED BY <1>1, <2>2, <2>3 DEF SpentPanic, Spare, Alive
<1>2. Init => Alive
  BY DEF Init, Alive
<1>3. ASSUME UNCHANGED vars, Alive PROVE Alive'
  BY <1>3, Zenon DEF vars, Alive
<1> QED
  BY <1>1, <1>2, <1>3, PanicWhenSpent, CtrlInvariant, PTL DEF Spec

\* While the log is not overrun the contents invariant holds too.
LEMMA DataInvariant ==
  Spec /\ []LogFits => [](Shape /\ CountInv /\ BoolType /\ LogFits /\ ValType /\ DataInv)
<1>1. Init => ValType /\ DataInv
  BY InitData
<1>2. ASSUME Shape, Shape', LogFits, ValType, DataInv, [Next]_vars
      PROVE  ValType' /\ DataInv'
  BY <1>2, StepValType, DataStep
<1> QED
  BY <1>1, <1>2, CtrlInvariant, PTL DEF Spec

\* Every variable keeps its type while the log is not overrun.
THEOREM TypeCorrect == Spec /\ []LogFits => []TypeOK
<1>1. Shape /\ BoolType /\ ValType => TypeOK
  <2> SUFFICES ASSUME Shape, BoolType, ValType PROVE TypeOK
    OBVIOUS
  <2>1. outstanding \in Nat
    BY ActiveFinite, FS_CardinalityType DEF Shape, ProcInv
  <2>2. committing \in BOOLEAN
    BY DEF BoolType
  <2> QED
    BY <2>1, <2>2 DEF Shape, HeadType, CtrlType, ValType, TypeOK, PcSet
<1> QED
  BY <1>1, DataInvariant, PTL

\* The only copy of a logged block cannot be evicted while log_write does not
\* overrun the log.
THEOREM OnlyCopyIsPinned == Spec /\ []LogFits => []OnlyCopyPinned
<1>1. DataInv => OnlyCopyPinned
  BY DEF DataInv, PinInv, BufInv, OnlyCopyPinned
<1> QED
  BY <1>1, DataInvariant, PTL

-------------------------------------------------------------------------------
(***************************************************************************)
(* Refinement: file system calls are atomic                                *)
(***************************************************************************)

AbsMem == IF boot \in {"up", "panic"} THEN Current ELSE Recovered

\* What a boot recovers of a block, in the committed transaction or not.
LEMMA RecoveredFacts ==
  ASSUME Shape, ValType
  PROVE  /\ Recovered = [b \in Blocks |-> Recovered[b]]
         /\ \A i \in 1..Len(head) : Recovered[head[i]] = logblk[i]
         /\ \A b \in Blocks \ InHead : Recovered[b] = home[b]
<1>1. Recovered = [b \in Blocks |-> Recovered[b]]
  BY DEF Recovered
<1>2. \A b \in Blocks \ InHead : Recovered[b] = home[b]
  BY DEF Recovered
<1>3. ASSUME NEW i \in 1..Len(head) PROVE Recovered[head[i]] = logblk[i]
  <2>1. head[i] \in Blocks /\ head[i] \in InHead
    BY DEF Shape, HeadType, InHead
  <2>2. (CHOOSE j \in 1..Len(head) : head[j] = head[i]) = i
    BY DEF Shape, LogInv
  <2> QED
    BY <2>1, <2>2, Zenon DEF Recovered
<1> QED
  BY <1>1, <1>2, <1>3

\* The same, after a step.
LEMMA RecoveredFactsNext ==
  ASSUME Shape', ValType'
  PROVE  /\ Recovered' = [b \in Blocks |-> Recovered'[b]]
         /\ \A i \in 1..Len(head') : Recovered'[head'[i]] = logblk'[i]
         /\ \A b \in Blocks \ InHead' : Recovered'[b] = home'[b]
<1>1. Recovered' = [b \in Blocks |-> Recovered'[b]]
  BY DEF Recovered
<1>2. \A b \in Blocks \ InHead' : Recovered'[b] = home'[b]
  BY DEF Recovered
<1>3. ASSUME NEW i \in 1..Len(head') PROVE Recovered'[head'[i]] = logblk'[i]
  <2>1. head'[i] \in Blocks /\ head'[i] \in InHead'
    BY DEF Shape, HeadType, InHead
  <2>2. (CHOOSE j \in 1..Len(head') : head'[j] = head'[i]) = i
    <3>1. \A j \in 1..Len(head') : head'[j] = head'[i] => j = i
      BY DEF Shape, LogInv
    <3> QED
      BY <3>1
  <2> QED
    BY <2>1, <2>2, Zenon DEF Recovered
<1> QED
  BY <1>1, <1>2, <1>3

\* Nothing committed: a boot finds the home blocks.
LEMMA RecoveredHome ==
  (head = <<>> => \A b \in Blocks : Recovered[b] = home[b])
    /\ (head' = <<>> => \A b \in Blocks : Recovered'[b] = home'[b])
<1>1. (head = <<>> => InHead = {}) /\ (head' = <<>> => InHead' = {})
  BY DEF InHead
<1>2. InHead = {} => \A b \in Blocks : Recovered[b] = home[b]
  BY DEF Recovered
<1>3. InHead' = {} => \A b \in Blocks : Recovered'[b] = home'[b]
  BY DEF Recovered
<1> QED
  BY <1>1, <1>2, <1>3

\* No process in the middle of installing: nothing is committed.
LEMMA NoneCommitted ==
  ASSUME Shape, boot \in {"up", "panic"},
         \A p \in Procs : pc[p] \notin {"install", "erase"}
  PROVE  head = <<>>
BY Zenon DEF Shape, LogInv

\* A clean block reads as on disk, cached or not.
LEMMA CleanReads ==
  /\ ValType /\ DataInv => \A b \in Blocks \ dirty : bread(b) = home[b]
  /\ ValType' /\ DataInv' => \A b \in Blocks \ dirty' : bread(b)' = home'[b]
BY DEF DataInv, BufInv, bread

\* The disk after replaying the log l with header h.
Redo(d, l, h) ==
  [b \in Blocks |-> IF b \in {h[i] : i \in 1..Len(h)}
                    THEN l[CHOOSE i \in 1..Len(h) : h[i] = b]
                    ELSE d[b]]

\* Steps that leave disk, cache and phase alone leave the contents alone.
LEMMA SameContents ==
  /\ UNCHANGED diskVars => Recovered' = Recovered
  /\ UNCHANGED <<home, buf>> => Current' = Current
<1>1. ASSUME UNCHANGED diskVars PROVE Recovered' = Recovered
  <2>1. home' = home /\ logblk' = logblk /\ head' = head
    BY <1>1 DEF diskVars
  <2>2. Recovered = Redo(home, logblk, head) /\ Recovered' = Redo(home', logblk', head')
    BY Zenon DEF Recovered, InHead, Redo
  <2> QED
    BY <2>1, <2>2
<1>2. ASSUME UNCHANGED <<home, buf>> PROVE Current' = Current
  BY <1>2 DEF Current, bread
<1> QED
  BY <1>1, <1>2

\* The committer before the header is written.
LEMMA RefWriteLog ==
  ASSUME Shape, LogFits, ValType, DataInv, NEW p \in Procs, write_log(p)
  PROVE  AbsMem' = AbsMem /\ Recovered' = Recovered
<1>1. buf' = buf /\ UNCHANGED <<home, head, boot>>
  BY WriteLogFacts, Zenon
<1>2. \A q \in Procs : pc[q] \notin {"install", "erase"}
  BY DEF write_log, Shape, ProcInv, CommitPcs
<1>3. head = <<>> /\ boot = "up"
  BY <1>2, NoneCommitted, Zenon DEF write_log
<1>4. Recovered' = Recovered
  BY <1>1, <1>3, RecoveredHome, Zenon DEF Recovered
<1>5. Current' = Current
  BY <1>1, SameContents
<1> QED
  BY <1>1, <1>4, <1>5, Zenon DEF AbsMem

\* The header is written: what a boot recovers becomes what memory holds.
LEMMA RefWriteHead ==
  ASSUME Shape, Shape', LogFits, ValType, ValType', DataInv, NEW p \in Procs, write_head(p)
  PROVE  AbsMem' = AbsMem /\ Recovered' = AbsMem
<1>1. /\ UNCHANGED <<home, logblk, buf, boot, lh>> /\ boot = "up" /\ head' = lh
      /\ pc[p] = "write_head"
  BY DEF write_head, cacheVars, logVars
<1>2. Current' = Current
  BY <1>1, SameContents, Zenon
<1>3. InHead' = InLog
  BY <1>1 DEF InHead, InLog
<1>4. \A i \in 1..Len(lh) : Recovered'[lh[i]] = logblk[i]
  BY <1>1, RecoveredFactsNext, Zenon
<1>5. \A i \in 1..Len(lh) : logblk[i] = bread(lh[i])
  <2>1. \A i : Waiting(i)
    BY <1>1, WaitingFacts, Zenon
  <2> QED
    BY <1>1, <2>1, PinnedFacts, Zenon DEF DataInv, LoopInv
<1>6. \A b \in InLog : Recovered'[b] = bread(b)
  <2> SUFFICES ASSUME NEW b \in InLog PROVE Recovered'[b] = bread(b)
    OBVIOUS
  <2>1. PICK i \in 1..Len(lh) : b = lh[i]
    BY Zenon DEF InLog
  <2> QED
    BY <1>4, <1>5, <2>1, Zenon
<1>7. \A b \in Blocks \ InLog : Recovered'[b] = bread(b)
  <2>1. \A b \in Blocks \ InLog : Recovered'[b] = home[b]
    BY <1>1, <1>3, RecoveredFactsNext, Zenon
  <2>2. \A b \in Blocks \ InLog : b \notin dirty
    BY <1>1 DEF DataInv, PinInv, BufInv
  <2> QED
    BY <2>1, <2>2, CleanReads
<1>8. Recovered' = Current
  <2>1. \A b \in Blocks : Recovered'[b] = bread(b)
    BY <1>6, <1>7
  <2>2. Recovered' = [b \in Blocks |-> Recovered'[b]]
    BY RecoveredFactsNext
  <2> QED
    BY <2>1, <2>2 DEF Current
<1> QED
  BY <1>1, <1>2, <1>8 DEF AbsMem

\* Installing a committed block changes nothing for anyone.
LEMMA RefInstallBlock ==
  ASSUME Shape, Shape', LogFits, ValType, ValType', InstallBlock, tail < Len(lh),
         UNCHANGED <<logblk, head, lh>>, lh = head
  PROVE  Recovered' = Recovered
<1>1. \A c \in Blocks : c # lh[tail + 1] => home'[c] = home[c]
  BY InstallFacts
<1>2. lh[tail + 1] \in InHead /\ InHead' = InHead
  <2>1. tail + 1 \in 1..Len(lh)
    BY InstallFacts
  <2> QED
    BY <2>1, Zenon DEF InHead
<1>3. \A b \in Blocks \ InHead : Recovered'[b] = Recovered[b]
  BY <1>1, <1>2, RecoveredFacts, RecoveredFactsNext, Zenon
<1>4. \A b \in InHead : Recovered'[b] = Recovered[b]
  BY RecoveredFacts, RecoveredFactsNext DEF InHead
<1> QED
  BY <1>3, <1>4, RecoveredFacts, RecoveredFactsNext, Zenon

\* install_trans, in commit.
LEMMA RefInstall ==
  ASSUME Shape, Shape', LogFits, ValType, ValType', DataInv, NEW p \in Procs, install_trans(p)
  PROVE  AbsMem' = AbsMem /\ Recovered' = Recovered
<1>a. /\ InstallBlock /\ UNCHANGED <<logblk, head, lh, boot>>
      /\ pc[p] = "install" /\ boot = "up"
  BY Zenon DEF install_trans, logVars
<1>b. lh = head /\ tail < Len(lh)
  BY <1>a DEF Shape, LogInv
<1>1. /\ InstallBlock /\ tail < Len(lh) /\ UNCHANGED <<logblk, head, lh, boot>> /\ lh = head
      /\ pc[p] = "install" /\ boot = "up"
  BY <1>a, <1>b
<1>2. Recovered' = Recovered
  BY <1>1, RefInstallBlock, Zenon
<1>3. /\ tail \in Nat /\ Len(lh) \in Nat /\ tail + 1 \in 1..Len(lh) /\ lh[tail + 1] \in Blocks
      /\ logblk[tail + 1] # NoBuf /\ buf'[lh[tail + 1]] = logblk[tail + 1]
      /\ \A c \in Blocks : c # lh[tail + 1] => home'[c] = home[c] /\ buf'[c] = buf[c]
  BY <1>1, InstallFacts, Zenon
<1>4. logblk[tail + 1] = buf[lh[tail + 1]]
  <2>1. LoopInv
    BY Zenon DEF DataInv
  <2>2. IF tail + 1 <= tail THEN lh[tail + 1] \notin dirty /\ home[lh[tail + 1]] = logblk[tail + 1]
                            ELSE logblk[tail + 1] = buf[lh[tail + 1]]
    BY <1>1, <1>3, <2>1, Zenon DEF LoopInv
  <2>3. ~(tail + 1 <= tail)
    BY <1>3, SMT, Z3
  <2> QED
    BY <2>2, <2>3
<1>5. \A b \in Blocks : bread(b)' = bread(b)
  BY <1>3, <1>4, Zenon DEF bread
<1>6. Current' = Current
  BY <1>5 DEF Current
<1> QED
  BY <1>1, <1>2, <1>6 DEF AbsMem

\* The transaction is installed, so its header may go.
LEMMA RefErase ==
  ASSUME Shape, Shape', ValType, ValType', DataInv, head' = <<>>, lh = head,
         UNCHANGED <<home, logblk>>, \A i \in 1..Len(lh) : home[lh[i]] = logblk[i]
  PROVE  Recovered' = Recovered /\ \A b \in Blocks : Recovered[b] = home[b]
<1>1. \A b \in InHead : Recovered[b] = home[b]
  BY RecoveredFacts DEF InHead
<1>2. \A b \in Blocks : Recovered[b] = home[b]
  BY <1>1, RecoveredFacts, Zenon
<1>3. \A b \in Blocks : Recovered'[b] = home[b]
  BY RecoveredHome
<1>4. Recovered' = Recovered
  BY <1>2, <1>3, RecoveredFacts, RecoveredFactsNext, Zenon
<1> QED
  BY <1>2, <1>4

\* The mapped next-state relation, with AbsMem and Recovered for mem and disk.
Maps ==
  \/ \E p \in Procs : Active' = Active \cup {p} /\ UNCHANGED <<AbsMem, Recovered>>
  \/ \E p \in Procs : Active' = Active \ {p} /\ UNCHANGED <<AbsMem, Recovered>>
  \/ \E p \in Procs, b \in Blocks, v \in Vals :
       /\ p \in Active /\ AbsMem' = [AbsMem EXCEPT ![b] = v]
       /\ UNCHANGED <<Recovered, Active>>
  \/ Active = {} /\ Recovered' = AbsMem /\ UNCHANGED <<AbsMem, Active>>
  \/ AbsMem' = Recovered /\ Active' = {} /\ UNCHANGED Recovered
  \/ UNCHANGED <<AbsMem, Recovered, Active>>

\* This is the next-state relation of XvTxn.
LEMMA MapsIsNext == Maps => [Txn!TxnNext]_(Txn!txnVars)
BY Zenon DEF Maps, Txn!TxnNext, Txn!txnVars, Txn!Begin, Txn!End, Txn!Write, Txn!Commit, Txn!Crash,
   AbsMem, Active

\* Calls: begin_op begins, end_op ends, log_write writes.
LEMMA RefCalls ==
  ASSUME Shape, ValType, DataInv, NEW p \in Procs,
         begin_op(p) \/ end_op(p) \/ finish(p) \/ \E b \in Blocks : log_write(p, b)
  PROVE  Maps
<1>1. /\ UNCHANGED diskVars /\ UNCHANGED <<home, buf>>
      /\ boot \in {"up", "panic"} /\ boot' \in {"up", "panic"}
  BY Zenon DEF begin_op, end_op, finish, log_write, diskVars, cacheVars
<1>2. UNCHANGED <<AbsMem, Recovered>>
  BY <1>1, SameContents DEF AbsMem
<1>3. PICK x \in PcSet : Goes(p, x)
  <2>1. CASE pc' = pc
    BY <2>1 DEF Goes, Shape, CtrlType
  <2>2. CASE \E x \in PcSet : pc' = [pc EXCEPT ![p] = x] \/ pc' = [Woken EXCEPT ![p] = x]
    BY <2>2, GoesTo DEF Shape, CtrlType
  <2> QED
    BY <2>1, <2>2, Zenon DEF begin_op, end_op, finish, log_write, procVars, PcSet
<1>4. Active' = Active \cup {p} \/ Active' = Active \ {p}
  BY <1>3, GoesActive
<1> QED
  BY <1>2, <1>4 DEF Maps

\* A logged block is a write of the running call.
LEMMA RefAppend ==
  ASSUME Shape, ValType, DataInv, NEW p \in Procs, NEW v \in Vals, log_append(p, v)
  PROVE  Maps
<1>0. wr[p] \in Blocks /\ p \in Active /\ v # NoBuf /\ "op" \in PcSet
  BY BlockConstants, Zenon DEF Shape, ProcInv, log_append, Active, InOp, PcSet
<1>1. UNCHANGED diskVars /\ boot = "up" /\ boot' = "up" /\ buf' = [buf EXCEPT ![wr[p]] = v]
  BY DEF log_append
<1>2. Recovered' = Recovered
  BY <1>1, SameContents, Zenon
<1>3. \A c \in Blocks : bread(c)' = IF c = wr[p] THEN v ELSE bread(c)
  BY <1>0, <1>1 DEF bread, ValType, diskVars
<1>4. Current' = [Current EXCEPT ![wr[p]] = v]
  BY <1>0, <1>3, Zenon DEF Current
<1>5. Active' = Active
  <2>1. Goes(p, "op")
    BY <1>0, GoesTo, Zenon DEF log_append, Shape, CtrlType
  <2>2. Active' = Active \cup {p}
    BY <1>0, <2>1, GoesActive
  <2> QED
    BY <1>0, <2>2
<1>6. AbsMem' = [AbsMem EXCEPT ![wr[p]] = v]
  BY <1>1, <1>4 DEF AbsMem
<1> QED
  BY <1>0, <1>2, <1>5, <1>6, Zenon DEF Maps

\* Only the write of the header shows.
LEMMA RefCommit ==
  ASSUME Shape, Shape', LogFits, ValType, ValType', DataInv, NEW p \in Procs, commit(p)
  PROVE  Maps
<1>1. Active = {}
  BY Zenon DEF commit, write_log, write_head, install_trans, erase, finish, Shape, ProcInv,
     CommitPcs, Active
<1>2. CASE finish(p)
  BY <1>2, RefCalls
<1>3. CASE ~finish(p)
  <2>1. PICK x \in CommitPcs : pc' = [pc EXCEPT ![p] = x]
    BY <1>3 DEF commit, write_log, write_head, install_trans, erase, NextBlock, CommitPcs
  <2>2. x \in PcSet /\ x \notin {"op", "append"}
    BY Zenon DEF CommitPcs, PcSet
  <2>3. Active' = {}
    BY <1>1, <2>1, <2>2, GoesTo, GoesActive, Zenon DEF Shape, CtrlType
  <2>4. CASE write_log(p)
    BY <1>1, <2>3, <2>4, RefWriteLog DEF Maps
  <2>5. CASE write_head(p)
    BY <1>1, <2>3, <2>5, RefWriteHead DEF Maps
  <2>6. CASE install_trans(p)
    BY <1>1, <2>3, <2>6, RefInstall, Zenon DEF Maps
  <2>7. CASE erase(p)
    <3>1. /\ head' = <<>> /\ lh = head /\ UNCHANGED <<home, logblk, buf, boot>>
          /\ \A i \in 1..Len(lh) : home[lh[i]] = logblk[i]
          /\ boot = "up"
      BY <2>7, Zenon DEF erase, EraseLog, cacheVars, Shape, LogInv, DataInv, LoopInv
    <3>2. Recovered' = Recovered
      BY <3>1, RefErase, Zenon
    <3>3. AbsMem' = AbsMem
      BY <3>1, SameContents DEF AbsMem
    <3> QED
      BY <1>1, <2>3, <3>2, <3>3, Zenon DEF Maps
  <2> QED
    BY <1>3, <2>4, <2>5, <2>6, <2>7, Zenon DEF commit
<1> QED
  BY <1>2, <1>3, Zenon

\* A crash goes back to what is on disk, and recovery changes nothing.
LEMMA RefBoot ==
  ASSUME Shape, Shape', LogFits, ValType, ValType', DataInv, crash \/ recover_from_log
  PROVE  Maps
<1>1. CASE crash
  <2>1. UNCHANGED diskVars /\ boot' = "read_head" /\ Active' = {}
    BY <1>1 DEF crash, Active, InOp
  <2>2. Recovered' = Recovered
    BY <2>1, SameContents
  <2>3. AbsMem' = Recovered
    BY <2>1, <2>2 DEF AbsMem
  <2> QED
    BY <2>1, <2>2, <2>3 DEF Maps
<1>2. CASE recover_from_log
  <2>1. boot \notin {"up", "panic"} /\ AbsMem = Recovered /\ Active' = Active
    BY <1>2, Zenon DEF recover_from_log, read_head, recover_install, recover_erase, AbsMem, Active,
       InOp, procVars
  <2>2. CASE read_head
    <3>1. UNCHANGED diskVars /\ boot' \notin {"up", "panic"}
      BY <2>2 DEF read_head
    <3>2. Recovered' = Recovered
      BY <3>1, SameContents, Zenon
    <3> QED
      BY <2>1, <3>1, <3>2 DEF Maps, AbsMem
  <2>3. CASE recover_install
    <3>1. /\ InstallBlock /\ tail < Len(lh) /\ UNCHANGED <<logblk, head, lh>> /\ lh = head
          /\ boot' \notin {"up", "panic"}
      BY <2>3 DEF recover_install, logVars, Shape, LogInv
    <3>2. Recovered' = Recovered
      BY <3>1, RefInstallBlock, Zenon
    <3> QED
      BY <2>1, <3>1, <3>2, Zenon DEF Maps, AbsMem
  <2>4. CASE recover_erase
    <3>1. /\ head' = <<>> /\ lh = head /\ UNCHANGED <<home, logblk, buf, dirty>> /\ dirty = {}
          /\ \A i \in 1..Len(lh) : home[lh[i]] = logblk[i]
          /\ boot' = "up"
      BY <2>4, Zenon DEF recover_erase, EraseLog, cacheVars, Shape, LogInv, DataInv, PinInv, BootInv, RecoveryBoots
    <3>2. Recovered' = Recovered /\ \A b \in Blocks : Recovered[b] = home[b]
      BY <3>1, RefErase, Zenon
    <3>3. \A b \in Blocks : bread(b)' = Recovered[b]
      <4>1. \A b \in Blocks : bread(b) = home[b]
        BY <3>1, CleanReads, Zenon
      <4>2. \A b \in Blocks : bread(b)' = bread(b)
        BY <3>1, Zenon DEF bread
      <4> QED
        BY <3>2, <4>1, <4>2, Zenon
    <3>4. Current' = Recovered
      BY <3>3, RecoveredFacts, Zenon DEF Current
    <3>5. AbsMem' = Recovered
      BY <3>1, <3>4, Zenon DEF AbsMem
    <3> QED
      BY <2>1, <3>2, <3>5, Zenon DEF Maps
  <2> QED
    BY <1>2, <2>2, <2>3, <2>4, Zenon DEF recover_from_log
<1> QED
  BY <1>1, <1>2

\* The buffer cache is transparent.
LEMMA RefCache ==
  ASSUME Shape, ValType, DataInv, NEW b \in Blocks, read_block(b) \/ recycle(b)
  PROVE  Maps
<1>1. /\ UNCHANGED diskVars /\ UNCHANGED <<home, boot, pc>> /\ b \notin dirty
      /\ buf' = [buf EXCEPT ![b] = NoBuf] \/ buf' = [buf EXCEPT ![b] = home[b]]
  BY Zenon DEF read_block, recycle, diskVars, procVars, DataInv, BufInv
<1>2. Recovered' = Recovered /\ Active' = Active
  BY <1>1, SameContents DEF Active, InOp
<1>3. \A c \in Blocks : bread(c)' = bread(c)
  <2>1. bread(b) = home[b]
    BY <1>1, CleanReads
  <2> QED
    BY <1>1, <2>1 DEF bread, ValType
<1>4. Current' = Current
  BY <1>3 DEF Current
<1> QED
  BY <1>1, <1>2, <1>4, Zenon DEF Maps, AbsMem

\* Initially a boot finds what is on disk, and no call runs.
LEMMA RefInit == Init => Txn!TxnInit
<1> SUFFICES ASSUME Init PROVE Txn!TxnInit
  OBVIOUS
<1>1. boot \notin {"up", "panic"} /\ Active = {} /\ head = <<>>
  BY DEF Init, Active, InOp
<1>2. \A b \in Blocks : Recovered[b] = home[b]
  BY <1>1, RecoveredHome
<1>3. Recovered \in [Blocks -> Vals]
  BY <1>2, Zenon DEF Init, Recovered
<1> QED
  BY <1>1, <1>3, Zenon DEF Txn!TxnInit, Active

\* File system calls are atomic with respect to crashes, for any number of
\* processes, blocks and contents, if log_write never overruns the log: the disk
\* that a boot recovers only ever changes, in one step, to the contents of
\* memory at a moment when no call runs.
THEOREM CallsAtomic == Spec /\ []LogFits => CallsAreAtomic
<1>1. ASSUME Shape, Shape', LogFits, ValType, ValType', DataInv, [Next]_vars
      PROVE  [Txn!TxnNext]_(Txn!txnVars)
  <2>1. CASE UNCHANGED vars
    <3>1. UNCHANGED diskVars /\ UNCHANGED <<home, buf>> /\ boot' = boot /\ pc' = pc
      BY <2>1 DEF vars, diskVars, cacheVars, procVars
    <3>2. UNCHANGED <<AbsMem, Recovered, Active>>
      BY <3>1, SameContents, Zenon DEF AbsMem, Active, InOp
    <3> QED
      BY <3>2, MapsIsNext DEF Maps
  <2>2. CASE Next
    BY <1>1, <2>2, RefCalls, RefAppend, RefCommit, RefBoot, RefCache, MapsIsNext DEF Next
  <2> QED
    BY <1>1, <2>1, <2>2
<1> QED
  BY <1>1, RefInit, DataInvariant, PTL DEF Spec, CallsAreAtomic, Txn!TxnSpec

\* In the log mkfs makes, calls that leave one of the blocks reserved for them
\* are atomic, and the only copy of what they log is pinned.
THEOREM SpareAtomic ==
  ASSUME MadeByMkfs
  PROVE  Spec /\ []Spare(1) => CallsAreAtomic /\ []OnlyCopyPinned
BY SpareFits, CallsAtomic, OnlyCopyIsPinned, PTL
===============================================================================
