-------------------------------- MODULE XvLog --------------------------------
(***************************************************************************)
(* The redo log of xv6 (expansion/log.c) on top of its buffer cache        *)
(* (bio.c), with crashes at any point and recovery at boot.                *)
(*                                                                         *)
(* A critical section under log.lock is one step, a write of one disk      *)
(* block is one step, and the machine may stop between any two.  The       *)
(* buffer a caller of log_write has modified is locked until brelse, so    *)
(* its new contents become visible in the step that ends log_write.        *)
(***************************************************************************)
EXTENDS Integers, Sequences, FiniteSets

CONSTANTS
  Procs,         \* processes that make file system calls
  Blocks,        \* the disk blocks outside the log
  Vals,          \* contents of a block
  NoBuf,         \* the block is not in the buffer cache
  MAXOPBLOCKS,   \* param.h: max # of blocks any FS op writes
  NLOG           \* blocks of the on-disk log, its header included: sb.nlog

ASSUME LogConstants == MAXOPBLOCKS \in Nat \ {0} /\ NLOG \in Nat \ {0}
ASSUME BlockConstants == NoBuf \notin Vals /\ NoBuf \notin Blocks /\ IsFiniteSet(Procs)

LOGSIZE == MAXOPBLOCKS * 3

VARIABLES
  home, logblk, head,   \* on disk: the blocks, the log's blocks, its header
  buf, dirty,           \* in memory: cached contents, buffers with B_DIRTY
  lh,                   \* log.lh: numbers of the blocks logged so far
  outstanding, committing,
  boot,                 \* "up", or how far initlog has got
  pc, tail,             \* where a process is; loop counter of the committer
  wr,                   \* the block whose buffer a process has modified
  used                  \* the blocks the current call of a process has logged

diskVars == <<home, logblk, head>>
cacheVars == <<buf, dirty>>
logVars == <<lh, outstanding, committing>>
procVars == <<pc, tail, wr, used>>
vars == <<diskVars, cacheVars, logVars, boot, procVars>>

Init ==
  /\ home \in [Blocks -> Vals]
  /\ \E v \in Vals : logblk = [i \in 1..(NLOG - 1) |-> v]
  /\ head = <<>>
  /\ buf = [b \in Blocks |-> NoBuf] /\ dirty = {}
  /\ lh = <<>> /\ outstanding = 0 /\ committing = FALSE
  /\ boot = "read_head"
  /\ pc = [p \in Procs |-> "out"] /\ tail = 0
  /\ wr = [p \in Procs |-> NoBuf] /\ used = [p \in Procs |-> {}]

InLog == {lh[i] : i \in 1..Len(lh)}

-------------------------------------------------------------------------------
(***************************************************************************)
(* bio.c                                                                   *)
(***************************************************************************)

\* What bread returns: the cached contents, or else those on disk.
bread(b) == IF buf[b] = NoBuf THEN home[b] ELSE buf[b]

\* A call that only reads, or the first half of one that modifies.
read_block(b) ==
  /\ boot = "up"
  /\ buf[b] = NoBuf
  /\ buf' = [buf EXCEPT ![b] = home[b]]
  /\ UNCHANGED <<diskVars, dirty, logVars, boot, procVars>>

\* Mutant: bget recycles a buffer the log still needs.
recycle_dirty(b) ==
  /\ buf[b] # NoBuf /\ \A p \in Procs : wr[p] # b
  /\ buf' = [buf EXCEPT ![b] = NoBuf]
  /\ UNCHANGED <<diskVars, dirty, logVars, boot, procVars>>

\* bget takes the buffer of b for another block.  Any clean buffer nobody
\* holds may be the least recently used one.
recycle(b) ==
  /\ buf[b] # NoBuf /\ b \notin dirty /\ \A p \in Procs : wr[p] # b
  /\ buf' = [buf EXCEPT ![b] = NoBuf]
  /\ UNCHANGED <<diskVars, dirty, logVars, boot, procVars>>

-------------------------------------------------------------------------------
(***************************************************************************)
(* File system calls: begin_op, log_write, end_op                          *)
(***************************************************************************)

\* wakeup(&log): the sleepers go round the loop of begin_op again.
Woken == [q \in Procs |-> IF pc[q] = "sleep" THEN "begin" ELSE pc[q]]

\* Mutant: the test leaves out the call that asks.
MustWait_others == committing \/ Len(lh) + outstanding * MAXOPBLOCKS > LOGSIZE

MustWait == committing \/ Len(lh) + (outstanding + 1) * MAXOPBLOCKS > LOGSIZE

begin_op(p) ==
  /\ boot = "up" /\ pc[p] \in {"out", "begin"}
  /\ \/ MustWait /\ pc' = [pc EXCEPT ![p] = "sleep"] /\ UNCHANGED <<outstanding, used>>
     \/ /\ ~MustWait
        /\ outstanding' = outstanding + 1
        /\ pc' = [pc EXCEPT ![p] = "op"]
        /\ used' = [used EXCEPT ![p] = {}]
  /\ UNCHANGED <<diskVars, cacheVars, lh, committing, boot, tail, wr>>

\* The caller has locked and modified the buffer of b, a block it may still
\* log, and log_write makes its tests, before it takes log.lock.
log_write(p, b) ==
  /\ boot = "up" /\ pc[p] = "op"
  /\ \A q \in Procs : wr[q] # b
  /\ Cardinality(used[p] \cup {b}) <= MAXOPBLOCKS
  /\ IF Len(lh) >= LOGSIZE \/ Len(lh) >= NLOG - 1 \/ outstanding < 1
       THEN boot' = "panic" /\ UNCHANGED procVars
       ELSE /\ pc' = [pc EXCEPT ![p] = "append"]
            /\ wr' = [wr EXCEPT ![p] = b]
            /\ UNCHANGED <<boot, tail, used>>
  /\ UNCHANGED <<diskVars, cacheVars, logVars>>

Appended(b) == IF b \in InLog THEN lh ELSE Append(lh, b)

\* The rest of log_write, under log.lock, and brelse.
log_append(p, v) ==
  /\ boot = "up" /\ pc[p] = "append"
  /\ lh' = Appended(wr[p])
  /\ buf' = [buf EXCEPT ![wr[p]] = v]
  /\ dirty' = dirty \cup {wr[p]}
  /\ used' = [used EXCEPT ![p] = @ \cup {wr[p]}]
  /\ wr' = [wr EXCEPT ![p] = NoBuf]
  /\ pc' = [pc EXCEPT ![p] = "op"]
  /\ UNCHANGED <<diskVars, outstanding, committing, boot, tail>>

\* Mutant: every call commits when it ends.
LastOut_any == TRUE

LastOut == outstanding = 1

end_op(p) ==
  /\ boot = "up" /\ pc[p] = "op"
  /\ outstanding' = outstanding - 1
  /\ boot' = IF committing THEN "panic" ELSE boot
  /\ \/ /\ LastOut
        /\ committing' = TRUE
        /\ pc' = [pc EXCEPT ![p] = IF lh = <<>> THEN "finish" ELSE "write_log"]
        /\ tail' = 0
     \/ /\ ~LastOut
        /\ pc' = [Woken EXCEPT ![p] = "out"]
        /\ UNCHANGED <<committing, tail>>
  /\ UNCHANGED <<diskVars, cacheVars, lh, wr, used>>

-------------------------------------------------------------------------------
(***************************************************************************)
(* commit, one disk write at a time                                        *)
(***************************************************************************)

\* The loops over tail: where the committer is after the block at tail.
NextBlock(p, loop, after) ==
  IF tail + 1 < Len(lh)
    THEN tail' = tail + 1 /\ pc' = [pc EXCEPT ![p] = loop]
    ELSE tail' = 0 /\ pc' = [pc EXCEPT ![p] = after]

write_log(p) ==
  /\ boot = "up" /\ pc[p] = "write_log"
  /\ LET b == lh[tail + 1]
     IN  /\ logblk' = [logblk EXCEPT ![tail + 1] = bread(b)]
         /\ buf' = [buf EXCEPT ![b] = bread(b)]
  /\ NextBlock(p, "write_log", "write_head")
  /\ UNCHANGED <<home, head, dirty, logVars, boot, wr, used>>

\* The write of the header that commits the transaction.
write_head(p) ==
  /\ boot = "up" /\ pc[p] = "write_head"
  /\ head' = lh
  /\ pc' = [pc EXCEPT ![p] = "install"]
  /\ UNCHANGED <<home, logblk, cacheVars, logVars, boot, tail, wr, used>>

\* One round of install_trans, which commit and recovery share: the block
\* goes home and its buffer is clean.
InstallBlock ==
  LET b == lh[tail + 1]
  IN  /\ home' = [home EXCEPT ![b] = logblk[tail + 1]]
      /\ buf' = [buf EXCEPT ![b] = logblk[tail + 1]]
      /\ dirty' = dirty \ {b}

install_trans(p) ==
  /\ boot = "up" /\ pc[p] = "install"
  /\ InstallBlock
  /\ NextBlock(p, "install", "erase")
  /\ UNCHANGED <<logblk, head, logVars, boot, wr, used>>

\* log.lh.n = 0 and write_head.
EraseLog == lh' = <<>> /\ head' = <<>>

erase(p) ==
  /\ boot = "up" /\ pc[p] = "erase"
  /\ EraseLog
  /\ pc' = [pc EXCEPT ![p] = "finish"]
  /\ UNCHANGED <<home, logblk, cacheVars, outstanding, committing, boot, tail, wr, used>>

\* Mutant: nobody is woken after a commit.
finish_quiet(p) ==
  /\ boot = "up" /\ pc[p] = "finish"
  /\ committing' = FALSE
  /\ pc' = [pc EXCEPT ![p] = "out"]
  /\ UNCHANGED <<diskVars, cacheVars, lh, outstanding, boot, tail, wr, used>>

\* The end of end_op, after commit.
finish(p) ==
  /\ boot = "up" /\ pc[p] = "finish"
  /\ committing' = FALSE
  /\ pc' = [Woken EXCEPT ![p] = "out"]
  /\ UNCHANGED <<diskVars, cacheVars, lh, outstanding, boot, tail, wr, used>>

-------------------------------------------------------------------------------
(***************************************************************************)
(* A crash, and recover_from_log at the next boot                          *)
(***************************************************************************)

\* The machine stops, or is reset after a panic.
crash ==
  /\ buf' = [b \in Blocks |-> NoBuf] /\ dirty' = {}
  /\ lh' = <<>> /\ outstanding' = 0 /\ committing' = FALSE
  /\ boot' = "read_head"
  /\ pc' = [p \in Procs |-> "out"] /\ tail' = 0
  /\ wr' = [p \in Procs |-> NoBuf] /\ used' = [p \in Procs |-> {}]
  /\ UNCHANGED diskVars

read_head ==
  /\ boot = "read_head"
  /\ lh' = head
  /\ boot' = IF head = <<>> THEN "erase" ELSE "install"
  /\ UNCHANGED <<diskVars, cacheVars, outstanding, committing, procVars>>

recover_install ==
  /\ boot = "install"
  /\ InstallBlock
  /\ IF tail + 1 < Len(lh)
       THEN tail' = tail + 1 /\ UNCHANGED boot
       ELSE tail' = 0 /\ boot' = "erase"
  /\ UNCHANGED <<logblk, head, logVars, pc, wr, used>>

recover_erase ==
  /\ boot = "erase"
  /\ EraseLog
  /\ boot' = "up"
  /\ UNCHANGED <<home, logblk, cacheVars, outstanding, committing, procVars>>

commit(p) == write_log(p) \/ write_head(p) \/ install_trans(p) \/ erase(p) \/ finish(p)

recover_from_log == read_head \/ recover_install \/ recover_erase

Next ==
  \/ \E p \in Procs :
       \/ begin_op(p)
       \/ \E b \in Blocks : log_write(p, b)
       \/ \E v \in Vals : log_append(p, v)
       \/ end_op(p)
       \/ commit(p)
  \/ \E b \in Blocks : read_block(b) \/ recycle(b)
  \/ recover_from_log
  \/ crash

Spec == Init /\ [][Next]_vars

-------------------------------------------------------------------------------
(***************************************************************************)
(* Properties                                                              *)
(***************************************************************************)

TypeOK ==
  /\ home \in [Blocks -> Vals]
  /\ logblk \in [1..(NLOG - 1) -> Vals]
  /\ head \in Seq(Blocks) /\ lh \in Seq(Blocks)
  /\ buf \in [Blocks -> Vals \cup {NoBuf}] /\ dirty \subseteq Blocks
  /\ outstanding \in Nat /\ committing \in BOOLEAN
  /\ boot \in {"read_head", "install", "erase", "up", "panic"}
  /\ pc \in [Procs -> {"out", "begin", "sleep", "op", "append", "write_log",
                       "write_head", "install", "erase", "finish"}]
  /\ tail \in Nat
  /\ wr \in [Procs -> Blocks \cup {NoBuf}]
  /\ used \in [Procs -> SUBSET Blocks]

InOp(p) == pc[p] \in {"op", "append"}

\* The blocks the running calls may still log.
Owed == {x \in Procs \X (1..MAXOPBLOCKS) : InOp(x[1]) /\ x[2] > Cardinality(used[x[1]])}

\* The test of begin_op reserves enough: what is logged, together with what
\* the running calls may still log, fits in LOGSIZE blocks, although calls end
\* and others begin long before the log is emptied.
Reserved == Len(lh) + Cardinality(Owed) <= LOGSIZE

\* log.c: "The logging system only commits when there are no FS system calls
\* active."  end_op panics otherwise.
CommitsAlone == committing => outstanding = 0 /\ \A p \in Procs : ~InOp(p)

\* The logged block lh[i] is on its way, and not yet home.
Waiting(i) == \A p \in Procs : pc[p] # "erase" /\ (pc[p] = "install" => i > tail)

\* From log_write to its installation a block stays in the cache with B_DIRTY,
\* "to prevent eviction": until write_log has saved it, this is the only copy.
\* A buffer without B_DIRTY is never newer than the disk.
OnlyCopyPinned ==
  /\ boot = "up" => \A i \in 1..Len(lh) :
                      Waiting(i) => lh[i] \in dirty /\ buf[lh[i]] # NoBuf
  /\ \A b \in Blocks \ dirty : buf[b] \in {NoBuf, home[b]}

\* The log stays within the blocks mkfs set aside for it.  param.h says that
\* LOGSIZE is the "max data blocks in on-disk log", and log_write panics
\* rather than write past the end.
LogFits == Len(lh) <= NLOG - 1

\* No lost wakeup in begin_op: who sleeps on the log has somebody to wake it.
SomeoneWakes ==
  (\E p \in Procs : pc[p] = "sleep") => outstanding > 0 \/ committing

(***************************************************************************)
(* The contents the next boot recovers: the home blocks, overwritten by    *)
(* those of a committed transaction.                                       *)
(***************************************************************************)
InHead == {head[i] : i \in 1..Len(head)}

Recovered ==
  [b \in Blocks |-> IF b \in InHead
                    THEN logblk[CHOOSE i \in 1..Len(head) : head[i] = b]
                    ELSE home[b]]

Current == [b \in Blocks |-> bread(b)]

Txn == INSTANCE XvTxn WITH
         mem <- IF boot \in {"up", "panic"} THEN Current ELSE Recovered,
         disk <- Recovered,
         active <- {p \in Procs : InOp(p)}

\* The log makes file system calls atomic with respect to crashes, at
\* whatever disk write the machine stops, during recovery too.
CallsAreAtomic == Txn!TxnSpec
===============================================================================
