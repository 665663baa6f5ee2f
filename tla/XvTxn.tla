-------------------------------- MODULE XvTxn --------------------------------
(* What the log of xv6 promises the file system calls that run between       *)
(* begin_op and end_op: the disk, as the next boot will find it, only ever   *)
(* changes to the contents of memory at a moment when no call is running.    *)
(* So after a crash every call is there with all of its blocks or with none, *)
(* and calls that shared a block come or go together.  XvLog implements it.  *)
CONSTANTS Procs, Blocks, Vals

VARIABLES
  mem,      \* the block contents that programs see
  disk,     \* the block contents that survive a crash
  active    \* the processes inside a file system call

txnVars == <<mem, disk, active>>

TxnInit ==
  /\ disk \in [Blocks -> Vals]
  /\ mem = disk
  /\ active = {}

Begin(p) == active' = active \cup {p} /\ UNCHANGED <<mem, disk>>

Write(p, b, v) ==
  /\ p \in active
  /\ mem' = [mem EXCEPT ![b] = v]
  /\ UNCHANGED <<disk, active>>

End(p) == active' = active \ {p} /\ UNCHANGED <<mem, disk>>

Commit == active = {} /\ disk' = mem /\ UNCHANGED <<mem, active>>

Crash == mem' = disk /\ active' = {} /\ UNCHANGED disk

TxnNext ==
  \/ \E p \in Procs : Begin(p) \/ End(p) \/ \E b \in Blocks, v \in Vals : Write(p, b, v)
  \/ Commit
  \/ Crash

TxnSpec == TxnInit /\ [][TxnNext]_txnVars
===============================================================================
