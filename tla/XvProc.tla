-------------------------------- MODULE XvProc --------------------------------
(***************************************************************************)
(* The process table of xv6 (expansion/proc.c) and the checks that trap.c  *)
(* makes for it: fork, exit, wait, kill, sleep and wakeup, and one         *)
(* scheduler per CPU.                                                      *)
(*                                                                         *)
(* A critical section under ptable.lock is one step, except where the lock *)
(* is held across swtch: the process that gives up its CPU takes the lock, *)
(* and the scheduler, or the process that runs next, releases it.          *)
(* Processes are slots 1..NPROC of the table, and 0 is a null pointer.     *)
(***************************************************************************)
EXTENDS Integers

CONSTANTS
  NPROC,    \* slots of the process table
  NCPU,
  Chans,    \* channels that device drivers, pipes and the console sleep on
  MAXPID    \* bound: pids handed out

ASSUME ProcConstants ==
  /\ NPROC \in Nat \ {0} /\ NCPU \in Nat \ {0} /\ MAXPID \in Nat
  /\ Chans \cap (0..NPROC) = {}

Slots == 1..NPROC
CPUs == 1..NCPU
initproc == 1

VARIABLES
  state, pid, parent, chan,   \* struct proc
  killed,     \* the processes whose killed is set
  nextpid,
  lock,       \* the CPU that holds ptable.lock across swtch, or 0
  proc,       \* cpu->proc; 0 while the CPU runs its scheduler
  scan,       \* cpu: where the loop of its scheduler is
  pc, np      \* where a process is in the kernel; the child it is making

tableVars == <<state, pid, parent, killed, chan, nextpid>>
cpuVars == <<lock, proc, scan>>
threadVars == <<pc, np>>
vars == <<tableVars, cpuVars, threadVars>>

Init ==
  /\ state = [p \in Slots |-> IF p = initproc THEN "RUNNABLE" ELSE "UNUSED"]
  /\ pid = [p \in Slots |-> IF p = initproc THEN 1 ELSE 0]
  /\ parent = [p \in Slots |-> 0] /\ killed = {}
  /\ chan = [p \in Slots |-> 0] /\ nextpid = 2
  /\ lock = 0 /\ proc = [c \in CPUs |-> 0] /\ scan = [c \in CPUs |-> 1]
  /\ pc = [p \in Slots |-> "user"] /\ np = [p \in Slots |-> 0]

-------------------------------------------------------------------------------
(***************************************************************************)
(* What a running process does                                             *)
(***************************************************************************)

\* CPU c runs process p, which is at the point x of the kernel.
Runs(c, p, x) == proc[c] = p /\ state[p] = "RUNNING" /\ pc[p] = x

\* The same, and the process may enter ptable.lock.
Locks(c, p, x) == Runs(c, p, x) /\ lock \in {0, c}

\* A system call: trap has found that the process is not killed.
Calls(c, p) == Runs(c, p, "user") /\ p \notin killed

\* Mutant: the lock is released before the process is off its stack.
sched_unlocked(c, p, s, x) == state' = [s EXCEPT ![p] = x] /\ lock' = 0

\* Giving up the CPU under ptable.lock; s is the table before that.
sched(c, p, s, x) == state' = [s EXCEPT ![p] = x] /\ lock' = c

\* wakeup1 on a table s.
wakeup1(s, ch) == [p \in Slots |-> IF s[p] = "SLEEPING" /\ chan[p] = ch THEN "RUNNABLE" ELSE s[p]]

\* fork: allocproc takes the first UNUSED slot ...
allocproc(c, p) ==
  /\ Calls(c, p) /\ lock = 0 /\ nextpid <= MAXPID
  /\ \E q \in Slots :
       /\ state[q] = "UNUSED" /\ \A r \in 1..(q - 1) : state[r] # "UNUSED"
       /\ state' = [state EXCEPT ![q] = "EMBRYO"]
       /\ pid' = [pid EXCEPT ![q] = nextpid]
       /\ np' = [np EXCEPT ![p] = q]
       /\ pc' = [pc EXCEPT ![p] = "fork", ![q] = "user"]
  /\ nextpid' = nextpid + 1
  /\ UNCHANGED <<parent, killed, chan, cpuVars>>

\* ... there is no memory for its stack or its pages, and the slot is given
\* back without the lock ...
fork_fail(c, p) ==
  /\ Runs(c, p, "fork")
  /\ state' = [state EXCEPT ![np[p]] = "UNUSED"]
  /\ pc' = [pc EXCEPT ![p] = "user"] /\ np' = [np EXCEPT ![p] = 0]
  /\ UNCHANGED <<pid, parent, killed, chan, nextpid, cpuVars>>

\* ... or the child gets its parent, without the lock either ...
fork_copy(c, p) ==
  /\ Runs(c, p, "fork")
  /\ parent' = [parent EXCEPT ![np[p]] = p]
  /\ pc' = [pc EXCEPT ![p] = "fork_run"]
  /\ UNCHANGED <<state, pid, killed, chan, nextpid, cpuVars, np>>

\* ... and becomes RUNNABLE.
fork_run(c, p) ==
  /\ Runs(c, p, "fork_run") /\ lock = 0
  /\ state' = [state EXCEPT ![np[p]] = "RUNNABLE"]
  /\ pc' = [pc EXCEPT ![p] = "user"] /\ np' = [np EXCEPT ![p] = 0]
  /\ UNCHANGED <<pid, parent, killed, chan, nextpid, cpuVars>>

\* The way into exit: the system call, or trap for a killed process.  If it
\* is init the kernel panics: its CPU stops, with interrupts off.
call_exit(c, p) ==
  /\ Runs(c, p, "user")
  /\ pc' = [pc EXCEPT ![p] = IF p = initproc THEN "panic" ELSE "exit"]
  /\ UNCHANGED <<tableVars, cpuVars, np>>

\* Mutant: exit does not wake the parent.
AfterExit_quiet(p) ==
  IF \E q \in Slots : parent[q] = p /\ state[q] = "ZOMBIE" THEN wakeup1(state, initproc) ELSE state

\* The table after the two kinds of wakeup of exit.
AfterExit(p) ==
  LET s == wakeup1(state, parent[p])
  IN  IF \E q \in Slots : parent[q] = p /\ s[q] = "ZOMBIE" THEN wakeup1(s, initproc) ELSE s

\* Mutant: only zombies are passed on.
Adopted_zombies(p) == [q \in Slots |-> IF parent[q] = p /\ state[q] = "ZOMBIE" THEN initproc ELSE parent[q]]

\* init gets the children of an exiting process.
Adopted(p) == [q \in Slots |-> IF parent[q] = p THEN initproc ELSE parent[q]]

exit(c, p) ==
  /\ Runs(c, p, "exit") /\ lock = 0
  /\ parent' = Adopted(p)
  /\ sched(c, p, AfterExit(p), "ZOMBIE")
  /\ UNCHANGED <<pid, killed, chan, nextpid, proc, scan, threadVars>>

Children(p) == {q \in Slots : parent[q] = p}

\* wait finds an exited child and frees its slot.
reap(c, p) ==
  /\ Locks(c, p, "wait")
  /\ \E q \in Children(p) :
       /\ state[q] = "ZOMBIE" /\ \A r \in Children(p) : r < q => state[r] # "ZOMBIE"
       /\ state' = [state EXCEPT ![q] = "UNUSED"]
       /\ pid' = [pid EXCEPT ![q] = 0]
       /\ parent' = [parent EXCEPT ![q] = 0]
       /\ killed' = killed \ {q}
  /\ lock' = 0
  /\ pc' = [pc EXCEPT ![p] = "user"]
  /\ UNCHANGED <<chan, nextpid, proc, scan, np>>

NoZombie(p) == \A q \in Children(p) : state[q] # "ZOMBIE"

wait_fails(c, p) ==
  /\ Locks(c, p, "wait")
  /\ NoZombie(p) /\ (Children(p) = {} \/ p \in killed)
  /\ lock' = 0
  /\ pc' = [pc EXCEPT ![p] = "user"]
  /\ UNCHANGED <<tableVars, proc, scan, np>>

\* sleep, once it has ptable.lock.
sleep(c, p, ch) ==
  /\ chan' = [chan EXCEPT ![p] = ch]
  /\ sched(c, p, state, "SLEEPING")
  /\ UNCHANGED <<pid, parent, killed, nextpid, proc, scan, np>>

wait_sleeps(c, p) ==
  /\ Locks(c, p, "wait")
  /\ NoZombie(p) /\ Children(p) # {} /\ p \notin killed
  /\ sleep(c, p, p)
  /\ UNCHANGED pc

wait(c, p) == reap(c, p) \/ wait_fails(c, p) \/ wait_sleeps(c, p)

call_wait(c, p) ==
  /\ Calls(c, p)
  /\ pc' = [pc EXCEPT ![p] = "wait"]
  /\ UNCHANGED <<tableVars, cpuVars, np>>

\* The loops that sleep on a channel of Chans test killed without
\* ptable.lock, and sleep afterwards.
call_block(c, p) ==
  /\ Calls(c, p)
  /\ pc' = [pc EXCEPT ![p] = "block"]
  /\ UNCHANGED <<tableVars, cpuVars, np>>

block(c, p) ==
  /\ Runs(c, p, "block") /\ lock = 0
  /\ \E ch \in Chans : sleep(c, p, ch)
  /\ pc' = [pc EXCEPT ![p] = "user"]

\* wakeup, from another process or from an interrupt handler.
wakeup(ch) ==
  /\ lock = 0
  /\ \E p \in Slots : state[p] = "SLEEPING" /\ chan[p] = ch
  /\ state' = wakeup1(state, ch)
  /\ UNCHANGED <<pid, parent, killed, chan, nextpid, cpuVars, threadVars>>

Roused(p) == IF state[p] = "SLEEPING" THEN "RUNNABLE" ELSE state[p]

\* kill looks for the first slot with the pid, whatever its state.
kill(c, p, n) ==
  /\ Calls(c, p) /\ lock = 0
  /\ \E q \in Slots :
       /\ pid[q] = n /\ \A r \in 1..(q - 1) : pid[r] # n
       /\ killed' = killed \cup {q}
       /\ state' = [state EXCEPT ![q] = Roused(q)]
  /\ UNCHANGED <<pid, parent, chan, nextpid, cpuVars, threadVars>>

\* A trap that is the program's fault.
fault(c, p) ==
  /\ Calls(c, p)
  /\ killed' = killed \cup {p}
  /\ UNCHANGED <<state, pid, parent, chan, nextpid, cpuVars, threadVars>>

\* The clock interrupts user space: trap has found that the process is not
\* killed, and goes on to yield.
tick(c, p) ==
  /\ Calls(c, p)
  /\ pc' = [pc EXCEPT ![p] = "tick"]
  /\ UNCHANGED <<tableVars, cpuVars, np>>

\* yield, after that or when the clock interrupts the kernel.  Somebody may have
\* killed the process since the test; then trap sends it to exit when it runs
\* again (call_exit).
yield(c, p) ==
  /\ Runs(c, p, pc[p]) /\ lock = 0 /\ pc[p] \notin {"user", "panic"}
  /\ sched(c, p, state, "RUNNABLE")
  /\ pc' = [pc EXCEPT ![p] = IF @ = "tick" THEN "user" ELSE @]
  /\ UNCHANGED <<pid, parent, killed, chan, nextpid, proc, scan, np>>

-------------------------------------------------------------------------------
(***************************************************************************)
(* scheduler, one per CPU                                                  *)
(***************************************************************************)

\* swtch from the process, which has changed its state, to the scheduler.
swtch(c) ==
  /\ lock = c /\ proc[c] # 0 /\ state[proc[c]] # "RUNNING"
  /\ proc' = [proc EXCEPT ![c] = 0]
  /\ scan' = [scan EXCEPT ![c] = proc[c] + 1]
  /\ UNCHANGED <<tableVars, lock, threadVars>>

Ready(c) == {p \in Slots : p >= scan[c] /\ state[p] = "RUNNABLE"}

\* The next RUNNABLE process runs.  If it slept in wait it goes on there with
\* the lock, and releases it if it comes from anywhere else.  One that slept
\* clears its chan.
pick(c) ==
  /\ lock \in {0, c} /\ proc[c] = 0
  /\ \E p \in Ready(c) :
       /\ \A q \in Ready(c) : p <= q
       /\ proc' = [proc EXCEPT ![c] = p]
       /\ state' = [state EXCEPT ![p] = "RUNNING"]
       /\ chan' = [chan EXCEPT ![p] = 0]
       /\ lock' = IF chan[p] = p THEN c ELSE 0
  /\ scan' = [scan EXCEPT ![c] = 1]
  /\ UNCHANGED <<pid, parent, killed, nextpid, threadVars>>

\* Mutant: the scheduler keeps the lock when it has nothing to run.
release_keeps(c) ==
  /\ lock \in {0, c} /\ proc[c] = 0 /\ Ready(c) = {}
  /\ lock' = c
  /\ scan' = [scan EXCEPT ![c] = 1]
  /\ UNCHANGED <<tableVars, proc, threadVars>>

\* The end of the loop over the table.  An idle CPU goes round and round.
release(c) ==
  /\ lock \in {0, c} /\ proc[c] = 0 /\ Ready(c) = {}
  /\ lock' = 0
  /\ scan' = [scan EXCEPT ![c] = 1]
  /\ UNCHANGED <<tableVars, proc, threadVars>>

scheduler(c) == swtch(c) \/ pick(c) \/ release(c)

\* Every system call and trap of the process that CPU c runs.
fork(c, p) == allocproc(c, p) \/ fork_fail(c, p) \/ fork_copy(c, p) \/ fork_run(c, p)

Next ==
  \/ \E c \in CPUs :
       \/ scheduler(c)
       \/ \E p \in Slots :
            \/ fork(c, p) \/ wait(c, p) \/ exit(c, p) \/ block(c, p)
            \/ call_wait(c, p) \/ call_exit(c, p) \/ call_block(c, p)
            \/ fault(c, p) \/ tick(c, p) \/ yield(c, p)
            \/ \E n \in 0..MAXPID : kill(c, p, n)
  \/ \E ch \in Chans : wakeup(ch)

Spec == Init /\ [][Next]_vars

\* The timer interrupts every CPU, so a process that runs is preempted or gets
\* on, and acquire gets the lock sooner or later: the CPU keeps taking the
\* steps that do not depend on what programs do, and init is not interrupted
\* just before the acquire of wait in every time slice it gets.
Progress(c) ==
  \/ scheduler(c)
  \/ \E p \in Slots : \/ wait(c, p) \/ tick(c, p) \/ yield(c, p) \/ exit(c, p)
                      \/ p \in killed /\ call_exit(c, p)

FairSpec ==
  /\ Spec
  /\ \A c \in CPUs : SF_vars(Progress(c))
  /\ SF_vars(\E c \in CPUs : wait(c, initproc))

-------------------------------------------------------------------------------
(***************************************************************************)
(* Properties                                                              *)
(***************************************************************************)

States == {"UNUSED", "EMBRYO", "SLEEPING", "RUNNABLE", "RUNNING", "ZOMBIE"}
Points == {"user", "tick", "fork", "fork_run", "wait", "block", "exit", "panic"}

\* The loop of a scheduler is at a slot of the table or just behind it, and
\* every variable is of its type.
TypeOK ==
  /\ state \in [Slots -> States] /\ pid \in [Slots -> Nat] /\ parent \in [Slots -> 0..NPROC]
  /\ killed \subseteq Slots /\ chan \in [Slots -> Slots \cup Chans \cup {0}]
  /\ nextpid \in Nat /\ lock \in 0..NCPU /\ proc \in [CPUs -> 0..NPROC]
  /\ scan \in [CPUs -> 1..(NPROC + 1)]
  /\ pc \in [Slots -> Points] /\ np \in [Slots -> 0..NPROC]

\* The reason why ptable.lock is held across swtch: no two CPUs are on the
\* kernel stack of one process, a CPU that is on the stack of a process which
\* has given up RUNNING holds the lock, and a RUNNING process is on a CPU.
OneStack ==
  /\ \A c, d \in CPUs : proc[c] # 0 /\ proc[c] = proc[d] => c = d
  /\ \A c \in CPUs : proc[c] # 0 /\ state[proc[c]] # "RUNNING" => lock = c
  /\ \A p \in Slots : state[p] = "RUNNING" => \E c \in CPUs : proc[c] = p

\* "Parent might be sleeping in wait()": a process sleeps in wait only while
\* it has children, none of them has exited, and nobody has killed it, so no
\* wakeup of exit or kill is lost, not even that of a child passed to init.
WaitWoken ==
  \A p \in Slots : state[p] = "SLEEPING" /\ chan[p] = p
                     => p \notin killed /\ NoZombie(p) /\ Children(p) # {}

\* "Pass abandoned children to init": the parent of a process is one that can
\* still call wait for it.
ParentAlive ==
  \A p \in Slots \ {initproc} :
    state[p] \notin {"UNUSED", "EMBRYO"}
      => parent[p] # 0 /\ state[parent[p]] \notin {"UNUSED", "EMBRYO", "ZOMBIE"}

\* "An exited process remains in the zombie state until its parent calls
\* wait()": when a child of init has exited, or a process that was passed on
\* to init, a wait of init returns, whoever holds the lock or sleeps meanwhile.
WaitReturns == pc[initproc] = "wait" /\ ~NoZombie(initproc) ~> pc[initproc] # "wait"
===============================================================================
