----------------------------- MODULE XvProcProofs -----------------------------
(***************************************************************************)
(* Proofs about the process table of xv6, for any number of slots, CPUs    *)
(* and channels.                                                           *)
(***************************************************************************)
EXTENDS XvProc, TLAPS

\* The part of TypeOK that the other invariants need.
Types ==
  /\ state \in [Slots -> States] /\ parent \in [Slots -> Slots \cup {0}]
  /\ chan \in [Slots -> Slots \cup Chans \cup {0}]
  /\ lock \in CPUs \cup {0} /\ proc \in [CPUs -> Slots \cup {0}]
  /\ pc \in [Slots -> Points] /\ np \in [Slots -> Slots \cup {0}]

\* Everything else in TypeOK.
OtherTypes ==
  /\ pid \in [Slots -> Nat] /\ killed \subseteq Slots
  /\ nextpid \in Nat /\ scan \in [CPUs -> 1..(NPROC + 1)]

\* A child that fork is making: nobody else has its slot, and it has no parent
\* before fork_copy.
ForkInv ==
  /\ \A p \in Slots : pc[p] \in {"fork", "fork_run"}
                        => np[p] \in Slots /\ state[np[p]] = "EMBRYO"
  /\ \A p, q \in Slots : pc[p] \in {"fork", "fork_run"} /\ pc[q] \in {"fork", "fork_run"}
                           /\ np[p] = np[q] => p = q

Dead == {"UNUSED", "EMBRYO", "ZOMBIE"}

\* init lives, and whoever is a parent does; a process has a parent from
\* fork_copy until it is reaped.
ParentInv ==
  /\ parent[initproc] = 0 /\ state[initproc] \notin Dead /\ pc[initproc] # "exit"
  /\ \A q \in Slots : parent[q] # 0 => parent[q] # q /\ state[parent[q]] \notin Dead
  /\ \A q \in Slots \ {initproc} : state[q] \notin {"UNUSED", "EMBRYO"} => parent[q] # 0
  /\ \A q \in Slots : state[q] = "UNUSED" => parent[q] = 0
  /\ \A p \in Slots : pc[p] = "fork" => parent[np[p]] = 0
  /\ \A p \in Slots : pc[p] = "fork_run" => parent[np[p]] = p

IInv == Types /\ OneStack /\ ForkInv /\ ParentInv /\ WaitWoken


\* What the proofs need of the ranges of numbers.
LEMMA Ranges ==
  /\ 0 \notin Slots /\ 0 \notin CPUs /\ initproc \in Slots /\ initproc # 0
  /\ 0..NPROC = Slots \cup {0} /\ 0..NCPU = CPUs \cup {0}
  /\ Chans \cap (Slots \cup {0}) = {}
<1>1. 0 \notin Slots /\ 0 \notin CPUs /\ initproc \in Slots /\ initproc # 0
  BY ProcConstants DEF Slots, CPUs, initproc
<1>2. 0..NPROC = Slots \cup {0} /\ 0..NCPU = CPUs \cup {0}
  BY ProcConstants DEF Slots, CPUs
<1> QED
  BY <1>1, <1>2, ProcConstants

\* Every step keeps the types that the other invariants need; the children
\* that fork makes are in the table.
LEMMA TypesStep == Types /\ ForkInv /\ [Next]_vars => Types'
<1> SUFFICES ASSUME Types /\ ForkInv, [Next]_vars PROVE Types'
  OBVIOUS
<1> USE Ranges
<1>1. ASSUME NEW c \in CPUs, NEW p \in Slots, allocproc(c, p) PROVE Types'
  BY <1>1 DEF Types, States, Points, allocproc, Calls, Runs, tableVars, cpuVars, threadVars
<1>2. ASSUME NEW c \in CPUs, NEW p \in Slots, fork_fail(c, p) PROVE Types'
  BY <1>2 DEF Types, ForkInv, States, Points, fork_fail, Runs, tableVars, cpuVars, threadVars
<1>3. ASSUME NEW c \in CPUs, NEW p \in Slots, fork_copy(c, p) PROVE Types'
  BY <1>3 DEF Types, ForkInv, Points, fork_copy, Runs, tableVars, cpuVars, threadVars
<1>4. ASSUME NEW c \in CPUs, NEW p \in Slots, fork_run(c, p) PROVE Types'
  BY <1>4 DEF Types, ForkInv, States, Points, fork_run, Runs, tableVars, cpuVars, threadVars
<1>5. ASSUME NEW c \in CPUs, NEW p \in Slots, reap(c, p) PROVE Types'
  BY <1>5 DEF Types, States, Points, reap, Locks, Runs, Children, tableVars, cpuVars, threadVars
<1>6. ASSUME NEW c \in CPUs, NEW p \in Slots, wait_fails(c, p) PROVE Types'
  BY <1>6 DEF Types, Points, wait_fails, Locks, Runs, tableVars, cpuVars, threadVars
<1>7. ASSUME NEW c \in CPUs, NEW p \in Slots, wait_sleeps(c, p) PROVE Types'
  BY <1>7 DEF Types, States, wait_sleeps, Locks, Runs, sleep, sched, tableVars, cpuVars, threadVars
<1>8. ASSUME NEW c \in CPUs, NEW p \in Slots, exit(c, p) PROVE Types'
  BY <1>8 DEF Types, States, exit, Runs, sched, AfterExit, wakeup1, Adopted, tableVars, cpuVars, threadVars
<1>9. ASSUME NEW c \in CPUs, NEW p \in Slots, block(c, p) PROVE Types'
  BY <1>9 DEF Types, States, Points, block, Runs, sleep, sched, tableVars, cpuVars, threadVars
<1>10. ASSUME NEW c \in CPUs, NEW p \in Slots, call_wait(c, p) PROVE Types'
  BY <1>10 DEF Types, Points, call_wait, Calls, Runs, tableVars, cpuVars, threadVars
<1>11. ASSUME NEW c \in CPUs, NEW p \in Slots, call_exit(c, p) PROVE Types'
  BY <1>11 DEF Types, Points, call_exit, Runs, tableVars, cpuVars, threadVars
<1>12. ASSUME NEW c \in CPUs, NEW p \in Slots, call_block(c, p) PROVE Types'
  BY <1>12 DEF Types, Points, call_block, Calls, Runs, tableVars, cpuVars, threadVars
<1>13. ASSUME NEW c \in CPUs, NEW p \in Slots, fault(c, p) PROVE Types'
  BY <1>13 DEF Types, fault, Calls, Runs, tableVars, cpuVars, threadVars
<1>14. ASSUME NEW c \in CPUs, NEW p \in Slots, tick(c, p) PROVE Types'
  BY <1>14 DEF Types, Points, tick, Calls, Runs, tableVars, cpuVars, threadVars
<1>15. ASSUME NEW c \in CPUs, NEW p \in Slots, yield(c, p) PROVE Types'
  BY <1>15 DEF Types, States, Points, yield, Runs, sched, tableVars, cpuVars, threadVars
<1>16. ASSUME NEW c \in CPUs, NEW p \in Slots, NEW n \in 0..MAXPID, kill(c, p, n) PROVE Types'
  BY <1>16 DEF Types, States, kill, Calls, Runs, Roused, tableVars, cpuVars, threadVars
<1>17. ASSUME NEW c \in CPUs, swtch(c) PROVE Types'
  BY <1>17 DEF Types, swtch, tableVars, cpuVars, threadVars
<1>18. ASSUME NEW c \in CPUs, pick(c) PROVE Types'
  BY <1>18 DEF Types, States, pick, Ready, tableVars, cpuVars, threadVars
<1>19. ASSUME NEW c \in CPUs, release(c) PROVE Types'
  BY <1>19 DEF Types, release, tableVars, cpuVars, threadVars
<1>20. ASSUME NEW ch \in Chans, wakeup(ch) PROVE Types'
  BY <1>20 DEF Types, States, wakeup, wakeup1, tableVars, cpuVars, threadVars
<1>21. CASE UNCHANGED vars
  BY <1>21 DEF Types, ForkInv, States, Points, vars, tableVars, cpuVars, threadVars
<1> QED
  BY <1>1, <1>2, <1>3, <1>4, <1>5, <1>6, <1>7, <1>8, <1>9, <1>10, <1>11, <1>12, <1>13, <1>14, <1>15, <1>16, <1>17, <1>18, <1>19, <1>20, <1>21
  DEF Next, fork, wait, scheduler

\* Every step keeps OneStack.
LEMMA OneStackStep == Types /\ OneStack /\ ForkInv /\ [Next]_vars => OneStack'
<1> SUFFICES ASSUME Types /\ OneStack /\ ForkInv, [Next]_vars PROVE OneStack'
  OBVIOUS
<1> USE Ranges
<1>1. ASSUME NEW c \in CPUs, NEW p \in Slots, allocproc(c, p) PROVE OneStack'
  BY <1>1 DEF Types, OneStack, allocproc, Calls, Runs, tableVars, cpuVars, threadVars
<1>2. ASSUME NEW c \in CPUs, NEW p \in Slots, fork_fail(c, p) PROVE OneStack'
  BY <1>2 DEF Types, OneStack, ForkInv, fork_fail, Runs, tableVars, cpuVars, threadVars
<1>3. ASSUME NEW c \in CPUs, NEW p \in Slots, fork_copy(c, p) PROVE OneStack'
  BY <1>3 DEF Types, OneStack, ForkInv, fork_copy, Runs, tableVars, cpuVars, threadVars
<1>4. ASSUME NEW c \in CPUs, NEW p \in Slots, fork_run(c, p) PROVE OneStack'
  BY <1>4 DEF Types, OneStack, ForkInv, fork_run, Runs, tableVars, cpuVars, threadVars
<1>5. ASSUME NEW c \in CPUs, NEW p \in Slots, reap(c, p) PROVE OneStack'
  BY <1>5 DEF Types, OneStack, reap, Locks, Runs, Children, tableVars, cpuVars, threadVars
<1>6. ASSUME NEW c \in CPUs, NEW p \in Slots, wait_fails(c, p) PROVE OneStack'
  BY <1>6 DEF Types, OneStack, wait_fails, Locks, Runs, tableVars, cpuVars, threadVars
<1>7. ASSUME NEW c \in CPUs, NEW p \in Slots, wait_sleeps(c, p) PROVE OneStack'
  BY <1>7 DEF Types, OneStack, wait_sleeps, Locks, Runs, sleep, sched, tableVars, cpuVars, threadVars
<1>8. ASSUME NEW c \in CPUs, NEW p \in Slots, exit(c, p) PROVE OneStack'
  BY <1>8 DEF Types, OneStack, exit, Runs, sched, AfterExit, wakeup1, Adopted, tableVars, cpuVars, threadVars
<1>9. ASSUME NEW c \in CPUs, NEW p \in Slots, block(c, p) PROVE OneStack'
  BY <1>9 DEF Types, OneStack, block, Runs, sleep, sched, tableVars, cpuVars, threadVars
<1>10. ASSUME NEW c \in CPUs, NEW p \in Slots, call_wait(c, p) PROVE OneStack'
  BY <1>10 DEF Types, OneStack, call_wait, Calls, Runs, tableVars, cpuVars, threadVars
<1>11. ASSUME NEW c \in CPUs, NEW p \in Slots, call_exit(c, p) PROVE OneStack'
  BY <1>11 DEF Types, OneStack, call_exit, Runs, tableVars, cpuVars, threadVars
<1>12. ASSUME NEW c \in CPUs, NEW p \in Slots, call_block(c, p) PROVE OneStack'
  BY <1>12 DEF Types, OneStack, call_block, Calls, Runs, tableVars, cpuVars, threadVars
<1>13. ASSUME NEW c \in CPUs, NEW p \in Slots, fault(c, p) PROVE OneStack'
  BY <1>13 DEF Types, OneStack, fault, Calls, Runs, tableVars, cpuVars, threadVars
<1>14. ASSUME NEW c \in CPUs, NEW p \in Slots, tick(c, p) PROVE OneStack'
  BY <1>14 DEF Types, OneStack, tick, Calls, Runs, tableVars, cpuVars, threadVars
<1>15. ASSUME NEW c \in CPUs, NEW p \in Slots, yield(c, p) PROVE OneStack'
  BY <1>15 DEF Types, OneStack, yield, Runs, sched, tableVars, cpuVars, threadVars
<1>16. ASSUME NEW c \in CPUs, NEW p \in Slots, NEW n \in 0..MAXPID, kill(c, p, n) PROVE OneStack'
  BY <1>16 DEF Types, OneStack, kill, Calls, Runs, Roused, tableVars, cpuVars, threadVars
<1>17. ASSUME NEW c \in CPUs, swtch(c) PROVE OneStack'
  BY <1>17 DEF Types, OneStack, swtch, tableVars, cpuVars, threadVars
<1>18. ASSUME NEW c \in CPUs, pick(c) PROVE OneStack'
  BY <1>18 DEF Types, OneStack, pick, Ready, tableVars, cpuVars, threadVars
<1>19. ASSUME NEW c \in CPUs, release(c) PROVE OneStack'
  BY <1>19 DEF Types, OneStack, release, tableVars, cpuVars, threadVars
<1>20. ASSUME NEW ch \in Chans, wakeup(ch) PROVE OneStack'
  BY <1>20 DEF Types, OneStack, wakeup, wakeup1, tableVars, cpuVars, threadVars
<1>21. CASE UNCHANGED vars
  BY <1>21 DEF Types, OneStack, ForkInv, vars, tableVars, cpuVars, threadVars
<1> QED
  BY <1>1, <1>2, <1>3, <1>4, <1>5, <1>6, <1>7, <1>8, <1>9, <1>10, <1>11, <1>12, <1>13, <1>14, <1>15, <1>16, <1>17, <1>18, <1>19, <1>20, <1>21
  DEF Next, fork, wait, scheduler

\* Every step keeps ForkInv.
LEMMA ForkStep == Types /\ ForkInv /\ [Next]_vars => ForkInv'
<1> SUFFICES ASSUME Types /\ ForkInv, [Next]_vars PROVE ForkInv'
  OBVIOUS
<1> USE Ranges
<1>1. ASSUME NEW c \in CPUs, NEW p \in Slots, allocproc(c, p) PROVE ForkInv'
  BY <1>1 DEF Types, ForkInv, allocproc, Calls, Runs, tableVars, cpuVars, threadVars
<1>2. ASSUME NEW c \in CPUs, NEW p \in Slots, fork_fail(c, p) PROVE ForkInv'
  BY <1>2 DEF Types, ForkInv, fork_fail, Runs, tableVars, cpuVars, threadVars
<1>3. ASSUME NEW c \in CPUs, NEW p \in Slots, fork_copy(c, p) PROVE ForkInv'
  BY <1>3 DEF Types, ForkInv, fork_copy, Runs, tableVars, cpuVars, threadVars
<1>4. ASSUME NEW c \in CPUs, NEW p \in Slots, fork_run(c, p) PROVE ForkInv'
  BY <1>4 DEF Types, ForkInv, fork_run, Runs, tableVars, cpuVars, threadVars
<1>5. ASSUME NEW c \in CPUs, NEW p \in Slots, reap(c, p) PROVE ForkInv'
  BY <1>5 DEF Types, ForkInv, reap, Locks, Runs, Children, tableVars, cpuVars, threadVars
<1>6. ASSUME NEW c \in CPUs, NEW p \in Slots, wait_fails(c, p) PROVE ForkInv'
  BY <1>6 DEF Types, ForkInv, wait_fails, Locks, Runs, tableVars, cpuVars, threadVars
<1>7. ASSUME NEW c \in CPUs, NEW p \in Slots, wait_sleeps(c, p) PROVE ForkInv'
  BY <1>7 DEF Types, ForkInv, wait_sleeps, Locks, Runs, sleep, sched, tableVars, cpuVars, threadVars
<1>8. ASSUME NEW c \in CPUs, NEW p \in Slots, exit(c, p) PROVE ForkInv'
  BY <1>8 DEF Types, ForkInv, exit, Runs, sched, AfterExit, wakeup1, Adopted, tableVars, cpuVars, threadVars
<1>9. ASSUME NEW c \in CPUs, NEW p \in Slots, block(c, p) PROVE ForkInv'
  BY <1>9 DEF Types, ForkInv, block, Runs, sleep, sched, tableVars, cpuVars, threadVars
<1>10. ASSUME NEW c \in CPUs, NEW p \in Slots, call_wait(c, p) PROVE ForkInv'
  BY <1>10 DEF Types, ForkInv, call_wait, Calls, Runs, tableVars, cpuVars, threadVars
<1>11. ASSUME NEW c \in CPUs, NEW p \in Slots, call_exit(c, p) PROVE ForkInv'
  BY <1>11 DEF Types, ForkInv, call_exit, Runs, tableVars, cpuVars, threadVars
<1>12. ASSUME NEW c \in CPUs, NEW p \in Slots, call_block(c, p) PROVE ForkInv'
  BY <1>12 DEF Types, ForkInv, call_block, Calls, Runs, tableVars, cpuVars, threadVars
<1>13. ASSUME NEW c \in CPUs, NEW p \in Slots, fault(c, p) PROVE ForkInv'
  BY <1>13 DEF Types, ForkInv, fault, Calls, Runs, tableVars, cpuVars, threadVars
<1>14. ASSUME NEW c \in CPUs, NEW p \in Slots, tick(c, p) PROVE ForkInv'
  BY <1>14 DEF Types, ForkInv, tick, Calls, Runs, tableVars, cpuVars, threadVars
<1>15. ASSUME NEW c \in CPUs, NEW p \in Slots, yield(c, p) PROVE ForkInv'
  BY <1>15 DEF Types, ForkInv, yield, Runs, sched, tableVars, cpuVars, threadVars
<1>16. ASSUME NEW c \in CPUs, NEW p \in Slots, NEW n \in 0..MAXPID, kill(c, p, n) PROVE ForkInv'
  BY <1>16 DEF Types, ForkInv, kill, Calls, Runs, Roused, tableVars, cpuVars, threadVars
<1>17. ASSUME NEW c \in CPUs, swtch(c) PROVE ForkInv'
  BY <1>17 DEF Types, ForkInv, swtch, tableVars, cpuVars, threadVars
<1>18. ASSUME NEW c \in CPUs, pick(c) PROVE ForkInv'
  BY <1>18 DEF Types, ForkInv, pick, Ready, tableVars, cpuVars, threadVars
<1>19. ASSUME NEW c \in CPUs, release(c) PROVE ForkInv'
  BY <1>19 DEF Types, ForkInv, release, tableVars, cpuVars, threadVars
<1>20. ASSUME NEW ch \in Chans, wakeup(ch) PROVE ForkInv'
  BY <1>20 DEF Types, ForkInv, wakeup, wakeup1, tableVars, cpuVars, threadVars
<1>21. CASE UNCHANGED vars
  BY <1>21 DEF Types, ForkInv, vars, tableVars, cpuVars, threadVars
<1> QED
  BY <1>1, <1>2, <1>3, <1>4, <1>5, <1>6, <1>7, <1>8, <1>9, <1>10, <1>11, <1>12, <1>13, <1>14, <1>15, <1>16, <1>17, <1>18, <1>19, <1>20, <1>21
  DEF Next, fork, wait, scheduler

\* Every step keeps ParentInv.
LEMMA ParentStep == Types /\ ForkInv /\ ParentInv /\ [Next]_vars => ParentInv'
<1> SUFFICES ASSUME Types /\ ForkInv /\ ParentInv, [Next]_vars PROVE ParentInv'
  OBVIOUS
<1> USE Ranges
<1>1. ASSUME NEW c \in CPUs, NEW p \in Slots, allocproc(c, p) PROVE ParentInv'
  BY <1>1 DEF Types, ForkInv, ParentInv, Dead, allocproc, Calls, Runs, tableVars, cpuVars, threadVars
<1>2. ASSUME NEW c \in CPUs, NEW p \in Slots, fork_fail(c, p) PROVE ParentInv'
  BY <1>2 DEF Types, ForkInv, ParentInv, Dead, fork_fail, Runs, tableVars, cpuVars, threadVars
<1>3. ASSUME NEW c \in CPUs, NEW p \in Slots, fork_copy(c, p) PROVE ParentInv'
  BY <1>3 DEF Types, ForkInv, ParentInv, Dead, fork_copy, Runs, tableVars, cpuVars, threadVars
<1>4. ASSUME NEW c \in CPUs, NEW p \in Slots, fork_run(c, p) PROVE ParentInv'
  BY <1>4 DEF Types, ForkInv, ParentInv, Dead, fork_run, Runs, tableVars, cpuVars, threadVars
<1>5. ASSUME NEW c \in CPUs, NEW p \in Slots, reap(c, p) PROVE ParentInv'
  BY <1>5 DEF Types, ForkInv, ParentInv, Dead, reap, Locks, Runs, Children, tableVars, cpuVars, threadVars
<1>6. ASSUME NEW c \in CPUs, NEW p \in Slots, wait_fails(c, p) PROVE ParentInv'
  BY <1>6 DEF Types, ForkInv, ParentInv, Dead, wait_fails, Locks, Runs, tableVars, cpuVars, threadVars
<1>7. ASSUME NEW c \in CPUs, NEW p \in Slots, wait_sleeps(c, p) PROVE ParentInv'
  BY <1>7 DEF Types, ForkInv, ParentInv, Dead, wait_sleeps, Locks, Runs, sleep, sched, tableVars, cpuVars, threadVars
<1>8. ASSUME NEW c \in CPUs, NEW p \in Slots, exit(c, p) PROVE ParentInv'
  <2>1. \A q \in Slots : \/ AfterExit(p)[q] = state[q]
                         \/ state[q] = "SLEEPING" /\ AfterExit(p)[q] = "RUNNABLE"
    BY DEF Types, AfterExit, wakeup1
  <2>2. /\ state' = [AfterExit(p) EXCEPT ![p] = "ZOMBIE"] /\ parent' = Adopted(p)
        /\ pc[p] = "exit" /\ pc' = pc /\ np' = np
    BY <1>8 DEF exit, Runs, sched, threadVars
  <2>3. DOMAIN AfterExit(p) = Slots
    BY DEF Types, AfterExit, wakeup1
  <2>4. \A q \in Slots : state'[q] = IF q = p THEN "ZOMBIE" ELSE AfterExit(p)[q]
    BY <2>2, <2>3, Zenon
  <2>5. /\ state'[p] = "ZOMBIE"
        /\ \A q \in Slots \ {p} : \/ state'[q] = state[q]
                                  \/ state[q] = "SLEEPING" /\ state'[q] = "RUNNABLE"
    <3>1. state'[p] = "ZOMBIE"
      BY <2>4
    <3>2. ASSUME NEW q \in Slots \ {p}
          PROVE  \/ state'[q] = state[q]
                 \/ state[q] = "SLEEPING" /\ state'[q] = "RUNNABLE"
      <4>1. state'[q] = AfterExit(p)[q]
        BY <2>4
      <4> QED BY <2>1, <4>1
    <3> QED BY <3>1, <3>2
  <2>6. \A q \in Slots : parent'[q] = IF parent[q] = p THEN initproc ELSE parent[q]
    BY <2>2 DEF Adopted
  <2>7. p # initproc /\ initproc \in Slots
    BY <2>2 DEF ParentInv
  <2>8. /\ parent'[initproc] = 0 /\ state'[initproc] \notin Dead /\ pc'[initproc] # "exit"
    BY <2>2, <2>5, <2>6, <2>7 DEF ParentInv, Dead
  <2>9. \A q \in Slots : parent'[q] # 0 => parent'[q] # q /\ state'[parent'[q]] \notin Dead
    <3> SUFFICES ASSUME NEW q \in Slots, parent'[q] # 0
                 PROVE  parent'[q] # q /\ state'[parent'[q]] \notin Dead
      OBVIOUS
    <3>1. CASE parent[q] = p
      BY <2>6, <2>7, <2>8, <3>1 DEF ParentInv
    <3>2. CASE parent[q] # p
      <4>1. parent'[q] = parent[q] /\ parent[q] \in Slots \ {p}
        BY <2>6, <3>2 DEF Types
      <4>2. parent[q] # q /\ state[parent[q]] \notin Dead
        BY <4>1 DEF ParentInv
      <4> QED BY <2>5, <4>1, <4>2 DEF Dead
    <3> QED BY <3>1, <3>2
  <2>10. \A q \in Slots \ {initproc} : state'[q] \notin {"UNUSED", "EMBRYO"} => parent'[q] # 0
    <3> SUFFICES ASSUME NEW q \in Slots \ {initproc}, state'[q] \notin {"UNUSED", "EMBRYO"}
                 PROVE  parent'[q] # 0
      OBVIOUS
    <3>1. state[q] \notin {"UNUSED", "EMBRYO"}
      BY <1>8, <2>5 DEF exit, Runs
    <3>2. parent[q] # 0
      BY <3>1 DEF ParentInv
    <3> QED BY <2>6, <2>7, <3>2
  <2>11. \A q \in Slots : state'[q] = "UNUSED" => parent'[q] = 0
    BY <2>5, <2>6 DEF ParentInv
  <2>12. \A r \in Slots : /\ pc'[r] = "fork" => parent'[np'[r]] = 0
                          /\ pc'[r] = "fork_run" => parent'[np'[r]] = r
    <3> SUFFICES ASSUME NEW r \in Slots
                 PROVE  /\ pc[r] = "fork" => parent'[np[r]] = 0
                        /\ pc[r] = "fork_run" => parent'[np[r]] = r
      BY <2>2
    <3>1. pc[r] \in {"fork", "fork_run"} => np[r] \in Slots /\ r # p
      BY <2>2 DEF ForkInv
    <3> QED BY <2>6, <3>1 DEF ParentInv
  <2> QED BY <2>8, <2>9, <2>10, <2>11, <2>12 DEF ParentInv
<1>9. ASSUME NEW c \in CPUs, NEW p \in Slots, block(c, p) PROVE ParentInv'
  BY <1>9 DEF Types, ForkInv, ParentInv, Dead, block, Runs, sleep, sched, tableVars, cpuVars, threadVars
<1>10. ASSUME NEW c \in CPUs, NEW p \in Slots, call_wait(c, p) PROVE ParentInv'
  BY <1>10 DEF Types, ForkInv, ParentInv, Dead, call_wait, Calls, Runs, tableVars, cpuVars, threadVars
<1>11. ASSUME NEW c \in CPUs, NEW p \in Slots, call_exit(c, p) PROVE ParentInv'
  BY <1>11 DEF Types, ForkInv, ParentInv, Dead, call_exit, Runs, tableVars, cpuVars, threadVars
<1>12. ASSUME NEW c \in CPUs, NEW p \in Slots, call_block(c, p) PROVE ParentInv'
  BY <1>12 DEF Types, ForkInv, ParentInv, Dead, call_block, Calls, Runs, tableVars, cpuVars, threadVars
<1>13. ASSUME NEW c \in CPUs, NEW p \in Slots, fault(c, p) PROVE ParentInv'
  BY <1>13 DEF Types, ForkInv, ParentInv, Dead, fault, Calls, Runs, tableVars, cpuVars, threadVars
<1>14. ASSUME NEW c \in CPUs, NEW p \in Slots, tick(c, p) PROVE ParentInv'
  BY <1>14 DEF Types, ForkInv, ParentInv, Dead, tick, Calls, Runs, tableVars, cpuVars, threadVars
<1>15. ASSUME NEW c \in CPUs, NEW p \in Slots, yield(c, p) PROVE ParentInv'
  BY <1>15 DEF Types, ForkInv, ParentInv, Dead, yield, Runs, sched, tableVars, cpuVars, threadVars
<1>16. ASSUME NEW c \in CPUs, NEW p \in Slots, NEW n \in 0..MAXPID, kill(c, p, n) PROVE ParentInv'
  BY <1>16 DEF Types, ForkInv, ParentInv, Dead, kill, Calls, Runs, Roused, tableVars, cpuVars, threadVars
<1>17. ASSUME NEW c \in CPUs, swtch(c) PROVE ParentInv'
  BY <1>17 DEF Types, ForkInv, ParentInv, Dead, swtch, tableVars, cpuVars, threadVars
<1>18. ASSUME NEW c \in CPUs, pick(c) PROVE ParentInv'
  BY <1>18 DEF Types, ForkInv, ParentInv, Dead, pick, Ready, tableVars, cpuVars, threadVars
<1>19. ASSUME NEW c \in CPUs, release(c) PROVE ParentInv'
  BY <1>19 DEF Types, ForkInv, ParentInv, Dead, release, tableVars, cpuVars, threadVars
<1>20. ASSUME NEW ch \in Chans, wakeup(ch) PROVE ParentInv'
  BY <1>20 DEF Types, ForkInv, ParentInv, Dead, wakeup, wakeup1, tableVars, cpuVars, threadVars
<1>21. CASE UNCHANGED vars
  BY <1>21 DEF Types, ForkInv, ParentInv, Dead, vars, tableVars, cpuVars, threadVars
<1> QED
  BY <1>1, <1>2, <1>3, <1>4, <1>5, <1>6, <1>7, <1>8, <1>9, <1>10, <1>11, <1>12, <1>13, <1>14, <1>15, <1>16, <1>17, <1>18, <1>19, <1>20, <1>21
  DEF Next, fork, wait, scheduler

\* Every step keeps WaitWoken.
LEMMA WaitStep == Types /\ ParentInv /\ ForkInv /\ WaitWoken /\ [Next]_vars => WaitWoken'
<1> SUFFICES ASSUME Types /\ ParentInv /\ ForkInv /\ WaitWoken, [Next]_vars PROVE WaitWoken'
  OBVIOUS
<1> USE Ranges
<1>1. ASSUME NEW c \in CPUs, NEW p \in Slots, allocproc(c, p) PROVE WaitWoken'
  BY <1>1 DEF Types, ForkInv, ParentInv, WaitWoken, NoZombie, Children, Dead, allocproc, Calls, Runs, tableVars, cpuVars, threadVars
<1>2. ASSUME NEW c \in CPUs, NEW p \in Slots, fork_fail(c, p) PROVE WaitWoken'
  BY <1>2 DEF Types, ForkInv, ParentInv, WaitWoken, NoZombie, Children, Dead, fork_fail, Runs, tableVars, cpuVars, threadVars
<1>3. ASSUME NEW c \in CPUs, NEW p \in Slots, fork_copy(c, p) PROVE WaitWoken'
  BY <1>3 DEF Types, ForkInv, ParentInv, WaitWoken, NoZombie, Children, Dead, fork_copy, Runs, tableVars, cpuVars, threadVars
<1>4. ASSUME NEW c \in CPUs, NEW p \in Slots, fork_run(c, p) PROVE WaitWoken'
  BY <1>4 DEF Types, ForkInv, ParentInv, WaitWoken, NoZombie, Children, Dead, fork_run, Runs, tableVars, cpuVars, threadVars
<1>5. ASSUME NEW c \in CPUs, NEW p \in Slots, reap(c, p) PROVE WaitWoken'
  BY <1>5 DEF Types, ForkInv, ParentInv, WaitWoken, NoZombie, Children, Dead, reap, Locks, Runs, Children, tableVars, cpuVars, threadVars
<1>6. ASSUME NEW c \in CPUs, NEW p \in Slots, wait_fails(c, p) PROVE WaitWoken'
  BY <1>6 DEF Types, ForkInv, ParentInv, WaitWoken, NoZombie, Children, Dead, wait_fails, Locks, Runs, tableVars, cpuVars, threadVars
<1>7. ASSUME NEW c \in CPUs, NEW p \in Slots, wait_sleeps(c, p) PROVE WaitWoken'
  BY <1>7 DEF Types, ForkInv, ParentInv, WaitWoken, NoZombie, Children, Dead, wait_sleeps, Locks, Runs, sleep, sched, tableVars, cpuVars, threadVars
<1>8. ASSUME NEW c \in CPUs, NEW p \in Slots, exit(c, p) PROVE WaitWoken'
  BY <1>8 DEF Types, ForkInv, ParentInv, WaitWoken, NoZombie, Children, Dead, exit, Runs, sched, AfterExit, wakeup1, Adopted, tableVars, cpuVars, threadVars
<1>9. ASSUME NEW c \in CPUs, NEW p \in Slots, block(c, p) PROVE WaitWoken'
  BY <1>9 DEF Types, ForkInv, ParentInv, WaitWoken, NoZombie, Children, Dead, block, Runs, sleep, sched, tableVars, cpuVars, threadVars
<1>10. ASSUME NEW c \in CPUs, NEW p \in Slots, call_wait(c, p) PROVE WaitWoken'
  BY <1>10 DEF Types, ForkInv, ParentInv, WaitWoken, NoZombie, Children, Dead, call_wait, Calls, Runs, tableVars, cpuVars, threadVars
<1>11. ASSUME NEW c \in CPUs, NEW p \in Slots, call_exit(c, p) PROVE WaitWoken'
  BY <1>11 DEF Types, ForkInv, ParentInv, WaitWoken, NoZombie, Children, Dead, call_exit, Runs, tableVars, cpuVars, threadVars
<1>12. ASSUME NEW c \in CPUs, NEW p \in Slots, call_block(c, p) PROVE WaitWoken'
  BY <1>12 DEF Types, ForkInv, ParentInv, WaitWoken, NoZombie, Children, Dead, call_block, Calls, Runs, tableVars, cpuVars, threadVars
<1>13. ASSUME NEW c \in CPUs, NEW p \in Slots, fault(c, p) PROVE WaitWoken'
  BY <1>13 DEF Types, ForkInv, ParentInv, WaitWoken, NoZombie, Children, Dead, fault, Calls, Runs, tableVars, cpuVars, threadVars
<1>14. ASSUME NEW c \in CPUs, NEW p \in Slots, tick(c, p) PROVE WaitWoken'
  BY <1>14 DEF Types, ForkInv, ParentInv, WaitWoken, NoZombie, Children, Dead, tick, Calls, Runs, tableVars, cpuVars, threadVars
<1>15. ASSUME NEW c \in CPUs, NEW p \in Slots, yield(c, p) PROVE WaitWoken'
  BY <1>15 DEF Types, ForkInv, ParentInv, WaitWoken, NoZombie, Children, Dead, yield, Runs, sched, tableVars, cpuVars, threadVars
<1>16. ASSUME NEW c \in CPUs, NEW p \in Slots, NEW n \in 0..MAXPID, kill(c, p, n) PROVE WaitWoken'
  BY <1>16 DEF Types, ForkInv, ParentInv, WaitWoken, NoZombie, Children, Dead, kill, Calls, Runs, Roused, tableVars, cpuVars, threadVars
<1>17. ASSUME NEW c \in CPUs, swtch(c) PROVE WaitWoken'
  BY <1>17 DEF Types, ForkInv, ParentInv, WaitWoken, NoZombie, Children, Dead, swtch, tableVars, cpuVars, threadVars
<1>18. ASSUME NEW c \in CPUs, pick(c) PROVE WaitWoken'
  BY <1>18 DEF Types, ForkInv, ParentInv, WaitWoken, NoZombie, Children, Dead, pick, Ready, tableVars, cpuVars, threadVars
<1>19. ASSUME NEW c \in CPUs, release(c) PROVE WaitWoken'
  BY <1>19 DEF Types, ForkInv, ParentInv, WaitWoken, NoZombie, Children, Dead, release, tableVars, cpuVars, threadVars
<1>20. ASSUME NEW ch \in Chans, wakeup(ch) PROVE WaitWoken'
  BY <1>20 DEF Types, ForkInv, ParentInv, WaitWoken, NoZombie, Children, Dead, wakeup, wakeup1, tableVars, cpuVars, threadVars
<1>21. CASE UNCHANGED vars
  BY <1>21 DEF Types, ForkInv, ParentInv, WaitWoken, NoZombie, Children, Dead, vars, tableVars, cpuVars, threadVars
<1> QED
  BY <1>1, <1>2, <1>3, <1>4, <1>5, <1>6, <1>7, <1>8, <1>9, <1>10, <1>11, <1>12, <1>13, <1>14, <1>15, <1>16, <1>17, <1>18, <1>19, <1>20, <1>21
  DEF Next, fork, wait, scheduler

\* The invariant holds at the start.
LEMMA InitInv == Init => IInv
<1> SUFFICES ASSUME Init PROVE IInv
  OBVIOUS
<1> USE Ranges
<1>1. Types
  BY DEF Init, Types, States, Points
<1>2. OneStack /\ ForkInv /\ WaitWoken
  BY DEF Init, OneStack, ForkInv, WaitWoken
<1>3. ParentInv
  BY DEF Init, ParentInv, Dead
<1> QED
  BY <1>1, <1>2, <1>3 DEF IInv

\* Every behaviour has the inductive invariant.
LEMMA Inductive == Spec => []IInv
<1>1. IInv /\ [Next]_vars => IInv'
  BY TypesStep, OneStackStep, ForkStep, ParentStep, WaitStep DEF IInv
<1> QED
  BY InitInv, <1>1, PTL DEF Spec

\* No two CPUs are ever on one kernel stack: what holding ptable.lock across
\* swtch is for.
THEOREM StacksApart == Spec => []OneStack
<1>1. IInv => OneStack
  BY DEF IInv
<1> QED
  BY Inductive, <1>1, PTL

\* No wakeup of exit or kill is lost to a process that sleeps in wait.
THEOREM NoWaitForgotten == Spec => []WaitWoken
<1>1. IInv => WaitWoken
  BY DEF IInv
<1> QED
  BY Inductive, <1>1, PTL

\* Every process has a parent that can still wait for it.
THEOREM SomebodyWaits == Spec => []ParentAlive
<1>1. IInv => ParentAlive
  BY DEF IInv, ParentInv, ParentAlive, Dead
<1> QED
  BY Inductive, <1>1, PTL

\* Every step keeps the rest of TypeOK.
LEMMA OtherTypesStep == OtherTypes /\ Types /\ [Next]_vars => OtherTypes'
<1> SUFFICES ASSUME OtherTypes /\ Types, [Next]_vars PROVE OtherTypes'
  OBVIOUS
<1> USE ProcConstants
<1>1. ASSUME NEW c \in CPUs, NEW p \in Slots, allocproc(c, p) PROVE OtherTypes'
  BY <1>1 DEF OtherTypes, allocproc, Calls, Runs, tableVars, cpuVars, threadVars
<1>2. ASSUME NEW c \in CPUs, NEW p \in Slots, fork_fail(c, p) PROVE OtherTypes'
  BY <1>2 DEF OtherTypes, fork_fail, Runs, tableVars, cpuVars, threadVars
<1>3. ASSUME NEW c \in CPUs, NEW p \in Slots, fork_copy(c, p) PROVE OtherTypes'
  BY <1>3 DEF OtherTypes, fork_copy, Runs, tableVars, cpuVars, threadVars
<1>4. ASSUME NEW c \in CPUs, NEW p \in Slots, fork_run(c, p) PROVE OtherTypes'
  BY <1>4 DEF OtherTypes, fork_run, Runs, tableVars, cpuVars, threadVars
<1>5. ASSUME NEW c \in CPUs, NEW p \in Slots, reap(c, p) PROVE OtherTypes'
  BY <1>5 DEF OtherTypes, reap, Locks, Runs, Children, tableVars, cpuVars, threadVars
<1>6. ASSUME NEW c \in CPUs, NEW p \in Slots, wait_fails(c, p) PROVE OtherTypes'
  BY <1>6 DEF OtherTypes, wait_fails, Locks, Runs, tableVars, cpuVars, threadVars
<1>7. ASSUME NEW c \in CPUs, NEW p \in Slots, wait_sleeps(c, p) PROVE OtherTypes'
  BY <1>7 DEF OtherTypes, wait_sleeps, Locks, Runs, sleep, sched, tableVars, cpuVars, threadVars
<1>8. ASSUME NEW c \in CPUs, NEW p \in Slots, exit(c, p) PROVE OtherTypes'
  BY <1>8 DEF OtherTypes, exit, Runs, sched, AfterExit, wakeup1, Adopted, tableVars, cpuVars, threadVars
<1>9. ASSUME NEW c \in CPUs, NEW p \in Slots, block(c, p) PROVE OtherTypes'
  BY <1>9 DEF OtherTypes, block, Runs, sleep, sched, tableVars, cpuVars, threadVars
<1>10. ASSUME NEW c \in CPUs, NEW p \in Slots, call_wait(c, p) PROVE OtherTypes'
  BY <1>10 DEF OtherTypes, call_wait, Calls, Runs, tableVars, cpuVars, threadVars
<1>11. ASSUME NEW c \in CPUs, NEW p \in Slots, call_exit(c, p) PROVE OtherTypes'
  BY <1>11 DEF OtherTypes, call_exit, Runs, tableVars, cpuVars, threadVars
<1>12. ASSUME NEW c \in CPUs, NEW p \in Slots, call_block(c, p) PROVE OtherTypes'
  BY <1>12 DEF OtherTypes, call_block, Calls, Runs, tableVars, cpuVars, threadVars
<1>13. ASSUME NEW c \in CPUs, NEW p \in Slots, fault(c, p) PROVE OtherTypes'
  BY <1>13 DEF OtherTypes, fault, Calls, Runs, tableVars, cpuVars, threadVars
<1>14. ASSUME NEW c \in CPUs, NEW p \in Slots, tick(c, p) PROVE OtherTypes'
  BY <1>14 DEF OtherTypes, tick, Calls, Runs, tableVars, cpuVars, threadVars
<1>15. ASSUME NEW c \in CPUs, NEW p \in Slots, yield(c, p) PROVE OtherTypes'
  BY <1>15 DEF OtherTypes, yield, Runs, sched, tableVars, cpuVars, threadVars
<1>16. ASSUME NEW c \in CPUs, NEW p \in Slots, NEW n \in 0..MAXPID, kill(c, p, n) PROVE OtherTypes'
  BY <1>16 DEF OtherTypes, kill, Calls, Runs, Roused, tableVars, cpuVars, threadVars
<1>17. ASSUME NEW c \in CPUs, swtch(c) PROVE OtherTypes'
  <2>1. proc[c] + 1 \in 1..(NPROC + 1)
    BY <1>17, ProcConstants DEF swtch, Types, Slots
  <2> QED
    BY <1>17, <2>1 DEF OtherTypes, swtch, tableVars, threadVars
<1>18. ASSUME NEW c \in CPUs, pick(c) PROVE OtherTypes'
  BY <1>18 DEF OtherTypes, pick, Ready, tableVars, cpuVars, threadVars
<1>19. ASSUME NEW c \in CPUs, release(c) PROVE OtherTypes'
  BY <1>19 DEF OtherTypes, release, tableVars, cpuVars, threadVars
<1>20. ASSUME NEW ch \in Chans, wakeup(ch) PROVE OtherTypes'
  BY <1>20 DEF OtherTypes, wakeup, wakeup1, tableVars, cpuVars, threadVars
<1>21. CASE UNCHANGED vars
  BY <1>21 DEF OtherTypes, Types, vars, tableVars, cpuVars, threadVars
<1> QED
  BY <1>1, <1>2, <1>3, <1>4, <1>5, <1>6, <1>7, <1>8, <1>9, <1>10, <1>11, <1>12, <1>13, <1>14, <1>15, <1>16, <1>17, <1>18, <1>19, <1>20, <1>21
  DEF Next, fork, wait, scheduler

\* Every variable is always of its type.
THEOREM TypeCorrect == Spec => []TypeOK
<1>1. Init => OtherTypes
  BY ProcConstants DEF Init, OtherTypes
<1>2. IInv /\ OtherTypes /\ [Next]_vars => OtherTypes'
  BY OtherTypesStep DEF IInv
<1>3. IInv /\ OtherTypes => TypeOK
  BY Ranges DEF IInv, Types, OtherTypes, TypeOK
<1> QED
  BY Inductive, <1>1, <1>2, <1>3, PTL DEF Spec

-------------------------------------------------------------------------------
(***************************************************************************)
(* The life of a process, and its pid                                      *)
(***************************************************************************)

Life == {<<"UNUSED", "EMBRYO">>, <<"EMBRYO", "UNUSED">>, <<"EMBRYO", "RUNNABLE">>,
         <<"RUNNABLE", "RUNNING">>, <<"RUNNING", "RUNNABLE">>, <<"RUNNING", "SLEEPING">>,
         <<"SLEEPING", "RUNNABLE">>, <<"RUNNING", "ZOMBIE">>, <<"ZOMBIE", "UNUSED">>}

\* Who moves a process along: a child in the making only its maker, a RUNNING
\* process only itself, and it keeps ptable.lock; a zombie only its parent, in
\* wait.
MayMove(p) ==
  /\ <<state[p], state'[p]>> \in Life
  /\ state[p] = "EMBRYO" => \E c \in CPUs, q \in Slots : Runs(c, q, pc[q]) /\ np[q] = p
  /\ state[p] = "RUNNING" => \E c \in CPUs : proc[c] = p /\ lock' = c
  /\ state[p] = "ZOMBIE" => \E c \in CPUs, q \in Slots : parent[p] = q /\ reap(c, q)

LifeCycle == \A p \in Slots : state'[p] # state[p] => MayMove(p)

\* wakeup1 only rouses sleepers.
LEMMA Rouses ==
  ASSUME NEW s \in [Slots -> States], NEW ch
  PROVE  /\ wakeup1(s, ch) \in [Slots -> States]
         /\ \A p \in Slots : wakeup1(s, ch)[p] # s[p] => s[p] = "SLEEPING" /\ wakeup1(s, ch)[p] = "RUNNABLE"
BY DEF wakeup1, States

\* And so does exit, which besides makes a zombie of its caller.
LEMMA ExitMoves ==
  ASSUME Types, NEW c \in CPUs, NEW p \in Slots, exit(c, p)
  PROVE  /\ state'[p] = "ZOMBIE"
         /\ \A q \in Slots \ {p} : state'[q] # state[q] => state[q] = "SLEEPING" /\ state'[q] = "RUNNABLE"
<1> DEFINE s == wakeup1(state, parent[p])
<1>1. /\ s \in [Slots -> States]
      /\ \A q \in Slots : s[q] # state[q] => state[q] = "SLEEPING" /\ s[q] = "RUNNABLE"
  BY Rouses DEF Types
<1>2. /\ wakeup1(s, initproc) \in [Slots -> States]
      /\ \A q \in Slots : wakeup1(s, initproc)[q] # s[q]
                            => s[q] = "SLEEPING" /\ wakeup1(s, initproc)[q] = "RUNNABLE"
  BY <1>1, Rouses
<1>3. AfterExit(p) \in {s, wakeup1(s, initproc)}
  BY DEF AfterExit
<1> HIDE DEF s
<1>4. /\ AfterExit(p) \in [Slots -> States]
      /\ \A q \in Slots : AfterExit(p)[q] # state[q] => state[q] = "SLEEPING" /\ AfterExit(p)[q] = "RUNNABLE"
  BY <1>1, <1>2, <1>3
<1>5. state' = [AfterExit(p) EXCEPT ![p] = "ZOMBIE"]
  BY DEF exit, sched
<1> QED
  BY <1>4, <1>5

\* A process goes through the states of procstate in their order: it is woken
\* only out of its sleep, leaves its CPU only by itself and with ptable.lock,
\* and once it has exited nothing but its parent's wait touches it.
THEOREM Lives == Spec => [][LifeCycle]_vars
<1>1. ASSUME IInv, Next PROVE LifeCycle
  <2> SUFFICES ASSUME NEW p \in Slots, state'[p] # state[p] PROVE MayMove(p)
    BY DEF LifeCycle
  <2> USE <1>1, Ranges DEF IInv
  <2>1. ASSUME NEW c \in CPUs, NEW q \in Slots, allocproc(c, q) PROVE MayMove(p)
    BY <2>1 DEF Types, allocproc, MayMove, Life
  <2>2. ASSUME NEW c \in CPUs, NEW q \in Slots, fork_fail(c, q) \/ fork_run(c, q) PROVE MayMove(p)
    <3>1. p = np[q] /\ state[p] = "EMBRYO" /\ state'[p] \in {"UNUSED", "RUNNABLE"} /\ Runs(c, q, pc[q])
      BY <2>2 DEF Types, ForkInv, fork_fail, fork_run, Runs
    <3> QED
      BY <3>1 DEF MayMove, Life
  <2>3. ASSUME NEW c \in CPUs, NEW q \in Slots, reap(c, q) PROVE MayMove(p)
    <3>1. parent[p] = q /\ state[p] = "ZOMBIE" /\ state'[p] = "UNUSED"
      BY <2>3 DEF Types, reap, Children
    <3> QED
      BY <2>3, <3>1 DEF MayMove, Life
  <2>4. ASSUME NEW c \in CPUs, NEW q \in Slots, wait_sleeps(c, q) \/ block(c, q) \/ yield(c, q)
        PROVE  MayMove(p)
    <3>1. /\ p = q /\ state[p] = "RUNNING" /\ state'[p] \in {"SLEEPING", "RUNNABLE"}
          /\ proc[c] = p /\ lock' = c
      BY <2>4 DEF Types, wait_sleeps, block, yield, sleep, sched, Locks, Runs
    <3> QED
      BY <3>1 DEF MayMove, Life
  <2>5. ASSUME NEW c \in CPUs, NEW q \in Slots, exit(c, q) PROVE MayMove(p)
    <3>1. CASE p = q
      <4>1. state[p] = "RUNNING" /\ proc[c] = p /\ lock' = c
        BY <2>5, <3>1 DEF exit, Runs, sched
      <4>2. state'[p] = "ZOMBIE"
        BY <2>5, <3>1, ExitMoves
      <4> QED
        BY <4>1, <4>2 DEF MayMove, Life
    <3>2. CASE p # q
      <4>1. state[p] = "SLEEPING" /\ state'[p] = "RUNNABLE"
        BY <2>5, <3>2, ExitMoves
      <4> QED
        BY <4>1 DEF MayMove, Life
    <3> QED
      BY <3>1, <3>2
  <2>6. ASSUME NEW c \in CPUs, NEW q \in Slots, NEW n \in 0..MAXPID, kill(c, q, n) PROVE MayMove(p)
    <3>1. state[p] = "SLEEPING" /\ state'[p] = "RUNNABLE"
      BY <2>6 DEF Types, kill, Roused
    <3> QED
      BY <3>1 DEF MayMove, Life
  <2>7. ASSUME NEW ch \in Chans, wakeup(ch) PROVE MayMove(p)
    <3>1. state[p] = "SLEEPING" /\ state'[p] = "RUNNABLE"
      BY <2>7, Rouses DEF Types, wakeup
    <3> QED
      BY <3>1 DEF MayMove, Life
  <2>8. ASSUME NEW c \in CPUs, pick(c) PROVE MayMove(p)
    <3>1. state[p] = "RUNNABLE" /\ state'[p] = "RUNNING"
      BY <2>8 DEF Types, pick, Ready
    <3> QED
      BY <3>1 DEF MayMove, Life
  <2>9. ASSUME NEW c \in CPUs, swtch(c) \/ release(c) PROVE FALSE
    BY <2>9 DEF swtch, release, tableVars
  <2>10. ASSUME NEW c \in CPUs, NEW q \in Slots,
                \/ fork_copy(c, q) \/ wait_fails(c, q) \/ call_wait(c, q) \/ call_exit(c, q)
                \/ call_block(c, q) \/ tick(c, q) \/ fault(c, q)
         PROVE  FALSE
    BY <2>10 DEF fork_copy, wait_fails, call_wait, call_exit, call_block, tick, fault, tableVars
  <2> QED
    BY <2>1, <2>2, <2>3, <2>4, <2>5, <2>6, <2>7, <2>8, <2>9, <2>10, Zenon DEF Next, fork, wait, scheduler
<1>2. ASSUME UNCHANGED vars PROVE LifeCycle
  BY <1>2 DEF vars, tableVars, LifeCycle
<1>3. IInv /\ [Next]_vars => LifeCycle
  BY <1>1, <1>2
<1> QED
  BY Inductive, <1>3, PTL DEF Spec

\* pids are given out once, and a process has one from allocproc on; a slot
\* that fork has given back keeps its pid.
PidInv ==
  /\ nextpid \in Nat \ {0} /\ pid \in [Slots -> Nat] /\ \A p \in Slots : pid[p] < nextpid
  /\ \A p \in Slots : state[p] # "UNUSED" => pid[p] # 0
  /\ \A p, q \in Slots : pid[p] = pid[q] /\ pid[p] # 0 => p = q

\* kill, which looks at every slot whatever its state, marks the process that
\* has the pid and no other.
KillsItsTarget ==
  \A c \in CPUs, p, q \in Slots, n \in 0..MAXPID :
    kill(c, p, n) /\ pid[q] = n /\ state[q] # "UNUSED" => killed' = killed \cup {q}

\* Every step keeps PidInv: only allocproc and reap write a pid, and only
\* allocproc takes an UNUSED slot.
LEMMA PidStep == IInv /\ PidInv /\ [Next]_vars => PidInv'
<1> SUFFICES ASSUME IInv, PidInv, [Next]_vars PROVE PidInv'
  OBVIOUS
<1> USE Ranges
<1>1. ASSUME NEW c \in CPUs, NEW p \in Slots, allocproc(c, p) PROVE PidInv'
  <2>1. PICK q \in Slots : state' = [state EXCEPT ![q] = "EMBRYO"] /\ pid' = [pid EXCEPT ![q] = nextpid]
    BY <1>1, Zenon DEF allocproc
  <2>2. nextpid' = nextpid + 1
    BY <1>1 DEF allocproc
  <2> QED
    BY <2>1, <2>2 DEF PidInv, IInv, Types
<1>2. ASSUME NEW c \in CPUs, NEW p \in Slots, reap(c, p) PROVE PidInv'
  <2>1. PICK q \in Slots : state' = [state EXCEPT ![q] = "UNUSED"] /\ pid' = [pid EXCEPT ![q] = 0]
    BY <1>2, Zenon DEF reap, Children
  <2>2. nextpid' = nextpid
    BY <1>2 DEF reap
  <2> QED
    BY <2>1, <2>2 DEF PidInv, IInv, Types
<1>3. ASSUME pid' = pid, nextpid' = nextpid, \A p \in Slots : state'[p] # "UNUSED" => state[p] # "UNUSED"
      PROVE  PidInv'
  BY <1>3 DEF PidInv
<1>4. ASSUME NEW c \in CPUs, NEW p \in Slots, fork_fail(c, p) \/ fork_run(c, p) PROVE PidInv'
  <2>1. np[p] \in Slots /\ state[np[p]] = "EMBRYO"
    BY <1>4 DEF IInv, ForkInv, fork_fail, fork_run, Runs
  <2>2. \A q \in Slots : state'[q] # "UNUSED" => state[q] # "UNUSED"
    BY <1>4, <2>1 DEF IInv, Types, fork_fail, fork_run
  <2> QED
    BY <1>3, <1>4, <2>2 DEF fork_fail, fork_run
<1>5. ASSUME NEW c \in CPUs, NEW p \in Slots, wait_sleeps(c, p) \/ block(c, p) \/ yield(c, p) PROVE PidInv'
  <2>1. \A q \in Slots : state'[q] # "UNUSED" => state[q] # "UNUSED"
    BY <1>5 DEF IInv, Types, wait_sleeps, block, yield, sleep, sched, Locks, Runs
  <2> QED
    BY <1>3, <1>5, <2>1 DEF wait_sleeps, block, yield, sleep
<1>6. ASSUME NEW c \in CPUs, NEW p \in Slots, exit(c, p) PROVE PidInv'
  <2>1. \A q \in Slots : state'[q] # "UNUSED" => state[q] # "UNUSED"
    BY <1>6, ExitMoves DEF IInv, exit, Runs
  <2> QED
    BY <1>3, <1>6, <2>1 DEF exit
<1>7. ASSUME NEW c \in CPUs, NEW p \in Slots, NEW n \in 0..MAXPID, kill(c, p, n) PROVE PidInv'
  <2>1. \A q \in Slots : state'[q] # "UNUSED" => state[q] # "UNUSED"
    BY <1>7 DEF IInv, Types, kill, Roused
  <2> QED
    BY <1>3, <1>7, <2>1 DEF kill
<1>8. ASSUME NEW ch \in Chans, wakeup(ch) PROVE PidInv'
  <2>1. \A q \in Slots : state'[q] # "UNUSED" => state[q] # "UNUSED"
    BY <1>8, Rouses DEF IInv, Types, wakeup
  <2> QED
    BY <1>3, <1>8, <2>1 DEF wakeup
<1>9. ASSUME NEW c \in CPUs, pick(c) PROVE PidInv'
  <2>1. \A q \in Slots : state'[q] # "UNUSED" => state[q] # "UNUSED"
    BY <1>9 DEF IInv, Types, pick, Ready
  <2> QED
    BY <1>3, <1>9, <2>1 DEF pick
<1>10. ASSUME UNCHANGED <<state, pid, nextpid>> PROVE PidInv'
  BY <1>10 DEF PidInv
<1>11. ASSUME NEW c \in CPUs, swtch(c) \/ release(c) PROVE PidInv'
  BY <1>10, <1>11 DEF swtch, release, tableVars
<1>12. ASSUME NEW c \in CPUs, NEW q \in Slots,
              \/ fork_copy(c, q) \/ wait_fails(c, q) \/ call_wait(c, q) \/ call_exit(c, q)
              \/ call_block(c, q) \/ tick(c, q) \/ fault(c, q)
       PROVE  PidInv'
  BY <1>10, <1>12 DEF fork_copy, wait_fails, call_wait, call_exit, call_block, tick, fault, tableVars
<1>13. CASE UNCHANGED vars
  BY <1>10, <1>13 DEF vars, tableVars
<1> QED
  BY <1>1, <1>2, <1>4, <1>5, <1>6, <1>7, <1>8, <1>9, <1>11, <1>12, <1>13 DEF Next, fork, wait, scheduler

\* The pid of a process is no other slot's, not even one's that a failed fork
\* has given back with its pid in it.
THEOREM PidsUnique == Spec => []PidInv
<1>1. Init => PidInv
  BY Ranges DEF Init, PidInv
<1> QED
  BY Inductive, PidStep, <1>1, PTL DEF Spec

\* kill of a process sets killed of that process and of no other slot.
THEOREM KillHits == Spec => [][KillsItsTarget]_vars
<1>1. ASSUME PidInv PROVE KillsItsTarget
  BY <1>1 DEF PidInv, KillsItsTarget, kill
<1> QED
  BY PidsUnique, <1>1, PTL
===============================================================================
