-------------------------------- MODULE JosEnv --------------------------------
(***************************************************************************)
(* The environments (processes) of the JOS kernel of xv6-rev11/lab6-net on *)
(* a multiprocessor: kern/env.c, kern/sched.c, the trap path of            *)
(* kern/trap.c and the system calls of kern/syscall.c that create,         *)
(* destroy, start, block and wake an environment.                          *)
(*                                                                         *)
(* Every trap runs under the big kernel lock, from lock_kernel() in trap() *)
(* to unlock_kernel() in env_run() or sched_halt(), so a whole trap is one *)
(* step here.  What the code does after unlock_kernel(), the store of      *)
(* env_cpunum and the iret of env_pop_tf(), is a step of its own.          *)
(***************************************************************************)
EXTENDS Integers, Sequences, Functions

CONSTANTS
  NENV,      \* number of slots of envs[]
  NCPU,      \* number of processors
  GenMax,    \* last generation of a slot before its env_id would be negative
  InitEnvs   \* number of environments i386_init creates

ASSUME NENVAssumption == NENV \in Nat \ {0}
ASSUME NCPUAssumption == NCPU \in Nat \ {0}
ASSUME GenMaxAssumption == GenMax \in Nat \ {0}
ASSUME InitEnvsAssumption == InitEnvs \in 1..NENV

Slots == 0..(NENV - 1)
CPUs  == 0..(NCPU - 1)
NoEnv == -1                          \* curenv == NULL

(***************************************************************************)
(* An envid_t is an index into envs[] and a generation.  The envid 0,      *)
(* which stands for the caller, and for no parent in env_parent_id, is     *)
(* index 0 of generation 0.                                                *)
(***************************************************************************)
EnvIds == Slots \X (0..GenMax)
NullId == <<0, 0>>

ENV_FREE         == "ENV_FREE"
ENV_DYING        == "ENV_DYING"
ENV_RUNNABLE     == "ENV_RUNNABLE"
ENV_RUNNING      == "ENV_RUNNING"
ENV_NOT_RUNNABLE == "ENV_NOT_RUNNABLE"

Statuses == {ENV_FREE, ENV_DYING, ENV_RUNNABLE, ENV_RUNNING, ENV_NOT_RUNNABLE}

(***************************************************************************)
(* Where a processor is.  "boot": about to take the lock for its first     *)
(* sched_yield(); "pop": between unlock_kernel() and the iret; "user";     *)
(* "halted": in the hlt loop of sched_halt(); "monitor" and "panic": in    *)
(* the kernel for good, holding the big kernel lock.                       *)
(***************************************************************************)
CpuModes == {"boot", "pop", "user", "halted", "monitor", "panic"}

VARIABLES
  env_status, env_gen, env_parent_id, env_cpunum,   \* struct Env
  env_ipc_recving, env_ipc_from,                    \* from: is it nonzero?
  env_free_list,                                    \* linked by env_link
  unstarted,                                        \* children of a fork() or
                                                    \* spawn() that goes on
  cpu_env,                                          \* curenv of each CPU
  cpu_mode

ipcVars   == <<env_ipc_recving, env_ipc_from>>
idVars    == <<env_gen, env_parent_id>>
allocVars == <<env_free_list, unstarted>>
schedVars == <<env_status, cpu_env, cpu_mode>>
vars == <<schedVars, idVars, env_cpunum, ipcVars, allocVars>>

env_id(e) == <<e, env_gen[e]>>

\* Only the boot CPU, which takes the lock before it starts the others, and
\* a CPU that never leaves the kernel hold the lock between two steps.
LockFree ==
  /\ cpu_mode[0] # "boot"
  /\ \A d \in CPUs : cpu_mode[d] \notin {"monitor", "panic"}

\* env_pgdir is NULL exactly while the slot is on the free list: env_free
\* clears it when it links the slot, env_alloc sets it when it unlinks it.
HasPgdir(e) == e \notin Range(env_free_list)

-------------------------------------------------------------------------------
(***************************************************************************)
(* Scheduling.  st is env_status, and now is curenv, at the moment of the  *)
(* call: the handlers change both before they call the scheduler.  These   *)
(* operators set env_status', cpu_env' and cpu_mode'.                      *)
(***************************************************************************)

\* A kernel fault or PADDR(NULL): the CPU stops in panic() with the lock.
panic(c, st, now) ==
  /\ env_status' = st
  /\ cpu_env' = [cpu_env EXCEPT ![c] = now]
  /\ cpu_mode' = [cpu_mode EXCEPT ![c] = "panic"]

\* Mutant: the environment is not marked RUNNING.
env_run_unmarked(c, st, now, e) ==
  /\ env_status' = IF now # NoEnv /\ st[now] = ENV_RUNNING
                   THEN [st EXCEPT ![now] = ENV_RUNNABLE] ELSE st
  /\ cpu_env' = [cpu_env EXCEPT ![c] = e]
  /\ cpu_mode' = [cpu_mode EXCEPT ![c] = "pop"]

\* Mutant: the previous environment is not put back to RUNNABLE.
env_run_keeps_old(c, st, now, e) ==
  /\ env_status' = [st EXCEPT ![e] = ENV_RUNNING]
  /\ cpu_env' = [cpu_env EXCEPT ![c] = e]
  /\ cpu_mode' = [cpu_mode EXCEPT ![c] = "pop"]

env_run(c, st, now, e) ==
  LET st1 == IF now # NoEnv /\ st[now] = ENV_RUNNING
             THEN [st EXCEPT ![now] = ENV_RUNNABLE] ELSE st
      st2 == [st1 EXCEPT ![e] = ENV_RUNNING]
  IN IF HasPgdir(e)
     THEN /\ env_status' = st2
          /\ cpu_env' = [cpu_env EXCEPT ![c] = e]
          /\ cpu_mode' = [cpu_mode EXCEPT ![c] = "pop"]
     ELSE panic(c, st2, e)

sched_halt(c, st, now) ==
  /\ env_status' = st
  /\ \/ /\ \A e \in Slots : st[e] \in {ENV_FREE, ENV_NOT_RUNNABLE}
        /\ cpu_env' = [cpu_env EXCEPT ![c] = now]
        /\ cpu_mode' = [cpu_mode EXCEPT ![c] = "monitor"]
     \/ /\ \E e \in Slots : st[e] \notin {ENV_FREE, ENV_NOT_RUNNABLE}
        /\ cpu_env' = [cpu_env EXCEPT ![c] = NoEnv]
        /\ cpu_mode' = [cpu_mode EXCEPT ![c] = "halted"]

\* How many slots the circular search of sched_yield passes before it
\* reaches e.
Distance(startid, e) == IF e >= startid THEN e - startid ELSE e - startid + NENV

\* Mutant: the fallback goes back to curenv even if it is not RUNNING.
sched_yield_resumes(c, st, now) ==
  LET startid == IF now = NoEnv THEN 0 ELSE now
  IN \/ \E e \in Slots :
          /\ st[e] = ENV_RUNNABLE
          /\ \A f \in Slots : st[f] = ENV_RUNNABLE
                                => Distance(startid, e) <= Distance(startid, f)
          /\ env_run(c, st, now, e)
     \/ /\ \A e \in Slots : st[e] # ENV_RUNNABLE
        /\ IF env_cpunum[startid] = c
           THEN env_run(c, st, now, startid)
           ELSE sched_halt(c, st, now)

\* Mutant: the search always starts at envs[0].
sched_yield_from_0(c, st, now) ==
  \/ \E e \in Slots : /\ st[e] = ENV_RUNNABLE
                      /\ \A f \in Slots : st[f] = ENV_RUNNABLE => e <= f
                      /\ env_run(c, st, now, e)
  \/ /\ \A e \in Slots : st[e] # ENV_RUNNABLE
     /\ IF now # NoEnv /\ st[now] = ENV_RUNNING
        THEN env_run(c, st, now, now) ELSE sched_halt(c, st, now)

sched_yield(c, st, now) ==
  LET startid == IF now = NoEnv THEN 0 ELSE now
  IN \/ \E e \in Slots :
          /\ st[e] = ENV_RUNNABLE
          /\ \A f \in Slots : st[f] = ENV_RUNNABLE
                                => Distance(startid, e) <= Distance(startid, f)
          /\ env_run(c, st, now, e)
     \/ /\ \A e \in Slots : st[e] # ENV_RUNNABLE
        /\ IF st[startid] = ENV_RUNNING /\ env_cpunum[startid] = c
           THEN env_run(c, st, now, startid)
           ELSE sched_halt(c, st, now)

\* The end of trap(): back to curenv if it is still running.
trap_return(c, st) ==
  IF st[cpu_env[c]] = ENV_RUNNING
  THEN env_run(c, st, cpu_env[c], cpu_env[c])
  ELSE sched_yield(c, st, cpu_env[c])

-------------------------------------------------------------------------------
(***************************************************************************)
(* Allocation and release of environments.                                 *)
(***************************************************************************)

\* The slot an envid names for the caller on CPU c, NoEnv for -E_BAD_ENV.
envid2env(c, id, checkperm) ==
  LET e == id[1]
  IN IF id = NullId THEN cpu_env[c]
     ELSE IF env_status[e] = ENV_FREE \/ env_id(e) # id THEN NoEnv
     ELSE IF checkperm /\ e # cpu_env[c]
                       /\ env_parent_id[e] # env_id(cpu_env[c]) THEN NoEnv
     ELSE e

\* The generation env_alloc gives to slot e: never 0, restarting at 1 when
\* the 32-bit env_id would become negative.
NextGen(e) == IF env_gen[e] + 1 > GenMax THEN 1 ELSE env_gen[e] + 1

\* Mutant: a new environment inherits env_ipc_recving from the old one.
env_alloc_recving(e, parent_id) ==
  /\ env_gen' = [env_gen EXCEPT ![e] = NextGen(e)]
  /\ env_parent_id' = [env_parent_id EXCEPT ![e] = parent_id]
  /\ env_free_list' = Tail(env_free_list)
  /\ unstarted' = unstarted \cup {e}
  /\ UNCHANGED <<env_cpunum, ipcVars>>

\* The fields env_alloc sets, other than env_status, which the caller of
\* env_alloc overrides.  env_ipc_from and env_cpunum keep their old values.
env_alloc(e, parent_id) ==
  /\ env_gen' = [env_gen EXCEPT ![e] = NextGen(e)]
  /\ env_parent_id' = [env_parent_id EXCEPT ![e] = parent_id]
  /\ env_ipc_recving' = [env_ipc_recving EXCEPT ![e] = FALSE]
  /\ env_free_list' = Tail(env_free_list)
  /\ unstarted' = unstarted \cup {e}
  /\ UNCHANGED <<env_cpunum, env_ipc_from>>

\* Mutant: the slot is not linked into the free list.
env_free_leak(e) ==
  /\ unstarted' = unstarted \ {e}
  /\ UNCHANGED <<idVars, env_cpunum, ipcVars, env_free_list>>

env_free(e) ==
  /\ env_free_list' = <<e>> \o env_free_list
  /\ unstarted' = unstarted \ {e}
  /\ UNCHANGED <<idVars, env_cpunum, ipcVars>>

\* Mutant: an environment that runs on another CPU is freed at once.
env_destroy_at_once(c, e) ==
  LET st == [env_status EXCEPT ![e] = ENV_FREE]
  IN /\ HasPgdir(e)
     /\ env_free(e)
     /\ IF cpu_env[c] = e THEN sched_yield(c, st, NoEnv) ELSE trap_return(c, st)

env_destroy(c, e) ==
  IF env_status[e] = ENV_RUNNING /\ cpu_env[c] # e
  THEN /\ trap_return(c, [env_status EXCEPT ![e] = ENV_DYING])
       /\ UNCHANGED <<idVars, env_cpunum, ipcVars, allocVars>>
  ELSE IF ~HasPgdir(e)
  THEN /\ panic(c, env_status, cpu_env[c])
       /\ UNCHANGED <<idVars, env_cpunum, ipcVars, allocVars>>
  ELSE LET st == [env_status EXCEPT ![e] = ENV_FREE]
       IN /\ env_free(e)
          /\ IF cpu_env[c] = e THEN sched_yield(c, st, NoEnv)
                               ELSE trap_return(c, st)

-------------------------------------------------------------------------------
(***************************************************************************)
(* Traps.  Each action is one trap of CPU c, entered in trap() and left    *)
(* through env_run() or sched_halt().                                      *)
(***************************************************************************)

\* Mutant: no test for a zombie.
trap_unchecked(c) ==
  /\ LockFree
  /\ cpu_mode[c] = "user"

\* c traps from user mode, gets the lock, and curenv is not a zombie.
trap(c) ==
  /\ LockFree
  /\ cpu_mode[c] = "user"
  /\ env_status[cpu_env[c]] # ENV_DYING

\* The first thing a trap does is to free curenv if it is a zombie.
trap_zombie(c) ==
  /\ LockFree
  /\ cpu_mode[c] = "user"
  /\ env_status[cpu_env[c]] = ENV_DYING
  /\ IF HasPgdir(cpu_env[c])
     THEN /\ env_free(cpu_env[c])
          /\ sched_yield(c, [env_status EXCEPT ![cpu_env[c]] = ENV_FREE], NoEnv)
     ELSE /\ panic(c, env_status, cpu_env[c])
          /\ UNCHANGED <<idVars, env_cpunum, ipcVars, allocVars>>

\* A trap that changes no environment: a keyboard, serial or spurious
\* interrupt, a page fault with an upcall, a breakpoint, and every system
\* call that returns an error or touches no field of struct Env modelled here.
trap_other(c) ==
  /\ trap(c)
  /\ trap_return(c, env_status)
  /\ UNCHANGED <<idVars, env_cpunum, ipcVars, allocVars>>

\* A clock interrupt in user mode.
trap_clock(c) ==
  /\ trap(c)
  /\ sched_yield(c, env_status, cpu_env[c])
  /\ UNCHANGED <<idVars, env_cpunum, ipcVars, allocVars>>

\* An interrupt wakes a halted CPU: it takes the lock and curenv is NULL.
trap_halted(c) ==
  /\ LockFree
  /\ cpu_mode[c] = "halted"
  /\ sched_yield(c, env_status, NoEnv)
  /\ UNCHANGED <<idVars, env_cpunum, ipcVars, allocVars>>

\* An exception nobody handles, or a failed user_mem_assert.
trap_fault(c) ==
  /\ trap(c)
  /\ env_destroy(c, cpu_env[c])

\* The boot CPU ends i386_init in sched_yield, with the lock it took there.
i386_init(c) ==
  /\ c = 0 /\ cpu_mode[c] = "boot"
  /\ sched_yield(c, env_status, NoEnv)
  /\ UNCHANGED <<idVars, env_cpunum, ipcVars, allocVars>>

\* The other CPUs end mp_main in sched_yield, once they get the lock.
mp_main(c) ==
  /\ LockFree
  /\ cpu_mode[c] = "boot"
  /\ sched_yield(c, env_status, NoEnv)
  /\ UNCHANGED <<idVars, env_cpunum, ipcVars, allocVars>>

\* After the lock is released: env_cpunum is stored and the iret is done.
env_pop_tf(c) ==
  /\ cpu_mode[c] = "pop"
  /\ env_cpunum' = [env_cpunum EXCEPT ![cpu_env[c]] = c]
  /\ cpu_mode' = [cpu_mode EXCEPT ![c] = "user"]
  /\ UNCHANGED <<env_status, cpu_env, idVars, ipcVars, allocVars>>

sys_yield(c) ==
  /\ trap(c)
  /\ sched_yield(c, env_status, cpu_env[c])
  /\ UNCHANGED <<idVars, env_cpunum, ipcVars, allocVars>>

sys_env_destroy(c, id) ==
  LET e == envid2env(c, id, TRUE)
  IN /\ trap(c)
     /\ e # NoEnv
     /\ env_destroy(c, e)

\* The new environment is a child of the caller and cannot run yet.
sys_exofork(c) ==
  /\ trap(c)
  /\ env_free_list # <<>>
  /\ LET e == Head(env_free_list)
     IN /\ env_alloc(e, env_id(cpu_env[c]))
        /\ trap_return(c, [env_status EXCEPT ![e] = ENV_NOT_RUNNABLE])

sys_env_set_status(c, id, status) ==
  LET e == envid2env(c, id, TRUE)
  IN /\ trap(c)
     /\ e # NoEnv
     /\ trap_return(c, [env_status EXCEPT ![e] = status])
     /\ UNCHANGED <<idVars, env_cpunum, ipcVars, env_free_list>>

sys_ipc_recv(c) ==
  LET e == cpu_env[c]
  IN /\ trap(c)
     /\ env_ipc_recving' = [env_ipc_recving EXCEPT ![e] = TRUE]
     /\ env_ipc_from' = [env_ipc_from EXCEPT ![e] = FALSE]
     /\ sched_yield(c, [env_status EXCEPT ![e] = ENV_NOT_RUNNABLE], e)
     /\ UNCHANGED <<idVars, env_cpunum, allocVars>>

\* A send that succeeds.  The page argument, its checks and its mapping are
\* not part of this module; a send that fails any check is a trap_other.
sys_ipc_try_send(c, id) ==
  LET e == envid2env(c, id, FALSE)
  IN /\ trap(c)
     /\ e # NoEnv
     /\ env_ipc_recving[e]
     /\ ~env_ipc_from[e]
     /\ env_ipc_from' = [env_ipc_from EXCEPT ![e] = TRUE]
     /\ env_ipc_recving' = [env_ipc_recving EXCEPT ![e] = FALSE]
     /\ trap_return(c, [env_status EXCEPT ![e] = ENV_RUNNABLE])
     /\ UNCHANGED <<idVars, env_cpunum, allocVars>>

-------------------------------------------------------------------------------
(***************************************************************************)
(* The state in which i386_init gives up the kernel: InitEnvs environments *)
(* created by env_create, everything else free in index order, and no CPU  *)
(* has run an environment yet.                                             *)
(***************************************************************************)
Init ==
  /\ env_status = [e \in Slots |-> IF e < InitEnvs THEN ENV_RUNNABLE ELSE ENV_FREE]
  /\ env_gen = [e \in Slots |-> IF e < InitEnvs THEN 1 ELSE 0]
  /\ env_parent_id = [e \in Slots |-> NullId]
  /\ env_cpunum = [e \in Slots |-> 0]
  /\ env_ipc_recving = [e \in Slots |-> FALSE]
  /\ env_ipc_from = [e \in Slots |-> FALSE]
  /\ env_free_list = [i \in 1..(NENV - InitEnvs) |-> InitEnvs + i - 1]
  /\ unstarted = {}
  /\ cpu_env = [c \in CPUs |-> NoEnv]
  /\ cpu_mode = [c \in CPUs |-> "boot"]

\* What lib/ asks of sys_env_set_status: fork and spawn make the child that
\* they hold runnable, once.
lib_start_child(c, id) ==
  LET e == envid2env(c, id, TRUE)
  IN /\ trap(c)
     /\ e \in unstarted
     /\ unstarted' = unstarted \ {e}
     /\ sys_env_set_status(c, id, ENV_RUNNABLE)

\* What lib/ and user/ ask of sys_env_destroy: exit, spawn's error path and
\* a parent that kills its child; nobody kills an environment twice.
lib_env_destroy(c, id) ==
  LET e == envid2env(c, id, TRUE)
  IN /\ trap(c)
     /\ e # NoEnv
     /\ env_status[e] # ENV_DYING
     /\ sys_env_destroy(c, id)

KernelNext(c) ==
  \/ trap_zombie(c) \/ trap_other(c) \/ trap_clock(c) \/ trap_halted(c)
  \/ trap_fault(c) \/ i386_init(c) \/ mp_main(c) \/ env_pop_tf(c)
  \/ sys_yield(c) \/ sys_exofork(c) \/ sys_ipc_recv(c)
  \/ \E id \in EnvIds : sys_ipc_try_send(c, id)

\* Programs built on lib/.
Next ==
  \E c \in CPUs : \/ KernelNext(c)
                  \/ \E id \in EnvIds : lib_start_child(c, id)
                  \/ \E id \in EnvIds : lib_env_destroy(c, id)

\* Programs that make any system call with any arguments.
AnyNext ==
  \E c \in CPUs :
    \/ KernelNext(c)
    \/ \E id \in EnvIds : sys_env_destroy(c, id)
    \/ \E id \in EnvIds, status \in {ENV_RUNNABLE, ENV_NOT_RUNNABLE} :
         sys_env_set_status(c, id, status) /\ UNCHANGED unstarted

Spec == Init /\ [][Next]_vars

AnySpec == Init /\ [][AnyNext]_vars

\* The clock interrupts every CPU again and again.  An interrupt that comes
\* while the CPU is in the kernel stays pending and is taken at the iret or at
\* the sti of sched_halt, so it cannot be put off by a program that traps all
\* the time (strong fairness); and a CPU that waits for the lock gets it.
ClockStep(c) == trap_clock(c) \/ trap_zombie(c) \/ trap_halted(c)

Fairness ==
  \A c \in CPUs : /\ SF_vars(ClockStep(c))
                  /\ WF_vars(i386_init(c) \/ mp_main(c))
                  /\ WF_vars(env_pop_tf(c))

FairSpec == Spec /\ Fairness

\* A fixed population: nobody forks, exits, faults or is killed.
StaticNext ==
  \E c \in CPUs :
    \/ trap_other(c) \/ trap_clock(c) \/ trap_halted(c)
    \/ i386_init(c) \/ mp_main(c) \/ env_pop_tf(c) \/ sys_yield(c) \/ sys_ipc_recv(c)
    \/ \E id \in EnvIds : sys_ipc_try_send(c, id)

StaticSpec == Init /\ [][StaticNext]_vars /\ Fairness

-------------------------------------------------------------------------------
(***************************************************************************)
(* Properties.  envs[0] is the exception in most of them: sched_yield on a *)
(* CPU without curenv looks at envs[0] as if it had been its environment,  *)
(* and env_cpunum, which is stored after the lock is released, may be out  *)
(* of date when it does (NeverOnTwoCpus, below, is not an invariant).      *)
(***************************************************************************)
Running(c) == cpu_mode[c] \in {"pop", "user"}

\* Every variable has its type, and a CPU that runs or is about to run user
\* code has a curenv: assert(curenv) in trap() cannot fail.
TypeOK ==
  /\ env_status \in [Slots -> Statuses]
  /\ env_gen \in [Slots -> 0..GenMax]
  /\ env_parent_id \in [Slots -> EnvIds]
  /\ env_cpunum \in [Slots -> CPUs]
  /\ env_ipc_recving \in [Slots -> BOOLEAN]
  /\ env_ipc_from \in [Slots -> BOOLEAN]
  /\ env_free_list \in Seq(Slots)
  /\ unstarted \in SUBSET Slots
  /\ cpu_env \in [CPUs -> Slots \cup {NoEnv}]
  /\ cpu_mode \in [CPUs -> CpuModes]
  /\ \A c \in CPUs : Running(c) => cpu_env[c] # NoEnv

\* No environment but envs[0] is ever run by two CPUs, whatever the order in
\* which CPUs trap, halt, wake and release the lock (env_run, sched_yield).
OneCpuEach ==
  \A c, d \in CPUs :
    Running(c) /\ Running(d) /\ cpu_env[c] = cpu_env[d] => c = d \/ cpu_env[c] = 0

\* No CPU runs, or is about to iret into, an environment that has been freed,
\* blocked or put back in the queue: its page directory and its trap frame
\* are still its own (env_destroy and the zombie test of trap()).
RunsLiveEnv ==
  \A c \in CPUs : Running(c) /\ cpu_env[c] # 0
                    => env_status[cpu_env[c]] \in {ENV_RUNNING, ENV_DYING}

\* A RUNNING or DYING environment is on some CPU: it is not lost to the
\* scheduler, which never picks it, nor to the zombie test, which frees it.
RunningIsOnCpu ==
  \A e \in Slots \ {0} : env_status[e] \in {ENV_RUNNING, ENV_DYING}
                           => \E c \in CPUs : cpu_env[c] = e

\* While an environment runs, env_cpunum names its CPU, although it is stored
\* after the lock is released: the fallback of sched_yield recognises curenv
\* and does not halt a CPU that has a program to go on with.
CpunumFresh ==
  \A c \in CPUs : cpu_mode[c] = "user" /\ cpu_env[c] # 0 => env_cpunum[cpu_env[c]] = c

\* env_free_list links every free slot exactly once and no other slot, so no
\* slot leaks and none is handed out twice (env_free, env_alloc).
FreeListExact ==
  /\ IsInjective(env_free_list)
  /\ \A e \in Slots \ {0} : e \in Range(env_free_list) <=> env_status[e] = ENV_FREE

\* An environment that waits in sys_ipc_recv stays off the CPUs and accepts a
\* sender: a send can neither interrupt a running program nor be refused
\* because of an earlier sender.
ReceiverBlocked ==
  \A e \in Slots \ {0} :
    env_ipc_recving[e] /\ env_status[e] # ENV_FREE
      => env_status[e] = ENV_NOT_RUNNABLE /\ ~env_ipc_from[e]

\* What one step may do to a blocked receiver, a zombie, and a CPU that is
\* between unlock_kernel() and its iret.
WakesBySend(e) ==
  env_ipc_recving[e] /\ env_status[e] = ENV_NOT_RUNNABLE
    => \/ env_status'[e] = ENV_FREE
       \/ env_ipc_recving'[e] /\ env_status'[e] = ENV_NOT_RUNNABLE
       \/ /\ ~env_ipc_recving'[e] /\ env_status'[e] # ENV_NOT_RUNNABLE
          /\ env_ipc_from'[e]

FreesByTrap(e) ==
  env_status[e] = ENV_DYING
    => \/ env_status'[e] = ENV_DYING
       \/ /\ env_status'[e] = ENV_FREE
          /\ \E c \in CPUs : cpu_mode[c] = "user" /\ cpu_env[c] = e /\ cpu_env'[c] # e

PopsSafely(c) ==
  cpu_mode[c] = "pop" /\ cpu_env[c] # 0
    => /\ env_gen'[cpu_env[c]] = env_gen[cpu_env[c]]
       /\ env_status'[cpu_env[c]] \in {env_status[cpu_env[c]], ENV_DYING}

\* A blocked receiver is woken by a send and by nothing else, and is then no
\* longer open to a second send (sys_ipc_recv, sys_ipc_try_send).
WokenBySendOnly == [][\A e \in Slots \ {0} : WakesBySend(e)]_vars

\* A zombie stays a zombie until the CPU that runs it traps, and that trap
\* frees it ("A zombie environment will be freed the next time it traps").
ZombieFreedByItsTrap == [][\A e \in Slots \ {0} : FreesByTrap(e)]_vars

\* env_pop_tf reads env_tf without the lock: meanwhile the environment stays
\* the same incarnation and nothing worse than ENV_DYING happens to it.
PopWindowStable == [][\A c \in CPUs : PopsSafely(c)]_vars

\* Every zombie is freed in the end (unless the kernel panics).
ZombieCollected ==
  \A e \in Slots \ {0} :
    (env_status[e] = ENV_DYING)
      ~> (env_status[e] = ENV_FREE \/ \E c \in CPUs : cpu_mode[c] = "panic")

\* "Never choose an environment that's currently running on another CPU."
NeverOnTwoCpus ==
  \A c, d \in CPUs : Running(c) /\ Running(d) /\ cpu_env[c] = cpu_env[d] => c = d

\* "Implement simple round-robin scheduling ... in circular fashion starting
\* just after the env this CPU was last running": every RUNNABLE environment
\* gets its turn, or is destroyed.
EveryoneGetsATurn ==
  \A e \in Slots : (env_status[e] = ENV_RUNNABLE)
                      ~> (env_status[e] # ENV_RUNNABLE)
===============================================================================
