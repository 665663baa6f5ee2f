----------------------------- MODULE JosEnvProofs -----------------------------
(***************************************************************************)
(* Proofs about JosEnv, for any number of slots, CPUs and generations.     *)
(***************************************************************************)
EXTENDS JosEnv, SequenceTheorems, TLAPS

(***************************************************************************)
(* The free list as a sequence without repetition.                         *)
(***************************************************************************)

\* Linking a slot that is not on the list (env_free) adds exactly that slot
\* and keeps the list free of repetitions.
LEMMA PushLemma ==
  ASSUME NEW S, NEW s \in Seq(S), NEW e \in S, IsInjective(s), e \notin Range(s)
  PROVE  /\ <<e>> \o s \in Seq(S)
         /\ IsInjective(<<e>> \o s)
         /\ Range(<<e>> \o s) = Range(s) \cup {e}
<1> DEFINE t == <<e>> \o s
<1>1. /\ t \in Seq(S)
      /\ Len(t) = Len(s) + 1
      /\ DOMAIN t = 1..(Len(s) + 1)
      /\ Len(s) \in Nat /\ DOMAIN s = 1..Len(s)
      /\ t[1] = e
      /\ \A i \in 2..(Len(s) + 1) : t[i] = s[i - 1]
  OBVIOUS
<1> HIDE DEF t
<1>2. IsInjective(t)
  <2> SUFFICES ASSUME NEW a \in 1..(Len(s) + 1), NEW b \in 1..(Len(s) + 1), t[a] = t[b]
               PROVE  a = b
    BY <1>1 DEF IsInjective
  <2>1. CASE a = 1 /\ b = 1
    BY <2>1
  <2>2. CASE a = 1 /\ b # 1
    BY <1>1, <2>2 DEF Range
  <2>3. CASE a # 1 /\ b = 1
    BY <1>1, <2>3 DEF Range
  <2>4. CASE a # 1 /\ b # 1
    <3>1. a - 1 \in DOMAIN s /\ t[a] = s[a - 1]
      BY <1>1, <2>4
    <3>2. b - 1 \in DOMAIN s /\ t[b] = s[b - 1]
      BY <1>1, <2>4
    <3>3. a - 1 = b - 1
      BY <3>1, <3>2, Zenon DEF IsInjective
    <3> QED BY <3>3
  <2> QED BY <2>1, <2>2, <2>3, <2>4
<1>3. Range(t) = Range(s) \cup {e}
  <2>1. ASSUME NEW x \in Range(t) PROVE x \in Range(s) \cup {e}
    <3>1. PICK i \in 1..(Len(s) + 1) : x = t[i]
      BY <1>1, <2>1 DEF Range
    <3>2. CASE i = 1
      BY <1>1, <3>1, <3>2
    <3>3. CASE i # 1
      <4>1. i - 1 \in DOMAIN s /\ x = s[i - 1]
        BY <1>1, <3>1, <3>3
      <4> QED BY <4>1 DEF Range
    <3> QED BY <3>2, <3>3
  <2>2. ASSUME NEW x \in Range(s) PROVE x \in Range(t)
    <3>1. PICK i \in 1..Len(s) : x = s[i]
      BY <1>1, <2>2 DEF Range
    <3>2. i + 1 \in DOMAIN t /\ x = t[i + 1]
      BY <1>1, <3>1
    <3> QED BY <3>2 DEF Range
  <2>3. e \in Range(t)
    <3>1. 1 \in DOMAIN t
      BY <1>1
    <3> QED BY <1>1, <3>1 DEF Range
  <2> QED BY <2>1, <2>2, <2>3
<1> QED BY <1>1, <1>2, <1>3 DEF t

\* Unlinking the head (env_alloc) removes exactly that slot.
LEMMA PopLemma ==
  ASSUME NEW S, NEW s \in Seq(S), s # <<>>, IsInjective(s)
  PROVE  /\ Head(s) \in S
         /\ Head(s) \in Range(s)
         /\ Tail(s) \in Seq(S)
         /\ IsInjective(Tail(s))
         /\ Range(Tail(s)) = Range(s) \ {Head(s)}
<1> DEFINE t == Tail(s)
<1>1. /\ t \in Seq(S) /\ Head(s) \in S
      /\ Len(s) \in Nat \ {0} /\ DOMAIN s = 1..Len(s)
      /\ DOMAIN t = 1..(Len(s) - 1)
      /\ Head(s) = s[1]
      /\ \A i \in 1..(Len(s) - 1) : t[i] = s[i + 1]
  OBVIOUS
<1> HIDE DEF t
<1>2. Head(s) \in Range(s)
  BY <1>1 DEF Range
<1>3. IsInjective(t)
  <2> SUFFICES ASSUME NEW a \in 1..(Len(s) - 1), NEW b \in 1..(Len(s) - 1), t[a] = t[b]
               PROVE  a = b
    BY <1>1 DEF IsInjective
  <2>1. a + 1 \in DOMAIN s /\ b + 1 \in DOMAIN s /\ s[a + 1] = s[b + 1]
    BY <1>1
  <2>2. a + 1 = b + 1
    BY <2>1 DEF IsInjective
  <2> QED BY <2>2
<1>4. ASSUME NEW x \in Range(t) PROVE x \in Range(s) \ {Head(s)}
  <2>1. PICK i \in 1..(Len(s) - 1) : x = t[i]
    BY <1>1, <1>4 DEF Range
  <2>2. i + 1 \in DOMAIN s /\ x = s[i + 1] /\ i + 1 # 1
    BY <1>1, <2>1
  <2>3. x # s[1]
    BY <1>1, <2>2 DEF IsInjective
  <2> QED BY <1>1, <2>2, <2>3 DEF Range
<1>5. ASSUME NEW x \in Range(s) \ {Head(s)} PROVE x \in Range(t)
  <2>1. PICK i \in 1..Len(s) : x = s[i]
    BY <1>1, <1>5 DEF Range
  <2>2. i # 1
    BY <1>1, <1>5, <2>1
  <2>3. i - 1 \in DOMAIN t /\ x = t[i - 1]
    BY <1>1, <2>1, <2>2
  <2> QED BY <2>3 DEF Range
<1> QED BY <1>1, <1>2, <1>3, <1>4, <1>5 DEF t

-------------------------------------------------------------------------------
(***************************************************************************)
(* The inductive invariant: the properties of the runs, and the facts that *)
(* a CPU which is booting or halted has no curenv, that no other CPU has   *)
(* left mp_main while the boot CPU is in i386_init, and that a child waits *)
(* for its parent to start it.                                             *)
(***************************************************************************)
IdleHasNoEnv ==
  \A c \in CPUs : cpu_mode[c] \in {"boot", "halted"} => cpu_env[c] = NoEnv

BootFirst ==
  cpu_mode[0] = "boot" => \A c \in CPUs : cpu_mode[c] = "boot"

ChildWaits ==
  \A e \in unstarted \ {0} : env_status[e] = ENV_NOT_RUNNABLE /\ ~env_ipc_recving[e]

IInv ==
  /\ TypeOK
  /\ IdleHasNoEnv
  /\ BootFirst
  /\ CpunumFresh
  /\ OneCpuEach
  /\ RunsLiveEnv
  /\ RunningIsOnCpu
  /\ FreeListExact
  /\ ReceiverBlocked
  /\ ChildWaits

\* The state in which CPU c, in the kernel with the lock, calls the scheduler:
\* st and now are env_status and curenv, and all is well on the other CPUs.
MayYield(c, st, now) ==
  /\ c \in CPUs
  /\ st \in [Slots -> Statuses]
  /\ now \in Slots \cup {NoEnv}
  /\ \A d \in CPUs \ {c} : ~Running(d) => cpu_env[d] = NoEnv
  /\ \A d \in CPUs \ {c} : Running(d) /\ cpu_env[d] # 0
                             => st[cpu_env[d]] \in {ENV_RUNNING, ENV_DYING}
  /\ \A d \in CPUs \ {c} : Running(d) /\ cpu_env[d] # 0 => cpu_env[d] # now
  /\ \A e \in Slots \ {0} : st[e] \in {ENV_RUNNING, ENV_DYING}
                              => e = now \/ \E d \in CPUs \ {c} : cpu_env[d] = e
  /\ now \in Slots \ {0} => st[now] # ENV_DYING

\* The scheduling part of the invariant.
SchedInv ==
  /\ env_status \in [Slots -> Statuses]
  /\ cpu_env \in [CPUs -> Slots \cup {NoEnv}]
  /\ cpu_mode \in [CPUs -> CpuModes]
  /\ \A c \in CPUs : Running(c) => cpu_env[c] # NoEnv
  /\ IdleHasNoEnv
  /\ OneCpuEach
  /\ RunsLiveEnv
  /\ RunningIsOnCpu

\* The scheduler only moves environments between RUNNABLE and RUNNING.
Reshuffled(st) ==
  \A e \in Slots :
    \/ env_status'[e] = st[e]
    \/ /\ env_status'[e] \in {ENV_RUNNABLE, ENV_RUNNING}
       /\ st[e] \in {ENV_RUNNABLE, ENV_RUNNING}

\* The scheduler moves CPU c out of boot and user mode and leaves the other
\* CPUs alone.
OnlyCpu(c) ==
  /\ cpu_mode'[c] \notin {"boot", "user"}
  /\ \A d \in CPUs \ {c} : cpu_env'[d] = cpu_env[d] /\ cpu_mode'[d] = cpu_mode[d]

\* curenv == NULL is no index of envs[].
LEMMA NoEnvNotSlot == NoEnv \notin Slots
BY NENVAssumption DEF NoEnv, Slots

\* envs[0] exists.
LEMMA ZeroSlot == 0 \in Slots
BY NENVAssumption DEF Slots

\* env_run keeps the scheduling invariant, whether it switches to an
\* environment that waits, goes back to curenv, or (on a CPU without curenv)
\* adopts envs[0].
LEMMA EnvRunLemma ==
  ASSUME SchedInv, NEW c, NEW st, NEW now, MayYield(c, st, now), NEW e \in Slots,
         \/ st[e] = ENV_RUNNABLE
         \/ e = now /\ st[e] = ENV_RUNNING
         \/ e = 0 /\ now = NoEnv /\ st[e] = ENV_RUNNING,
         env_run(c, st, now, e)
  PROVE  SchedInv' /\ Reshuffled(st) /\ OnlyCpu(c)
<1> DEFINE st1 == IF now # NoEnv /\ st[now] = ENV_RUNNING
                  THEN [st EXCEPT ![now] = ENV_RUNNABLE] ELSE st
           st2 == [st1 EXCEPT ![e] = ENV_RUNNING]
<1>1. /\ env_status' = st2
      /\ cpu_env' = [cpu_env EXCEPT ![c] = e]
      /\ \E m \in {"pop", "panic"} : cpu_mode' = [cpu_mode EXCEPT ![c] = m]
  BY DEF env_run, panic
<1>2. c \in CPUs /\ st \in [Slots -> Statuses] /\ now \in Slots \cup {NoEnv}
  BY DEF MayYield
<1>3. st1 \in [Slots -> Statuses] /\ st2 \in [Slots -> Statuses]
  BY <1>2 DEF Statuses, ENV_FREE, ENV_DYING, ENV_RUNNABLE, ENV_RUNNING, ENV_NOT_RUNNABLE
<1>4. \A f \in Slots : /\ f = e => st2[f] = ENV_RUNNING
                       /\ f # e /\ f # now => st2[f] = st[f]
                       /\ f # e /\ f = now => \/ st[f] = ENV_RUNNING /\ st2[f] = ENV_RUNNABLE
                                              \/ st[f] # ENV_RUNNING /\ st2[f] = st[f]
  BY <1>2, <1>3, NoEnvNotSlot
<1> HIDE DEF st1, st2
<1>5. Reshuffled(st)
  BY <1>1, <1>4 DEF Reshuffled
<1>6. /\ cpu_env' \in [CPUs -> Slots \cup {NoEnv}]
      /\ cpu_mode' \in [CPUs -> CpuModes]
      /\ cpu_env'[c] = e
      /\ cpu_mode'[c] \in {"pop", "panic"}
      /\ \A d \in CPUs \ {c} : cpu_env'[d] = cpu_env[d] /\ cpu_mode'[d] = cpu_mode[d]
      /\ \A d \in CPUs \ {c} : Running(d)' <=> Running(d)
  BY <1>1, <1>2 DEF SchedInv, CpuModes, Running
<1>7. \A d \in CPUs : Running(d)' => cpu_env'[d] # NoEnv
  BY <1>6, NoEnvNotSlot DEF SchedInv
<1>8. IdleHasNoEnv'
  BY <1>6 DEF SchedInv, IdleHasNoEnv
<1>9. \A d \in CPUs \ {c} : Running(d) /\ cpu_env[d] # 0
          => cpu_env[d] \in Slots /\ cpu_env[d] # e /\ cpu_env[d] # now
  BY <1>2 DEF MayYield, SchedInv, ENV_RUNNABLE, ENV_RUNNING, ENV_DYING
<1>10. OneCpuEach'
  BY <1>2, <1>6, <1>9 DEF SchedInv, OneCpuEach
<1>11. RunsLiveEnv'
  BY <1>1, <1>2, <1>4, <1>6, <1>9 DEF RunsLiveEnv, MayYield
<1>12. RunningIsOnCpu'
  <2> SUFFICES ASSUME NEW f \in Slots \ {0}, st2[f] \in {ENV_RUNNING, ENV_DYING}
               PROVE  \E d \in CPUs : cpu_env'[d] = f
    BY <1>1 DEF RunningIsOnCpu
  <2>1. CASE f = e
    BY <2>1, <1>2, <1>6
  <2>2. CASE f # e
    <3>1. st[f] \in {ENV_RUNNING, ENV_DYING} /\ f # now
      BY <2>2, <1>4 DEF MayYield, ENV_RUNNABLE, ENV_RUNNING, ENV_DYING
    <3>2. PICK d \in CPUs \ {c} : cpu_env[d] = f
      BY <3>1 DEF MayYield
    <3> QED BY <3>2, <1>6
  <2> QED BY <2>1, <2>2
<1> QED BY <1>1, <1>3, <1>5, <1>6, <1>7, <1>8, <1>10, <1>11, <1>12 DEF SchedInv, OnlyCpu

\* sched_halt keeps the scheduling invariant when curenv is not RUNNING.
LEMMA SchedHaltLemma ==
  ASSUME SchedInv, NEW c, NEW st, NEW now, MayYield(c, st, now),
         now \in Slots \ {0} => st[now] # ENV_RUNNING,
         sched_halt(c, st, now)
  PROVE  SchedInv' /\ Reshuffled(st) /\ OnlyCpu(c)
<1>1. /\ env_status' = st
      /\ \/ /\ \A e \in Slots : st[e] \in {ENV_FREE, ENV_NOT_RUNNABLE}
            /\ cpu_env' = [cpu_env EXCEPT ![c] = now]
            /\ cpu_mode' = [cpu_mode EXCEPT ![c] = "monitor"]
         \/ /\ cpu_env' = [cpu_env EXCEPT ![c] = NoEnv]
            /\ cpu_mode' = [cpu_mode EXCEPT ![c] = "halted"]
  BY DEF sched_halt
<1>2. c \in CPUs /\ st \in [Slots -> Statuses] /\ now \in Slots \cup {NoEnv}
  BY DEF MayYield
<1>3. /\ cpu_env' \in [CPUs -> Slots \cup {NoEnv}]
      /\ cpu_mode' \in [CPUs -> CpuModes]
      /\ ~Running(c)' /\ cpu_mode'[c] \notin {"boot", "user"}
      /\ cpu_mode'[c] \in {"boot", "halted"} => cpu_env'[c] = NoEnv
      /\ \A d \in CPUs \ {c} : cpu_env'[d] = cpu_env[d] /\ cpu_mode'[d] = cpu_mode[d]
      /\ \A d \in CPUs \ {c} : Running(d)' <=> Running(d)
  BY <1>1, <1>2 DEF SchedInv, CpuModes, Running
<1>4. Reshuffled(st)
  BY <1>1 DEF Reshuffled
<1>5. IdleHasNoEnv' /\ \A d \in CPUs : Running(d)' => cpu_env'[d] # NoEnv
  BY <1>3 DEF SchedInv, IdleHasNoEnv
<1>6. OneCpuEach'
  BY <1>2, <1>3 DEF SchedInv, OneCpuEach
<1>7. RunsLiveEnv'
  BY <1>1, <1>2, <1>3 DEF RunsLiveEnv, MayYield
<1>8. RunningIsOnCpu'
  <2> SUFFICES ASSUME NEW f \in Slots \ {0}, st[f] \in {ENV_RUNNING, ENV_DYING}
               PROVE  \E d \in CPUs : cpu_env'[d] = f
    BY <1>1 DEF RunningIsOnCpu
  <2>1. f # now
    BY DEF MayYield
  <2>2. PICK d \in CPUs \ {c} : cpu_env[d] = f
    BY <2>1 DEF MayYield
  <2> QED BY <2>2, <1>3
<1> QED BY <1>1, <1>2, <1>3, <1>4, <1>5, <1>6, <1>7, <1>8 DEF SchedInv, OnlyCpu

\* A CPU that panics keeps the scheduling invariant: its curenv stays.
LEMMA PanicLemma ==
  ASSUME SchedInv, NEW c \in CPUs, panic(c, env_status, cpu_env[c])
  PROVE  SchedInv' /\ Reshuffled(env_status) /\ OnlyCpu(c)
<1>1. /\ env_status' = env_status /\ cpu_env' = cpu_env
      /\ cpu_mode' = [cpu_mode EXCEPT ![c] = "panic"]
  BY DEF panic, SchedInv
<1>2. /\ cpu_mode' \in [CPUs -> CpuModes]
      /\ cpu_mode'[c] = "panic"
      /\ \A d \in CPUs \ {c} : cpu_mode'[d] = cpu_mode[d]
      /\ \A d \in CPUs : Running(d)' => Running(d)
  BY <1>1 DEF SchedInv, CpuModes, Running
<1>3. IdleHasNoEnv' /\ OneCpuEach' /\ RunsLiveEnv' /\ RunningIsOnCpu'
  BY <1>1, <1>2 DEF SchedInv, IdleHasNoEnv, OneCpuEach, RunsLiveEnv, RunningIsOnCpu
<1> QED BY <1>1, <1>2, <1>3 DEF SchedInv, Reshuffled, OnlyCpu

\* sched_yield keeps the scheduling invariant.  It needs env_cpunum to be up
\* to date for curenv: otherwise the CPU would halt with curenv RUNNING.
LEMMA SchedYieldLemma ==
  ASSUME SchedInv, NEW c, NEW st, NEW now, MayYield(c, st, now),
         now \in Slots \ {0} => env_cpunum[now] = c,
         sched_yield(c, st, now)
  PROVE  SchedInv' /\ Reshuffled(st) /\ OnlyCpu(c)
<1> DEFINE startid == IF now = NoEnv THEN 0 ELSE now
<1>1. startid \in Slots /\ (startid = now \/ (startid = 0 /\ now = NoEnv))
  BY ZeroSlot DEF MayYield
<1>2. CASE \E e \in Slots : st[e] = ENV_RUNNABLE /\ env_run(c, st, now, e)
  BY <1>2, EnvRunLemma
<1>3. CASE st[startid] = ENV_RUNNING /\ env_run(c, st, now, startid)
  BY <1>1, <1>3, EnvRunLemma
<1>4. CASE ~(st[startid] = ENV_RUNNING /\ env_cpunum[startid] = c) /\ sched_halt(c, st, now)
  <2>1. now \in Slots \ {0} => st[now] # ENV_RUNNING
    BY <1>4, NoEnvNotSlot
  <2> QED BY <1>4, <2>1, SchedHaltLemma
<1> QED BY <1>2, <1>3, <1>4 DEF sched_yield

\* The end of trap() keeps the scheduling invariant.
LEMMA TrapReturnLemma ==
  ASSUME SchedInv, NEW c, NEW st, MayYield(c, st, cpu_env[c]), cpu_env[c] \in Slots,
         cpu_env[c] # 0 => env_cpunum[cpu_env[c]] = c,
         trap_return(c, st)
  PROVE  SchedInv' /\ Reshuffled(st) /\ OnlyCpu(c)
<1>1. CASE st[cpu_env[c]] = ENV_RUNNING
  BY <1>1, EnvRunLemma DEF trap_return
<1>2. CASE st[cpu_env[c]] # ENV_RUNNING
  BY <1>2, SchedYieldLemma DEF trap_return
<1> QED BY <1>1, <1>2

-------------------------------------------------------------------------------
(***************************************************************************)
(* One trap.  A handler enters with curenv RUNNING (unless it is envs[0]), *)
(* changes the status of one environment and calls the scheduler.          *)
(***************************************************************************)

\* The invariant contains its scheduling part.
LEMMA IInvSched == IInv => SchedInv
BY DEF IInv, TypeOK, SchedInv

\* With the lock free every CPU without a program has no curenv.
LEMMA LockFreeIdle ==
  ASSUME IInv, LockFree, NEW d \in CPUs, ~Running(d)
  PROVE  cpu_env[d] = NoEnv
BY DEF IInv, TypeOK, IdleHasNoEnv, LockFree, Running, CpuModes

\* What a trap finds when it has the lock.
LEMMA TrapEntry ==
  ASSUME IInv, NEW c \in CPUs, trap(c)
  PROVE  /\ MayYield(c, env_status, cpu_env[c])
         /\ cpu_env[c] \in Slots
         /\ cpu_env[c] # 0 => /\ env_status[cpu_env[c]] = ENV_RUNNING
                              /\ env_cpunum[cpu_env[c]] = c
<1>1. Running(c) /\ cpu_env[c] \in Slots /\ LockFree /\ env_status[cpu_env[c]] # ENV_DYING
  BY DEF trap, Running, IInv, TypeOK
<1>2. cpu_env[c] # 0 => env_status[cpu_env[c]] = ENV_RUNNING /\ env_cpunum[cpu_env[c]] = c
  BY <1>1 DEF IInv, RunsLiveEnv, CpunumFresh, trap
<1>3. \A d \in CPUs \ {c} : ~Running(d) => cpu_env[d] = NoEnv
  BY <1>1, LockFreeIdle
<1>4. \A d \in CPUs \ {c} : Running(d) /\ cpu_env[d] # 0
        => cpu_env[d] # cpu_env[c] /\ env_status[cpu_env[d]] \in {ENV_RUNNING, ENV_DYING}
  BY <1>1 DEF IInv, OneCpuEach, RunsLiveEnv
<1>5. \A e \in Slots \ {0} : env_status[e] \in {ENV_RUNNING, ENV_DYING}
        => (e = cpu_env[c] \/ \E d \in CPUs \ {c} : cpu_env[d] = e)
  BY DEF IInv, RunningIsOnCpu
<1> QED BY <1>1, <1>2, <1>3, <1>4, <1>5 DEF MayYield, IInv, TypeOK

\* A handler may take an environment that no other CPU runs off the CPU ...
LEMMA BlockLemma ==
  ASSUME NEW c, NEW st, NEW now, MayYield(c, st, now),
         NEW e \in Slots, NEW s \in Statuses \ {ENV_RUNNING, ENV_DYING},
         e # 0 => (e = now \/ st[e] \notin {ENV_RUNNING, ENV_DYING})
  PROVE  MayYield(c, [st EXCEPT ![e] = s], now)
BY DEF MayYield

\* ... forget about its curenv once it has done so ...
LEMMA DropLemma ==
  ASSUME SchedInv, NEW c, NEW st, NEW now, MayYield(c, st, now),
         now \in Slots \ {0} => st[now] \notin {ENV_RUNNING, ENV_DYING}
  PROVE  MayYield(c, st, NoEnv)
BY NoEnvNotSlot DEF MayYield, SchedInv

\* ... or mark a RUNNING environment of another CPU as a zombie.
LEMMA KillLemma ==
  ASSUME NEW c, NEW st, NEW now, MayYield(c, st, now),
         NEW e \in Slots, e # now, st[e] = ENV_RUNNING
  PROVE  MayYield(c, [st EXCEPT ![e] = ENV_DYING], now)
BY DEF MayYield, Statuses

\* What the handler of a trap on CPU c may have done when it calls the
\* scheduler with statuses st: it keeps zombies, unless it collects its own,
\* the identity of environments that run, and blocked receivers, unless it
\* sends to them.
Gentle(c, st) ==
  \A e \in Slots \ {0} :
    /\ env_status[e] = ENV_DYING
         => \/ st[e] = ENV_DYING
            \/ st[e] = ENV_FREE /\ cpu_mode[c] = "user" /\ cpu_env[c] = e /\ cpu_env'[c] # e
    /\ env_status[e] \in {ENV_RUNNING, ENV_DYING} => env_gen'[e] = env_gen[e]
    /\ env_ipc_recving[e] /\ env_status[e] = ENV_NOT_RUNNABLE
         => \/ st[e] = ENV_FREE
            \/ env_ipc_recving'[e] /\ st[e] = ENV_NOT_RUNNABLE
            \/ ~env_ipc_recving'[e] /\ st[e] = ENV_RUNNABLE /\ env_ipc_from'[e]

\* What a step of CPU c does to every environment but envs[0].
Calm(c) ==
  /\ \A e \in Slots \ {0} : WakesBySend(e) /\ FreesByTrap(e)
  /\ \A e \in Slots \ {0} : env_status[e] \in {ENV_RUNNING, ENV_DYING}
                              => env_gen'[e] = env_gen[e]
  /\ \A d \in CPUs \ {c} : cpu_env'[d] = cpu_env[d] /\ cpu_mode'[d] = cpu_mode[d]

\* The invariant after a step: the scheduler was called with statuses st that
\* agree with the free list and with the IPC state the handler left.
LEMMA StepLemma ==
  ASSUME IInv, NEW c \in CPUs, LockFree \/ c = 0,
         NEW st, SchedInv', Reshuffled(st), OnlyCpu(c),
         env_cpunum' = env_cpunum,
         env_gen' \in [Slots -> 0..GenMax],
         env_parent_id' \in [Slots -> EnvIds],
         env_ipc_recving' \in [Slots -> BOOLEAN],
         env_ipc_from' \in [Slots -> BOOLEAN],
         env_free_list' \in Seq(Slots),
         IsInjective(env_free_list'),
         \A e \in Slots \ {0} : e \in Range(env_free_list') <=> st[e] = ENV_FREE,
         \A e \in Slots \ {0} : env_ipc_recving'[e] /\ st[e] # ENV_FREE
                                  => st[e] = ENV_NOT_RUNNABLE /\ ~env_ipc_from'[e],
         unstarted' \in SUBSET Slots,
         \A e \in unstarted' \ {0} : st[e] = ENV_NOT_RUNNABLE /\ ~env_ipc_recving'[e],
         Gentle(c, st)
  PROVE  IInv' /\ Calm(c)
<1>1. TypeOK'
  BY DEF IInv, TypeOK, SchedInv
<1>2. BootFirst'
  <2>1. 0 \in CPUs
    BY NCPUAssumption DEF CPUs
  <2>2. cpu_mode'[0] # "boot"
    BY <2>1 DEF LockFree, OnlyCpu
  <2> QED BY <2>2 DEF BootFirst
<1>3. CpunumFresh'
  BY Zenon DEF IInv, CpunumFresh, OnlyCpu
<1>4. FreeListExact'
  BY Zenon DEF FreeListExact, Reshuffled, ENV_FREE, ENV_RUNNABLE, ENV_RUNNING
<1>5. ReceiverBlocked'
  BY Zenon DEF ReceiverBlocked, Reshuffled, ENV_FREE, ENV_RUNNABLE, ENV_RUNNING, ENV_NOT_RUNNABLE
<1>6. ChildWaits'
  BY DEF ChildWaits, Reshuffled, ENV_RUNNABLE, ENV_RUNNING, ENV_NOT_RUNNABLE
<1>7. ASSUME NEW e \in Slots \ {0} PROVE WakesBySend(e) /\ FreesByTrap(e)
  <2>1. \/ env_status'[e] = st[e]
        \/ env_status'[e] = ENV_RUNNING /\ st[e] = ENV_RUNNABLE
        \/ env_status'[e] = ENV_RUNNABLE /\ st[e] = ENV_RUNNING
    BY DEF Reshuffled
  <2>2. WakesBySend(e)
    BY <2>1, SMTT(30)
       DEF Gentle, WakesBySend, ENV_FREE, ENV_RUNNABLE, ENV_RUNNING, ENV_NOT_RUNNABLE
  <2>3. FreesByTrap(e)
    BY <2>1, SMTT(30) DEF Gentle, FreesByTrap, ENV_FREE, ENV_DYING, ENV_RUNNABLE, ENV_RUNNING
  <2> QED BY <2>2, <2>3
<1>8. Calm(c)
  BY <1>7, Zenon DEF Calm, Gentle, OnlyCpu
<1> QED BY <1>1, <1>2, <1>3, <1>4, <1>5, <1>6, <1>8 DEF IInv, SchedInv

\* The same for a step that changes nothing but statuses, frees nobody and
\* wakes neither a receiver nor a child.
LEMMA QuietLemma ==
  ASSUME IInv, NEW c \in CPUs, LockFree \/ c = 0,
         NEW st, SchedInv', Reshuffled(st), OnlyCpu(c),
         UNCHANGED <<idVars, env_cpunum, ipcVars, allocVars>>,
         \A e \in Slots \ {0} : /\ st[e] = ENV_FREE <=> env_status[e] = ENV_FREE
                                /\ env_ipc_recving[e] \/ e \in unstarted => st[e] = env_status[e]
                                /\ env_status[e] = ENV_DYING => st[e] = ENV_DYING
  PROVE  IInv' /\ Calm(c)
<1>1. /\ env_gen' = env_gen /\ env_parent_id' = env_parent_id
      /\ env_ipc_recving' = env_ipc_recving /\ env_ipc_from' = env_ipc_from
      /\ env_free_list' = env_free_list /\ env_cpunum' = env_cpunum
      /\ unstarted' = unstarted
  BY DEF idVars, ipcVars, allocVars
<1>2. \A e \in Slots \ {0} : e \in Range(env_free_list') <=> st[e] = ENV_FREE
  BY <1>1 DEF IInv, FreeListExact
<1>3. \A e \in Slots \ {0} : env_ipc_recving'[e] /\ st[e] # ENV_FREE
                               => st[e] = ENV_NOT_RUNNABLE /\ ~env_ipc_from'[e]
  BY <1>1 DEF IInv, ReceiverBlocked
<1>4. IsInjective(env_free_list')
  BY <1>1 DEF IInv, FreeListExact
<1>5. \A e \in unstarted' \ {0} : st[e] = ENV_NOT_RUNNABLE /\ ~env_ipc_recving'[e]
  BY <1>1, Zenon DEF IInv, TypeOK, ChildWaits
<1>6. Gentle(c, st)
  BY <1>1 DEF Gentle
<1> QED BY <1>1, <1>2, <1>3, <1>4, <1>5, <1>6, StepLemma, Zenon DEF IInv, TypeOK

\* A trap that calls the scheduler at once.
LEMMA PlainTrap ==
  ASSUME IInv, NEW c \in CPUs, trap(c),
         trap_return(c, env_status) \/ sched_yield(c, env_status, cpu_env[c]),
         UNCHANGED <<idVars, env_cpunum, ipcVars, allocVars>>
  PROVE  IInv' /\ Calm(c)
<1>1. SchedInv' /\ Reshuffled(env_status) /\ OnlyCpu(c)
  BY IInvSched, TrapEntry, TrapReturnLemma, SchedYieldLemma
<1> QED BY <1>1, QuietLemma, Zenon DEF trap

\* A CPU without curenv that calls sched_yield.
LEMMA IdleYield ==
  ASSUME IInv, NEW c \in CPUs, sched_yield(c, env_status, NoEnv),
         \/ LockFree /\ cpu_mode[c] \in {"boot", "halted"}
         \/ c = 0 /\ cpu_mode[c] = "boot",
         UNCHANGED <<idVars, env_cpunum, ipcVars, allocVars>>
  PROVE  IInv' /\ Calm(c)
<1>1. cpu_env[c] = NoEnv
  BY DEF IInv, IdleHasNoEnv
<1>2. \A d \in CPUs : ~Running(d) => cpu_env[d] = NoEnv
  <2>1. CASE LockFree
    BY <2>1, LockFreeIdle
  <2>2. CASE c = 0 /\ cpu_mode[c] = "boot"
    BY <2>2 DEF IInv, BootFirst, IdleHasNoEnv
  <2> QED BY <2>1, <2>2
<1>3. MayYield(c, env_status, NoEnv)
  BY <1>1, <1>2, NoEnvNotSlot
     DEF MayYield, IInv, TypeOK, OneCpuEach, RunsLiveEnv, RunningIsOnCpu
<1>4. SchedInv' /\ Reshuffled(env_status) /\ OnlyCpu(c)
  BY <1>3, IInvSched, NoEnvNotSlot, SchedYieldLemma
<1> QED BY <1>4, QuietLemma

\* The slot envid2env returns is a slot, and unless it is envs[0] it is live.
LEMMA Envid2env ==
  ASSUME IInv, NEW c \in CPUs, trap(c), NEW id \in EnvIds, NEW perm,
         envid2env(c, id, perm) # NoEnv
  PROVE  /\ envid2env(c, id, perm) \in Slots
         /\ envid2env(c, id, perm) # 0 => env_status[envid2env(c, id, perm)] # ENV_FREE
<1>1. cpu_env[c] \in Slots /\ (cpu_env[c] # 0 => env_status[cpu_env[c]] = ENV_RUNNING)
  BY TrapEntry
<1>2. id[1] \in Slots
  BY Zenon DEF EnvIds
<1> QED BY <1>1, <1>2 DEF envid2env, ENV_RUNNING, ENV_FREE

\* Linking a freed slot keeps the free list exact.
LEMMA FreeStep ==
  ASSUME IInv, NEW c \in CPUs, LockFree, NEW e \in Slots, HasPgdir(e), env_free(e),
         SchedInv', Reshuffled([env_status EXCEPT ![e] = ENV_FREE]), OnlyCpu(c),
         e # 0 /\ env_status[e] = ENV_DYING
           => cpu_mode[c] = "user" /\ cpu_env[c] = e /\ cpu_env'[c] # e
  PROVE  IInv' /\ Calm(c)
<1> DEFINE st == [env_status EXCEPT ![e] = ENV_FREE]
<1>1. /\ env_gen' = env_gen /\ env_parent_id' = env_parent_id
      /\ env_ipc_recving' = env_ipc_recving /\ env_ipc_from' = env_ipc_from
      /\ env_cpunum' = env_cpunum /\ env_free_list' = <<e>> \o env_free_list
      /\ unstarted' = unstarted \ {e}
  BY DEF env_free, idVars, ipcVars
<1>2. \A f \in Slots : st[f] = IF f = e THEN ENV_FREE ELSE env_status[f]
  BY Zenon DEF IInv, TypeOK
<1> HIDE DEF st
<1>3. /\ env_free_list' \in Seq(Slots)
      /\ IsInjective(env_free_list')
      /\ Range(env_free_list') = Range(env_free_list) \cup {e}
  <2>1. env_free_list \in Seq(Slots) /\ IsInjective(env_free_list)
    BY DEF IInv, TypeOK, FreeListExact
  <2>2. e \notin Range(env_free_list)
    BY DEF HasPgdir
  <2>3. env_free_list' = <<e>> \o env_free_list
    BY <1>1
  <2>4. /\ <<e>> \o env_free_list \in Seq(Slots)
        /\ IsInjective(<<e>> \o env_free_list)
        /\ Range(<<e>> \o env_free_list) = Range(env_free_list) \cup {e}
    <3> HIDE DEF IsInjective, Range
    <3>1. \A s \in Seq(Slots), x \in Slots : IsInjective(s) /\ x \notin Range(s) =>
            /\ <<x>> \o s \in Seq(Slots)
            /\ IsInjective(<<x>> \o s)
            /\ Range(<<x>> \o s) = Range(s) \cup {x}
      BY PushLemma
    <3> QED BY <2>1, <2>2, <3>1, Zenon
  <2> QED BY <2>3, <2>4
<1>4. \A f \in Slots \ {0} : f \in Range(env_free_list') <=> st[f] = ENV_FREE
  BY <1>2, <1>3 DEF IInv, FreeListExact
<1>5. \A f \in Slots \ {0} : env_ipc_recving'[f] /\ st[f] # ENV_FREE
                               => st[f] = ENV_NOT_RUNNABLE /\ ~env_ipc_from'[f]
  <2> SUFFICES ASSUME NEW f \in Slots \ {0}, env_ipc_recving[f], st[f] # ENV_FREE
               PROVE  st[f] = ENV_NOT_RUNNABLE /\ ~env_ipc_from[f]
    BY <1>1
  <2>1. st[f] = env_status[f]
    BY <1>2
  <2> QED BY <2>1, Zenon DEF IInv, ReceiverBlocked
<1>6. \A f \in unstarted' \ {0} : st[f] = ENV_NOT_RUNNABLE /\ ~env_ipc_recving'[f]
  BY <1>1, <1>2 DEF IInv, TypeOK, ChildWaits
<1>7. Gentle(c, st)
  BY <1>1, <1>2 DEF Gentle
<1>8. Reshuffled(st)
  BY DEF st
<1> QED BY <1>1, <1>3, <1>4, <1>5, <1>6, <1>7, <1>8, StepLemma, Zenon DEF IInv, TypeOK

\* env_destroy keeps the invariant unless its victim is a zombie already.
LEMMA DestroyStep ==
  ASSUME IInv, NEW c \in CPUs, trap(c), NEW e \in Slots,
         e # 0 => env_status[e] \notin {ENV_FREE, ENV_DYING},
         env_destroy(c, e)
  PROVE  IInv' /\ Calm(c)
<1>1. SchedInv /\ LockFree /\ env_status \in [Slots -> Statuses]
  BY IInvSched DEF trap, SchedInv
<1>2. /\ MayYield(c, env_status, cpu_env[c]) /\ cpu_env[c] \in Slots
      /\ cpu_env[c] # 0 => env_cpunum[cpu_env[c]] = c
  BY TrapEntry
<1>3. CASE env_status[e] = ENV_RUNNING /\ cpu_env[c] # e
  <2> DEFINE st == [env_status EXCEPT ![e] = ENV_DYING]
  <2>1. /\ trap_return(c, st)
        /\ UNCHANGED <<idVars, env_cpunum, ipcVars, allocVars>>
    BY <1>3 DEF env_destroy
  <2>2. SchedInv' /\ Reshuffled(st) /\ OnlyCpu(c)
    BY <1>1, <1>2, <1>3, <2>1, KillLemma, TrapReturnLemma, Zenon
  <2>3. \A f \in Slots \ {0} : /\ st[f] = ENV_FREE <=> env_status[f] = ENV_FREE
                               /\ env_ipc_recving[f] \/ f \in unstarted => st[f] = env_status[f]
                               /\ env_status[f] = ENV_DYING => st[f] = ENV_DYING
    BY <1>1, <1>3 DEF IInv, ReceiverBlocked, ChildWaits, ENV_FREE, ENV_DYING, ENV_RUNNING, ENV_NOT_RUNNABLE
  <2> QED BY <1>1, <2>1, <2>2, <2>3, QuietLemma, Zenon
<1>4. CASE ~(env_status[e] = ENV_RUNNING /\ cpu_env[c] # e) /\ ~HasPgdir(e)
  <2>1. /\ panic(c, env_status, cpu_env[c])
        /\ UNCHANGED <<idVars, env_cpunum, ipcVars, allocVars>>
    BY <1>4 DEF env_destroy
  <2> QED BY <1>1, <2>1, PanicLemma, QuietLemma
<1>5. CASE ~(env_status[e] = ENV_RUNNING /\ cpu_env[c] # e) /\ HasPgdir(e)
  <2> DEFINE st == [env_status EXCEPT ![e] = ENV_FREE]
  <2>1. /\ env_free(e)
        /\ IF cpu_env[c] = e THEN sched_yield(c, st, NoEnv) ELSE trap_return(c, st)
    BY <1>5 DEF env_destroy
  <2>2. MayYield(c, st, cpu_env[c])
    BY <1>2, <1>5, BlockLemma DEF Statuses, ENV_FREE, ENV_DYING, ENV_RUNNING
  <2>3. cpu_env[c] = e => MayYield(c, st, NoEnv)
    BY <1>1, <2>2, DropLemma, Zenon DEF ENV_FREE, ENV_DYING, ENV_RUNNING
  <2>4. SchedInv' /\ Reshuffled(st) /\ OnlyCpu(c)
    BY <1>1, <1>2, <2>1, <2>2, <2>3, NoEnvNotSlot, SchedYieldLemma, TrapReturnLemma
  <2> QED BY <1>1, <1>5, <2>1, <2>4, FreeStep, Zenon
<1> QED BY <1>3, <1>4, <1>5

\* A CPU without curenv that yields picks a RUNNABLE environment, envs[0] or
\* none.
LEMMA YieldPicks ==
  ASSUME SchedInv, NEW c \in CPUs, NEW st, sched_yield(c, st, NoEnv)
  PROVE  cpu_env'[c] \in {NoEnv, 0} \/ st[cpu_env'[c]] = ENV_RUNNABLE
<1>1. ASSUME NEW e, env_run(c, st, NoEnv, e) PROVE cpu_env'[c] = e
  BY <1>1 DEF env_run, panic, SchedInv
<1>2. ASSUME sched_halt(c, st, NoEnv) PROVE cpu_env'[c] = NoEnv
  BY <1>2 DEF sched_halt, SchedInv
<1> QED BY <1>1, <1>2 DEF sched_yield

\* The trap that finds a zombie keeps the invariant.
LEMMA ZombieStep ==
  ASSUME IInv, NEW c \in CPUs, trap_zombie(c)
  PROVE  IInv' /\ Calm(c)
<1> DEFINE e == cpu_env[c]
           st == [env_status EXCEPT ![e] = ENV_FREE]
<1>1. /\ SchedInv /\ LockFree /\ e \in Slots /\ Running(c)
      /\ env_status \in [Slots -> Statuses]
  BY IInvSched DEF trap_zombie, SchedInv, Running
<1>2. CASE ~HasPgdir(e)
  BY <1>1, <1>2, PanicLemma, QuietLemma, Zenon DEF trap_zombie
<1>3. CASE HasPgdir(e)
  <2>1. env_free(e) /\ sched_yield(c, st, NoEnv)
    BY <1>3 DEF trap_zombie
  <2>2. \A d \in CPUs \ {c} : ~Running(d) => cpu_env[d] = NoEnv
    BY <1>1, LockFreeIdle
  <2>3. st \in [Slots -> Statuses] /\ \A f \in Slots : st[f] = IF f = e THEN ENV_FREE
                                                              ELSE env_status[f]
    BY <1>1 DEF Statuses
  <2>4. \A d \in CPUs \ {c} : Running(d) /\ cpu_env[d] # 0
          => /\ cpu_env[d] # e /\ cpu_env[d] \in Slots
             /\ env_status[cpu_env[d]] \in {ENV_RUNNING, ENV_DYING}
    BY <1>1 DEF IInv, TypeOK, OneCpuEach, RunsLiveEnv
  <2>5. \A f \in Slots \ {0} : st[f] \in {ENV_RUNNING, ENV_DYING}
          => \E d \in CPUs \ {c} : cpu_env[d] = f
    BY <2>3 DEF IInv, RunningIsOnCpu, ENV_FREE, ENV_DYING, ENV_RUNNING
  <2> HIDE DEF st
  <2>6. MayYield(c, st, NoEnv)
    BY <2>2, <2>3, <2>4, <2>5, NoEnvNotSlot, Zenon DEF MayYield
  <2>7. SchedInv' /\ Reshuffled(st) /\ OnlyCpu(c)
    BY <1>1, <2>1, <2>6, NoEnvNotSlot, SchedYieldLemma
  <2>8. st[e] = ENV_FREE
    BY <1>1, <2>3
  <2>9. e # 0 => cpu_env'[c] # e
    BY <1>1, <2>1, <2>8, NoEnvNotSlot, YieldPicks, Zenon DEF ENV_FREE, ENV_RUNNABLE
  <2> QED BY <1>1, <1>3, <2>1, <2>7, <2>9, FreeStep, Zenon DEF st, trap_zombie
<1> QED BY <1>2, <1>3

\* sys_exofork keeps the invariant.
LEMMA ExoforkStep ==
  ASSUME IInv, NEW c \in CPUs, sys_exofork(c)
  PROVE  IInv' /\ Calm(c)
<1> DEFINE e == Head(env_free_list)
           st == [env_status EXCEPT ![e] = ENV_NOT_RUNNABLE]
<1>1. /\ trap(c) /\ LockFree /\ SchedInv
      /\ env_free_list # <<>> /\ env_alloc(e, env_id(cpu_env[c])) /\ trap_return(c, st)
  BY IInvSched, Zenon DEF sys_exofork, trap
<1>2. /\ MayYield(c, env_status, cpu_env[c]) /\ cpu_env[c] \in Slots
      /\ cpu_env[c] # 0 => env_cpunum[cpu_env[c]] = c
  BY <1>1, TrapEntry, Zenon
<1>3. /\ e \in Slots /\ e \in Range(env_free_list)
      /\ Tail(env_free_list) \in Seq(Slots) /\ IsInjective(Tail(env_free_list))
      /\ Range(Tail(env_free_list)) = Range(env_free_list) \ {e}
  <2>1. env_free_list \in Seq(Slots) /\ IsInjective(env_free_list)
    BY DEF IInv, TypeOK, FreeListExact
  <2> QED BY <1>1, <2>1, PopLemma
<1>4. e # 0 => env_status[e] = ENV_FREE
  BY <1>3 DEF IInv, FreeListExact
<1>5. /\ env_gen' = [env_gen EXCEPT ![e] = NextGen(e)]
      /\ env_parent_id' = [env_parent_id EXCEPT ![e] = env_id(cpu_env[c])]
      /\ env_ipc_recving' = [env_ipc_recving EXCEPT ![e] = FALSE]
      /\ env_free_list' = Tail(env_free_list) /\ unstarted' = unstarted \cup {e}
      /\ env_cpunum' = env_cpunum /\ env_ipc_from' = env_ipc_from
  BY <1>1 DEF env_alloc
<1> HIDE DEF e
<1>6. MayYield(c, st, cpu_env[c])
  BY <1>2, <1>3, <1>4, BlockLemma, Zenon
     DEF Statuses, ENV_FREE, ENV_DYING, ENV_RUNNING, ENV_NOT_RUNNABLE
<1>7. SchedInv' /\ Reshuffled(st) /\ OnlyCpu(c)
  BY <1>1, <1>2, <1>6, TrapReturnLemma
<1>8. \A f \in Slots : st[f] = IF f = e THEN ENV_NOT_RUNNABLE ELSE env_status[f]
  BY DEF IInv, TypeOK
<1> HIDE DEF st
<1>9. NextGen(e) \in 0..GenMax
  BY <1>3, GenMaxAssumption DEF NextGen, IInv, TypeOK
<1>10. env_gen' \in [Slots -> 0..GenMax]
  BY <1>5, <1>9, Zenon DEF IInv, TypeOK
<1>11. env_parent_id' \in [Slots -> EnvIds]
  BY <1>2, <1>5, Zenon DEF IInv, TypeOK, env_id, EnvIds
<1>12. env_ipc_recving' \in [Slots -> BOOLEAN] /\ ~env_ipc_recving'[e]
       /\ \A f \in Slots \ {e} : env_ipc_recving'[f] = env_ipc_recving[f]
  BY <1>3, <1>5 DEF IInv, TypeOK
<1>13. \A f \in Slots \ {0} : f \in Range(env_free_list') <=> st[f] = ENV_FREE
  BY <1>3, <1>5, <1>8 DEF IInv, FreeListExact, ENV_FREE, ENV_NOT_RUNNABLE
<1>14. \A f \in Slots \ {0} : env_ipc_recving'[f] /\ st[f] # ENV_FREE
                               => st[f] = ENV_NOT_RUNNABLE /\ ~env_ipc_from'[f]
  BY <1>5, <1>8, <1>12, Zenon DEF IInv, ReceiverBlocked
<1>15. /\ unstarted' \in SUBSET Slots
       /\ \A f \in unstarted' \ {0} : st[f] = ENV_NOT_RUNNABLE /\ ~env_ipc_recving'[f]
  BY <1>3, <1>5, <1>8, <1>12, Zenon DEF IInv, TypeOK, ChildWaits
<1>16. Gentle(c, st)
  BY <1>4, <1>5, <1>8, <1>12, Zenon
     DEF Gentle, IInv, TypeOK, ENV_FREE, ENV_DYING, ENV_RUNNING, ENV_NOT_RUNNABLE
<1> QED BY <1>1, <1>3, <1>5, <1>7, <1>10, <1>11, <1>12, <1>13, <1>14, <1>15, <1>16, StepLemma, Zenon
        DEF IInv, TypeOK

\* sys_ipc_recv keeps the invariant.
LEMMA RecvStep ==
  ASSUME IInv, NEW c \in CPUs, sys_ipc_recv(c)
  PROVE  IInv' /\ Calm(c)
<1> DEFINE e == cpu_env[c]
           st == [env_status EXCEPT ![e] = ENV_NOT_RUNNABLE]
<1>1. /\ trap(c) /\ LockFree /\ SchedInv /\ sched_yield(c, st, e)
      /\ env_ipc_recving' = [env_ipc_recving EXCEPT ![e] = TRUE]
      /\ env_ipc_from' = [env_ipc_from EXCEPT ![e] = FALSE]
      /\ env_gen' = env_gen /\ env_parent_id' = env_parent_id
      /\ env_cpunum' = env_cpunum /\ env_free_list' = env_free_list
      /\ unstarted' = unstarted
  BY IInvSched, Zenon DEF sys_ipc_recv, trap, idVars, allocVars
<1>2. /\ MayYield(c, env_status, e) /\ e \in Slots
      /\ e # 0 => env_status[e] = ENV_RUNNING /\ env_cpunum[e] = c
  BY <1>1, TrapEntry
<1>3. MayYield(c, st, e)
  BY <1>2, BlockLemma, Zenon DEF Statuses, ENV_FREE, ENV_DYING, ENV_RUNNING, ENV_NOT_RUNNABLE
<1>4. SchedInv' /\ Reshuffled(st) /\ OnlyCpu(c)
  BY <1>1, <1>2, <1>3, SchedYieldLemma
<1>5. \A f \in Slots : st[f] = IF f = e THEN ENV_NOT_RUNNABLE ELSE env_status[f]
  BY DEF IInv, TypeOK
<1> HIDE DEF e, st
<1>6. /\ env_ipc_recving' \in [Slots -> BOOLEAN] /\ env_ipc_from' \in [Slots -> BOOLEAN]
      /\ ~env_ipc_from'[e]
      /\ \A f \in Slots \ {e} : /\ env_ipc_recving'[f] = env_ipc_recving[f]
                                /\ env_ipc_from'[f] = env_ipc_from[f]
  BY <1>1, <1>2 DEF IInv, TypeOK
<1>7. \A f \in Slots \ {0} : f \in Range(env_free_list') <=> st[f] = ENV_FREE
  BY <1>1, <1>2, <1>5, Zenon DEF IInv, FreeListExact, ENV_FREE, ENV_NOT_RUNNABLE, ENV_RUNNING
<1>8. \A f \in Slots \ {0} : env_ipc_recving'[f] /\ st[f] # ENV_FREE
                               => st[f] = ENV_NOT_RUNNABLE /\ ~env_ipc_from'[f]
  BY <1>5, <1>6 DEF IInv, ReceiverBlocked
<1>9. IsInjective(env_free_list')
  BY <1>1 DEF IInv, FreeListExact
<1>10. \A f \in unstarted' \ {0} : st[f] = ENV_NOT_RUNNABLE /\ ~env_ipc_recving'[f]
  BY <1>1, <1>2, <1>5, <1>6 DEF IInv, TypeOK, ChildWaits, ENV_NOT_RUNNABLE, ENV_RUNNING
<1>11. Gentle(c, st)
  BY <1>1, <1>2, <1>5, <1>6, Zenon DEF Gentle, ENV_DYING, ENV_RUNNING, ENV_NOT_RUNNABLE
<1> QED BY <1>1, <1>4, <1>6, <1>7, <1>8, <1>9, <1>10, <1>11, StepLemma, Zenon DEF IInv, TypeOK

\* A successful sys_ipc_try_send keeps the invariant.
LEMMA SendStep ==
  ASSUME IInv, NEW c \in CPUs, NEW id \in EnvIds, sys_ipc_try_send(c, id)
  PROVE  IInv' /\ Calm(c)
<1> DEFINE e == envid2env(c, id, FALSE)
           st == [env_status EXCEPT ![e] = ENV_RUNNABLE]
<1>1. /\ trap(c) /\ LockFree /\ SchedInv /\ e # NoEnv /\ trap_return(c, st)
      /\ env_ipc_recving[e]
      /\ env_ipc_recving' = [env_ipc_recving EXCEPT ![e] = FALSE]
      /\ env_ipc_from' = [env_ipc_from EXCEPT ![e] = TRUE]
      /\ env_gen' = env_gen /\ env_parent_id' = env_parent_id
      /\ env_cpunum' = env_cpunum /\ env_free_list' = env_free_list
      /\ unstarted' = unstarted
  BY IInvSched, Zenon DEF sys_ipc_try_send, trap, idVars, allocVars
<1>2. /\ MayYield(c, env_status, cpu_env[c]) /\ cpu_env[c] \in Slots
      /\ cpu_env[c] # 0 => env_cpunum[cpu_env[c]] = c
  BY <1>1, TrapEntry
<1>3. e \in Slots /\ (e # 0 => env_status[e] = ENV_NOT_RUNNABLE)
  BY <1>1, Envid2env, Zenon DEF IInv, ReceiverBlocked
<1> HIDE DEF e
<1>4. MayYield(c, st, cpu_env[c])
  BY <1>2, <1>3, BlockLemma
     DEF Statuses, ENV_FREE, ENV_DYING, ENV_RUNNING, ENV_NOT_RUNNABLE, ENV_RUNNABLE
<1>5. SchedInv' /\ Reshuffled(st) /\ OnlyCpu(c)
  BY <1>1, <1>2, <1>4, TrapReturnLemma
<1>6. \A f \in Slots : st[f] = IF f = e THEN ENV_RUNNABLE ELSE env_status[f]
  BY DEF IInv, TypeOK
<1> HIDE DEF st
<1>7. /\ env_ipc_recving' \in [Slots -> BOOLEAN] /\ env_ipc_from' \in [Slots -> BOOLEAN]
      /\ ~env_ipc_recving'[e]
      /\ \A f \in Slots \ {e} : /\ env_ipc_recving'[f] = env_ipc_recving[f]
                                /\ env_ipc_from'[f] = env_ipc_from[f]
  BY <1>1, <1>3 DEF IInv, TypeOK
<1>8. \A f \in Slots \ {0} : f \in Range(env_free_list') <=> st[f] = ENV_FREE
  BY <1>1, <1>3, <1>6 DEF IInv, FreeListExact, ENV_FREE, ENV_NOT_RUNNABLE, ENV_RUNNABLE
<1>9. \A f \in Slots \ {0} : env_ipc_recving'[f] /\ st[f] # ENV_FREE
                               => st[f] = ENV_NOT_RUNNABLE /\ ~env_ipc_from'[f]
  BY <1>6, <1>7 DEF IInv, ReceiverBlocked
<1>10. IsInjective(env_free_list')
  BY <1>1, Zenon DEF IInv, FreeListExact
<1>11. \A f \in unstarted' \ {0} : st[f] = ENV_NOT_RUNNABLE /\ ~env_ipc_recving'[f]
  <2>1. /\ unstarted \subseteq Slots
        /\ \A f \in unstarted \ {0} : env_status[f] = ENV_NOT_RUNNABLE /\ ~env_ipc_recving[f]
    BY DEF IInv, TypeOK, ChildWaits
  <2>2. e \notin unstarted \ {0}
    BY <1>1, <2>1
  <2> QED BY <1>1, <1>6, <1>7, <2>1, <2>2
<1>12. env_ipc_from'[e]
  BY <1>1, <1>3, Zenon DEF IInv, TypeOK
<1>13. Gentle(c, st)
  BY <1>1, <1>3, <1>6, <1>7, <1>12, Zenon DEF Gentle, ENV_DYING, ENV_NOT_RUNNABLE
<1> QED BY <1>1, <1>5, <1>7, <1>8, <1>9, <1>10, <1>11, <1>13, StepLemma, Zenon DEF IInv, TypeOK

\* Starting a child (fork, spawn) keeps the invariant.
LEMMA StartStep ==
  ASSUME IInv, NEW c \in CPUs, NEW id \in EnvIds, lib_start_child(c, id)
  PROVE  IInv' /\ Calm(c)
<1> DEFINE e == envid2env(c, id, TRUE)
           st == [env_status EXCEPT ![e] = ENV_RUNNABLE]
<1>1. /\ trap(c) /\ LockFree /\ SchedInv /\ e \in unstarted /\ trap_return(c, st)
      /\ env_gen' = env_gen /\ env_parent_id' = env_parent_id
      /\ env_ipc_recving' = env_ipc_recving /\ env_ipc_from' = env_ipc_from
      /\ env_cpunum' = env_cpunum /\ env_free_list' = env_free_list
      /\ unstarted' = unstarted \ {e}
  BY IInvSched, Zenon DEF lib_start_child, sys_env_set_status, trap, idVars, ipcVars
<1>2. /\ MayYield(c, env_status, cpu_env[c]) /\ cpu_env[c] \in Slots
      /\ cpu_env[c] # 0 => env_cpunum[cpu_env[c]] = c
  BY <1>1, TrapEntry
<1>3. e \in Slots /\ (e # 0 => env_status[e] = ENV_NOT_RUNNABLE /\ ~env_ipc_recving[e])
  BY <1>1, Zenon DEF IInv, TypeOK, ChildWaits
<1> HIDE DEF e
<1>4. MayYield(c, st, cpu_env[c])
  BY <1>2, <1>3, BlockLemma
     DEF Statuses, ENV_FREE, ENV_DYING, ENV_RUNNING, ENV_NOT_RUNNABLE, ENV_RUNNABLE
<1>5. SchedInv' /\ Reshuffled(st) /\ OnlyCpu(c)
  BY <1>1, <1>2, <1>4, TrapReturnLemma, Zenon
<1>6. \A f \in Slots : st[f] = IF f = e THEN ENV_RUNNABLE ELSE env_status[f]
  BY DEF IInv, TypeOK
<1> HIDE DEF st
<1>7. \A f \in Slots \ {0} : f \in Range(env_free_list') <=> st[f] = ENV_FREE
  BY <1>1, <1>3, <1>6, Zenon DEF IInv, FreeListExact, ENV_FREE, ENV_NOT_RUNNABLE, ENV_RUNNABLE
<1>8. \A f \in Slots \ {0} : env_ipc_recving'[f] /\ st[f] # ENV_FREE
                               => st[f] = ENV_NOT_RUNNABLE /\ ~env_ipc_from'[f]
  BY <1>1, <1>3, <1>6, Zenon DEF IInv, ReceiverBlocked
<1>9. \A f \in unstarted' \ {0} : st[f] = ENV_NOT_RUNNABLE /\ ~env_ipc_recving'[f]
  BY <1>1, <1>6 DEF IInv, TypeOK, ChildWaits
<1>10. IsInjective(env_free_list')
  BY <1>1 DEF IInv, FreeListExact
<1>11. Gentle(c, st)
  BY <1>1, <1>3, <1>6 DEF Gentle, ENV_DYING, ENV_NOT_RUNNABLE
<1> QED BY <1>1, <1>5, <1>7, <1>8, <1>9, <1>10, <1>11, StepLemma, Zenon DEF IInv, TypeOK

\* The store of env_cpunum and the iret keep the invariant, without the lock.
LEMMA PopStep ==
  ASSUME IInv, NEW c \in CPUs, env_pop_tf(c)
  PROVE  IInv' /\ Calm(c)
<1>1. /\ cpu_mode[c] = "pop" /\ Running(c)
      /\ env_cpunum' = [env_cpunum EXCEPT ![cpu_env[c]] = c]
      /\ cpu_mode' = [cpu_mode EXCEPT ![c] = "user"]
      /\ env_status' = env_status /\ cpu_env' = cpu_env
      /\ env_gen' = env_gen /\ env_parent_id' = env_parent_id
      /\ env_ipc_recving' = env_ipc_recving /\ env_ipc_from' = env_ipc_from
      /\ env_free_list' = env_free_list /\ unstarted' = unstarted
  BY DEF env_pop_tf, Running, idVars, ipcVars, allocVars
<1>2. cpu_env[c] \in Slots
  BY <1>1 DEF IInv, TypeOK
<1>3. /\ cpu_mode' \in [CPUs -> CpuModes] /\ cpu_mode'[c] = "user"
      /\ env_cpunum' \in [Slots -> CPUs] /\ env_cpunum'[cpu_env[c]] = c
      /\ \A d \in CPUs \ {c} : cpu_mode'[d] = cpu_mode[d]
      /\ \A e \in Slots \ {cpu_env[c]} : env_cpunum'[e] = env_cpunum[e]
  BY <1>1, <1>2 DEF IInv, TypeOK, CpuModes
<1>4. \A d \in CPUs : Running(d)' <=> Running(d)
  BY <1>1, <1>3, Zenon DEF Running
<1>5. TypeOK'
  BY <1>1, <1>3, <1>4, Zenon DEF IInv, TypeOK
<1>6. IdleHasNoEnv' /\ BootFirst'
  <2>1. 0 \in CPUs
    BY NCPUAssumption DEF CPUs
  <2> QED BY <1>1, <1>3, <2>1 DEF IInv, IdleHasNoEnv, BootFirst
<1>7. OneCpuEach' /\ RunsLiveEnv' /\ RunningIsOnCpu'
  BY <1>1, <1>4 DEF IInv, OneCpuEach, RunsLiveEnv, RunningIsOnCpu
<1>8. CpunumFresh'
  <2> SUFFICES ASSUME NEW d \in CPUs, cpu_mode'[d] = "user", cpu_env[d] # 0
               PROVE  env_cpunum'[cpu_env[d]] = d
    BY <1>1 DEF CpunumFresh
  <2>1. CASE d = c
    BY <2>1, <1>3
  <2>2. CASE d # c
    <3>1. cpu_mode[d] = "user" /\ Running(d)
      BY <1>3, <2>2 DEF Running
    <3>2. cpu_env[d] # cpu_env[c] /\ cpu_env[d] \in Slots
      BY <1>1, <2>2, <3>1 DEF IInv, TypeOK, OneCpuEach
    <3> QED BY <1>3, <3>1, <3>2 DEF IInv, CpunumFresh
  <2> QED BY <2>1, <2>2
<1>9. FreeListExact' /\ ReceiverBlocked' /\ ChildWaits'
  BY <1>1 DEF IInv, FreeListExact, ReceiverBlocked, ChildWaits
<1>10. Calm(c)
  BY <1>1, <1>3 DEF Calm, WakesBySend, FreesByTrap
<1> QED BY <1>5, <1>6, <1>7, <1>8, <1>9, <1>10 DEF IInv

-------------------------------------------------------------------------------
(***************************************************************************)
(* The theorems.                                                           *)
(***************************************************************************)

\* The state i386_init sets up satisfies the invariant.
LEMMA InitIInv == Init => IInv
<1> SUFFICES ASSUME Init PROVE IInv
  OBVIOUS
<1>1. \A c \in CPUs : cpu_mode[c] = "boot" /\ cpu_env[c] = NoEnv /\ ~Running(c)
  BY DEF Init, Running
<1>2. \A e \in Slots : /\ env_status[e] = IF e < InitEnvs THEN ENV_RUNNABLE ELSE ENV_FREE
                       /\ ~env_ipc_recving[e]
  BY DEF Init
<1>3. /\ NENV \in Nat /\ InitEnvs \in 1..NENV
      /\ env_free_list = [i \in 1..(NENV - InitEnvs) |-> InitEnvs + i - 1]
  BY NENVAssumption, InitEnvsAssumption DEF Init
<1>4. /\ env_free_list \in Seq(Slots)
      /\ DOMAIN env_free_list = 1..(NENV - InitEnvs)
      /\ \A i \in 1..(NENV - InitEnvs) : env_free_list[i] = InitEnvs + i - 1
  BY <1>3 DEF Slots
<1>5. 0 \in CPUs /\ 0 \in 0..GenMax /\ 1 \in 0..GenMax /\ NullId \in EnvIds
  BY NCPUAssumption, GenMaxAssumption, ZeroSlot DEF CPUs, NullId, EnvIds
<1>6. TypeOK
  BY <1>1, <1>4, <1>5 DEF Init, TypeOK, Statuses, CpuModes
<1>7. FreeListExact
  <2>1. IsInjective(env_free_list)
    BY <1>3, <1>4 DEF IsInjective
  <2>2. ASSUME NEW e \in Slots \ {0}
        PROVE  e \in Range(env_free_list) <=> env_status[e] = ENV_FREE
    <3>1. CASE e < InitEnvs
      BY <1>2, <1>3, <1>4, <3>1 DEF Range, Slots, ENV_FREE, ENV_RUNNABLE
    <3>2. CASE ~(e < InitEnvs)
      <4>1. e - InitEnvs + 1 \in 1..(NENV - InitEnvs)
        BY <1>3, <3>2 DEF Slots
      <4>2. env_free_list[e - InitEnvs + 1] = e
        BY <1>3, <1>4, <4>1 DEF Slots
      <4> QED BY <1>2, <1>4, <3>2, <4>1, <4>2 DEF Range
    <3> QED BY <3>1, <3>2
  <2> QED BY <2>1, <2>2 DEF FreeListExact
<1>8. IdleHasNoEnv /\ BootFirst /\ CpunumFresh /\ OneCpuEach /\ RunsLiveEnv
  BY <1>1 DEF IdleHasNoEnv, BootFirst, CpunumFresh, OneCpuEach, RunsLiveEnv
<1>9. RunningIsOnCpu /\ ReceiverBlocked /\ ChildWaits
  BY <1>2 DEF Init, RunningIsOnCpu, ReceiverBlocked, ChildWaits, ENV_RUNNABLE, ENV_FREE, ENV_RUNNING, ENV_DYING
<1> QED BY <1>6, <1>7, <1>8, <1>9 DEF IInv

\* Every step of every CPU keeps the invariant, zombies and receivers.
LEMMA CpuStep ==
  ASSUME IInv, NEW c \in CPUs,
         \/ KernelNext(c)
         \/ \E id \in EnvIds : lib_start_child(c, id)
         \/ \E id \in EnvIds : lib_env_destroy(c, id)
  PROVE  IInv' /\ Calm(c)
<1>1. CASE trap_zombie(c)
  BY <1>1, ZombieStep
<1>2. CASE trap_other(c)
  BY <1>2, PlainTrap DEF trap_other
<1>3. CASE trap_clock(c)
  BY <1>3, PlainTrap DEF trap_clock
<1>4. CASE trap_halted(c)
  BY <1>4, IdleYield DEF trap_halted
<1>5. CASE trap_fault(c)
  <2>1. /\ trap(c) /\ env_destroy(c, cpu_env[c]) /\ cpu_env[c] \in Slots
        /\ cpu_env[c] # 0 => env_status[cpu_env[c]] = ENV_RUNNING
    BY <1>5, TrapEntry DEF trap_fault
  <2> QED BY <2>1, DestroyStep, Zenon DEF ENV_FREE, ENV_DYING, ENV_RUNNING
<1>6. CASE i386_init(c)
  BY <1>6, IdleYield DEF i386_init
<1>7. CASE mp_main(c)
  BY <1>7, IdleYield DEF mp_main
<1>8. CASE env_pop_tf(c)
  BY <1>8, PopStep
<1>9. CASE sys_yield(c)
  BY <1>9, PlainTrap DEF sys_yield
<1>10. CASE sys_exofork(c)
  BY <1>10, ExoforkStep
<1>11. CASE sys_ipc_recv(c)
  BY <1>11, RecvStep
<1>12. CASE \E id \in EnvIds : sys_ipc_try_send(c, id)
  BY <1>12, SendStep
<1>13. CASE \E id \in EnvIds : lib_start_child(c, id)
  BY <1>13, StartStep
<1>14. CASE \E id \in EnvIds : lib_env_destroy(c, id)
  <2>1. PICK id \in EnvIds : lib_env_destroy(c, id)
    BY <1>14
  <2> DEFINE e == envid2env(c, id, TRUE)
  <2>2. /\ trap(c) /\ e # NoEnv /\ env_status[e] # ENV_DYING /\ env_destroy(c, e)
    BY <2>1, Zenon DEF lib_env_destroy, sys_env_destroy
  <2>3. e \in Slots /\ (e # 0 => env_status[e] # ENV_FREE)
    BY <2>2, Envid2env, Zenon
  <2> QED BY <2>2, <2>3, DestroyStep, Zenon
<1> QED BY <1>1, <1>2, <1>3, <1>4, <1>5, <1>6, <1>7, <1>8, <1>9, <1>10, <1>11, <1>12, <1>13, <1>14
        DEF KernelNext

\* Every step keeps the invariant.
LEMMA NextIInv == IInv /\ [Next]_vars => IInv'
<1> SUFFICES ASSUME IInv, [Next]_vars PROVE IInv'
  OBVIOUS
<1>1. CASE Next
  BY <1>1, CpuStep DEF Next
<1>2. CASE UNCHANGED vars
  BY <1>2 DEF vars, schedVars, idVars, ipcVars, allocVars, ChildWaits, IInv, TypeOK, IdleHasNoEnv,
     BootFirst, CpunumFresh, OneCpuEach, RunsLiveEnv, RunningIsOnCpu, FreeListExact,
     ReceiverBlocked, Running
<1> QED BY <1>1, <1>2

\* The invariant holds in every state of every behaviour.
THEOREM Invariance == Spec => []IInv
BY InitIInv, NextIInv, PTL DEF Spec

\* Every variable keeps its type, and no CPU enters trap() from user mode
\* without a curenv.
THEOREM TypeCorrect == Spec => []TypeOK
<1>1. IInv => TypeOK
  BY DEF IInv
<1> QED BY <1>1, Invariance, PTL

\* No environment but envs[0] runs on two CPUs (sched_yield, env_run).
THEOREM Exclusion == Spec => []OneCpuEach
<1>1. IInv => OneCpuEach
  BY DEF IInv
<1> QED BY <1>1, Invariance, PTL

\* A CPU in user mode runs an environment that is alive: nobody frees or
\* reuses the slot of a program that is running elsewhere (env_destroy).
THEOREM RunsLive == Spec => []RunsLiveEnv
<1>1. IInv => RunsLiveEnv
  BY DEF IInv
<1> QED BY <1>1, Invariance, PTL

\* No RUNNING or DYING environment is lost to every CPU, because env_cpunum
\* is up to date for the programs that run.
THEOREM NobodyLost == Spec => [](RunningIsOnCpu /\ CpunumFresh)
<1>1. IInv => RunningIsOnCpu /\ CpunumFresh
  BY DEF IInv
<1> QED BY <1>1, Invariance, PTL

\* The free list links the free slots, each exactly once.
THEOREM FreeList == Spec => []FreeListExact
<1>1. IInv => FreeListExact
  BY DEF IInv
<1> QED BY <1>1, Invariance, PTL

\* A receiver stays blocked, with no sender recorded, until a send wakes it.
THEOREM Receivers == Spec => []ReceiverBlocked
<1>1. IInv => ReceiverBlocked
  BY DEF IInv
<1> QED BY <1>1, Invariance, PTL

\* A blocked receiver is woken by a send and by nothing else.
THEOREM Wakeups == Spec => WokenBySendOnly
<1>1. IInv /\ [Next]_vars => [\A e \in Slots \ {0} : WakesBySend(e)]_vars
  BY CpuStep, Zenon DEF Next, Calm
<1> QED BY <1>1, Invariance, PTL DEF Spec, WokenBySendOnly

\* A zombie is freed by the next trap of its own CPU and by nothing else.
THEOREM Zombies == Spec => ZombieFreedByItsTrap
<1>1. IInv /\ [Next]_vars => [\A e \in Slots \ {0} : FreesByTrap(e)]_vars
  BY CpuStep DEF Next, Calm
<1> QED BY <1>1, Invariance, PTL DEF Spec, ZombieFreedByItsTrap

\* Between unlock_kernel() and the iret the environment stays the same one.
THEOREM PopWindow == Spec => PopWindowStable
<1>1. IInv /\ IInv' /\ [Next]_vars => [\A c \in CPUs : PopsSafely(c)]_vars
  <2> SUFFICES ASSUME IInv, IInv', Next,
                      NEW p \in CPUs, cpu_mode[p] = "pop", cpu_env[p] # 0
               PROVE  /\ env_gen'[cpu_env[p]] = env_gen[cpu_env[p]]
                      /\ env_status'[cpu_env[p]] \in {env_status[cpu_env[p]], ENV_DYING}
    BY DEF PopsSafely
  <2> DEFINE e == cpu_env[p]
  <2>1. e \in Slots \ {0} /\ env_status[e] \in {ENV_RUNNING, ENV_DYING} /\ Running(p)
    BY DEF IInv, TypeOK, RunsLiveEnv, Running
  <2>2. PICK c \in CPUs : \/ KernelNext(c)
                          \/ \E id \in EnvIds : lib_start_child(c, id)
                          \/ \E id \in EnvIds : lib_env_destroy(c, id)
    BY Zenon DEF Next
  <2>3. Calm(c)
    BY <2>2, CpuStep, Zenon
  <2>4. env_gen'[e] = env_gen[e]
    BY <2>1, <2>3, Zenon DEF Calm
  <2>5. CASE c = p
    <3>1. env_pop_tf(c)
      BY <2>2, <2>5, Zenon DEF KernelNext, trap_zombie, trap_other, trap_clock, trap_halted, trap_fault,
         i386_init, mp_main, sys_yield, sys_exofork, sys_ipc_recv, sys_ipc_try_send,
         lib_start_child, lib_env_destroy, trap
    <3> QED BY <2>4, <3>1, Zenon DEF env_pop_tf
  <2>6. CASE c # p
    <3>1. cpu_env'[p] = e /\ Running(p)'
      BY <2>1, <2>3, <2>6, Zenon DEF Calm, Running
    <3>2. env_status'[e] \in {ENV_RUNNING, ENV_DYING}
      BY <2>1, <3>1, Zenon DEF IInv, RunsLiveEnv
    <3>3. env_status[e] = ENV_DYING => env_status'[e] = ENV_DYING
      BY <2>1, <2>3, <3>2 DEF Calm, FreesByTrap, ENV_FREE, ENV_DYING, ENV_RUNNING
    <3> QED BY <2>1, <2>4, <3>2, <3>3, Zenon
  <2> QED BY <2>5, <2>6
<1> QED BY <1>1, Invariance, PTL DEF Spec, PopWindowStable
===============================================================================
