# Two teaching kernels in TLA+: models, checks and proofs

The subject is the two complete kernels of `src/xv6-rev11/`: JOS in `lab6-net/`,
the last and most complete state of the JOS labs in this repository, with its
user library, file server and network server; and xv6 in `expansion/`. JOS is an
exokernel: the kernel offers environments, pages and a rendezvous IPC; files,
pipes, sockets, `fork` and `spawn` are built on top of them in user space. xv6
is a monolithic Unix with fine-grained locks and a file system with a redo log.
The hard parts are where things meet: several CPUs, programs that die
at any point, pages shared by count, servers reached by messages, and a disk
that outlives a crash.

## The parts and how they interact

| Part | Code | Module |
|---|---|---|
| environments and scheduler | `kern/env.c`, `kern/sched.c` | `JosEnv` |
| trap path, big kernel lock, start of the CPUs | `kern/trap.c`, `kern/spinlock.c`, `kern/init.c` | `JosEnv` (page-fault frames and the spin loop left out) |
| physical pages, page tables | `kern/pmap.c`, address spaces in `kern/env.c` | `JosMem` (below `UTOP`) |
| system calls | `kern/syscall.c` | `JosEnv`, `JosMem`, `JosIpc`, `JosNet` |
| IPC and the calls to the file server | `kern/syscall.c`, `lib/ipc.c`, `lib/file.c`, `fs/serv.c` | `JosIpc`, `JosRpc` |
| pipes, `dup`, `close`, `fork` of shared pages | `lib/pipe.c`, `lib/fd.c`, `lib/fork.c` | `JosPipe` |
| blocks and block cache of the file server | `fs/fs.c`, `fs/bc.c` | `JosFs` |
| network server, its helpers, E1000 driver | `net/`, `lib/nsipc.c`, `kern/e1000.c` | `JosNet` |
| xv6: processes, sleep and wakeup, schedulers | `proc.c`, `trap.c` | `XvProc` |
| xv6: log and buffer cache | `log.c`, `bio.c` | `XvLog`, `XvTxn` |

Paths are below `lab6-net/`, and for xv6 below `expansion/`.

How the parts of JOS meet: a program runs on a CPU until it traps; `trap()` takes the
big kernel lock and keeps it until `env_run()` or `sched_halt()` gives it back.
So **a trap or a system call is one atomic step** in every module, and what
happens outside the lock (the end of `env_pop_tf`, user instructions, the gaps
between two system calls of one library function) is a step of its own.
In xv6 **a critical section under a spin lock is one step**; where the lock is
handed over in the middle (`ptable.lock` across `swtch`) there are two, and a
disk write is a step of its own.

## Modules

### JosEnv: environments on several CPUs

`env_status`, `env_cpunum`, `env_parent_id` and the IPC flags are those of
`struct Env`; an envid is a slot and a generation; `cpu_env[c]` is `curenv` of
CPU `c` and `cpu_mode[c]` says where the CPU is (boot, window between unlock and
`iret`, user, halted, monitor, panic). One action per trap: clock, other
interrupt, fault, the system calls, the trap of a zombie, the wake-up of a
halted CPU, the start of each CPU, and `env_pop_tf` after the lock is released.
`sched_yield` is translated with its search order and its fallback.

`Next` restricts two calls to the way `lib/` makes them (`lib_start_child`,
`lib_env_destroy`: a child is started once, by the parent that made it, and
nobody destroys an environment twice). `AnyNext` lifts the restriction.

`envs[0]` is excepted in most properties: for it the code does not keep them
(finding `env_two_cpus`).

### JosMem: pages, page tables, reference counts

A directory and a table are physical pages, so entries live in pages:
`pte[<<p, i>>]`. `page_insert`, `page_remove`, `page_decref`, `pgdir_walk` keep
the code's order (the new page is counted before the old one is removed).
Actions are the page system calls, page transfer by IPC, `sys_exofork`,
destruction, and a user's store. Contents are abstracted to "dirty". `pp_ref`
keeps its width: it wraps at `RefMod`.

Addresses are below `UTOP`. A message that arrives at `UTOP` itself is in
`JosIpc`.

### JosIpc and JosRpc: IPC and the calls to the file server

`sys_ipc_try_send` and `sys_ipc_recv`, the library's `ipc_send` and `ipc_recv`,
`fsipc` and its callers, and the loop of `serve()`. A program's position is
`pc`; a try of `ipc_send` that finds the receiver busy changes nothing and is a
stuttering step. `cow` says whether a client's `fsipcbuf` is copy-on-write,
which decides whether it can be sent writable. With `MayDie`, clients are
destroyed anywhere and `page_insert` may find no memory; `ipc_send` then
panics, in the client or in the server.

`JosRpc` is what a caller may rely on: call, served once from the caller's
page, return of that answer. `CallsAnswered` says that `JosIpc` implements it;
the mapping `Phase` calls a request served when the handler has run.

`AnySpec` adds programs that send the server a value without a page.

### JosPipe: one pipe

A pipe is three pages: an `Fd` page for each end and a data page that every
descriptor of either end maps too. Whether the other end is open is read off
the reference counts, one after the other, while other environments `dup`,
`close`, `fork` and `exit`, each of which changes the counts one page at a time.
`fd[e][i]` and `data[e]` are the mappings of environment `e`; the counts are the
cardinalities `FdRefs` and `DataRefs`. A system call or an access to a shared
page is one step, and `env_run` may come between any two; `ran` says that
`env_runs` has changed since `_pipeisclosed` read it. One reader and one writer
work at a time (`Alone`), as in every program of the repository. `PTE_SHARE`
pages are all that is modelled of `fork`, in the order of its loop; a `fork`
that runs out of memory is left out. C leaves the order of the two `pageref`
calls open; the model has the order of the source.

### JosFs: blocks of the file server, with crashes

`mem` and `disk` are two images of the same things: the bitmap, the `File`
structures and the indirect blocks. Nothing is written until `flush_block`, so
the steps end at the calls of `flush_block`, and `crash` (after which `fs_init`
reads the disk again) may come between any two. `alloc_block` takes the lowest
free block and flushes the bitmap; `file_block_walk`, `file_get_block`,
`file_truncate_blocks`, `file_set_size`, `file_flush` and `fs_sync` follow the
code. A `file_write` past the end is `file_set_size` and then the blocks it
needs. Sizes count blocks, and contents of data blocks are left out.

Two states are excepted from the properties. `cut` holds the files that were cut
short inside their indirect block and not flushed since: `file_set_size` does
not flush the indirect block, so until the next flush its slots on disk name
blocks that may have been handed out again, and a crash makes that permanent.
`NoFile \in cut` records such a crash; `MCJosFs` does not explore further
(`Undamaged`).

### JosNet: network server, driver and card

The two rings with head, tail and descriptor-done bits, from the state the init
functions leave; the card (external) owns the descriptors from head to tail, and
a frame may come with errors. `input` polls and sends its one page, `output` takes
a page and tries until the ring accepts it, the timer rings whenever it likes.

`buse` is the code's; `va` is the buffer of the main thread, `page[i]` whose page
is mapped at buffer `i`, and `threads` the pairs of a requester and the buffer its
`serve_thread` works in: a client, a packet, a packet that waits for a slot of
the mailbox (`"post"`), or a request without a page that got a thread (`"stray"`).
Threads run only while the main thread does not wait in `ipc_recv`. `serve_request`
has the three ends of the code: a thread, no thread (the result of `thread_create`
is not tested: the buffer stays in use and nobody answers), and the panic without
memory for the arguments. `perm` is `env_ipc_perm` of the server, which the kernel
does not clear for a message without a page: until the first page such a request
is left hanging with its buffer in use (`serve_hanging`), and afterwards it gets a
thread (`serve_stray`), which faults unless its request code is unknown. Clients
exit at any time; the answer to one that is gone is a panic of `ipc_send`. The main
thread goes back to `ipc_recv` when the new thread has had its turn and no other
is to be woken, or after 32 yields, so `serve_loop` does not wait for threads that
could go on. `mbox` counts the messages in the mailbox of the socket the packets
are for. There is no clock: every delay ends at any time. A message is one step
here; `JosIpc` has its parts.

### XvProc: processes of xv6

`struct proc` as functions over the slots of the table, `cpu->proc`, and `lock`:
the CPU that holds `ptable.lock` across `swtch`. `sched`, `sleep`, `wait`,
`exit`, `kill`, `fork` and `scheduler` follow `proc.c`, including the writes that
`fork` makes without the lock. `pc` says where a process is in the kernel. A clock
interrupt in user space is two steps (`tick`, `yield`): a kill that comes after
the test of `trap.c:100` takes effect at the one after the yield. The
other sleepers (pipes, console, `sys_sleep`) are one `call_block` that sleeps on
a channel of `Chans`; they test `killed` before, without `ptable.lock`.

### XvLog and XvTxn: log and buffer cache of xv6

`home`, `logblk` and `head` are the disk; `buf` and `dirty` the cache; `lh`,
`outstanding` and `committing` are `struct log`. `log_write` is two steps since it
tests the size before it takes the lock. Every block that `write_log`,
`write_head` and `install_trans` write is a step, in commit and in recovery,
and `crash` may come after any of them. Any clean buffer that nobody holds may be
recycled, which covers every LRU order.

`XvTxn` is what callers rely on: the disk, as the next boot will find it, only
ever changes to the contents of memory at a moment when no call runs.
`CallsAreAtomic` says that `XvLog` implements it; the mapping takes as
disk what recovery would make of it (`Recovered`).

### Proof and model-checking modules

`JosEnvProofs`, `JosMemProofs`, `JosIpcProofs`, `JosPipeProofs`, `JosFsProofs`,
`JosNetProofs`, `XvLogProofs` and `XvProcProofs` extend the module they are
about. `MCJosMem`, `MCJosIpc`, `MCJosFs`, `MCJosNet` and `MCXvLog` add the
symmetry sets for TLC, and `MCJosFs` a state constraint.

## Runs

| Run | Instance | Shows |
|---|---|---|
| `env_safety` | 3 slots, 2 CPUs, 1 generation | exclusion, no CPU runs a freed environment, nobody lost, exact free list, receivers, zombies, the window before `iret` |
| `env_zombie` | 2 slots, 2 CPUs, 2 generations, fair | every zombie is freed |
| `env_static` | 4 environments, 2 CPUs, fair | the round robin starves nobody when the population is fixed |
| `env_two_cpus` | 2 slots, 2 CPUs | *violated*: `envs[0]` on two CPUs |
| `mem_safety` | 5 pages, 2 environments, 2x2 entries | exact counts, one role per page, clean tables, no forged write permission, one mapping per step |
| `ipc_rpc` | 2 clients, 3 request codes, deaths | `JosIpc` implements `JosRpc`; the server uses the right page; no mutual wait |
| `ipc_live` | 2 clients, 3 request codes, fair, no deaths | a request taken is answered; the server goes on; nobody panics but in `sync` after `fork` |
| `jos_pipe` | 2 environments, 2 descriptors, 1 CPU, buffer of 2 bytes, 3 bytes | an open pipe is not taken for closed; bytes arrive once, in order |
| `jos_fs` | 2 files, 2 blocks, 1 direct and 2 indirect slots, sizes 0 to 3, 2 crashes | no block shared or free while in use, in the cache and on disk; flushed files survive |
| `jos_net` | 2 clients, 3 buffers, rings of 2 and 3, mailbox of 1 | order of packets on the wire and up the first turn of the ring; each thread alone with its request; no overflow without a full mailbox |
| `xv_log` | 2 processes, 3 blocks, 2 contents, `MAXOPBLOCKS` 2, log of 6, any number of crashes | `XvLog` implements `XvTxn`; reservation, lone commits, pinned buffers, no lost wakeup |
| `xv_proc` | 3 slots, 2 CPUs, 1 channel, 3 pids, fair | one CPU per stack, no lost wakeup in `wait`, orphans reach init, `wait` of init returns |

Each property of a passing run has a mutant in `PROJECT.json`: a plausible bug
in the code (an operator marked *Mutant* beside the real one) under which TLC
finds the property violated.

**Bounds.** Two CPUs are the least that race, and the code has no step that
involves three. Three slots give a running, a waiting and a free (or dying)
environment; with one CPU less than slots the search wraps. `GenMax` bounds the
generations and they wrap as in the code (`env_zombie` reuses slots with two).
In `JosMem`, 5 pages hold two directories, two tables and one page to
share, or one directory, its tables and pages that run out: both the sharing
and the out-of-memory paths occur. In `JosPipe` two environments are a checker
and one that changes the counts under it; a third, which lets one watch while
another makes a child, is covered by the proof; three bytes through a buffer of two
fill it and come round. In `JosFs` two blocks are an
indirect block and its data, or two files that compete for a freed
block, and the disk fills up; two crashes let the second hit what the first
left (with 3 blocks and one crash the same properties held in 10,710,530
states). In `JosNet` the receive ring comes round, and the driver
reads an old packet after that; three packets fill the transmit ring of two and
turn it; and clients, packets and a lost buffer (`MaxLost`) compete for three
buffers. In `XvLog` calls of up to two blocks, with `LOGSIZE` 6
and the log that `mkfs` makes for it, are refused by the reservation and share
blocks; three blocks cannot overrun that log. In
`XvProc` three slots are init, a parent and its child. Two clients are enough for one to
send while the server works for the other; the proofs cover any number.
`CHECK_DEADLOCK FALSE` is set where the system may really stop: a CPU
in the monitor or in panic, memory exhausted and everybody exited, all clients
dead, in panic or blocked for good, all users of a pipe gone, the file server or the
network server in panic. In xv6
deadlock is checked.

**Fairness.** `JosEnv`: strong fairness of the clock trap of each CPU, because
the timer interrupt stays pending in the local APIC and is taken at the next
`iret` or `sti`; weak fairness of start-up and of the `iret`. No fairness of any
system call. `JosIpc`: weak fairness of a client in the middle of `fsipc` and
of the server, because `sched_yield` comes round to each of them; this leans on
`env_static` and so on a population that does not keep changing (see
`JosEnv_turns.cfg` below). Nothing is assumed about which of several clients wins the race
for the server, and a single client may lose it every time. A client that will
panic in its `ipc_send` (`sync` after `fork`) is no reason for the server to wake, so
`ServerKeepsServing` speaks of the others.
`XvProc`: strong fairness of the steps of a CPU that do not depend on what
programs do (the scheduler, the clock, a `wait` or `exit` under way, the exit of
a killed process), because the timer interrupts every CPU and `acquire` gets its
turn; and of `wait` in init, because init is not interrupted just before that
`acquire` in every one of its time slices. No fairness of any other call.

## What is proved

All theorems hold for every value of the constants that satisfies the `ASSUME`s.

**JosEnvProofs** (any number of slots, CPUs, generations): type correctness,
`Exclusion`, `RunsLive`, `NobodyLost`, `FreeList`, `Receivers`, and the action properties `Wakeups`, `Zombies`, `PopWindow`. The
inductive invariant joins the checked invariants: exclusion needs
that a RUNNING environment is on exactly one CPU, which needs that
`env_cpunum` is fresh for the fallback of `sched_yield`, which needs that a
slot on the free list is on no CPU. `unstarted` records which children only
their parent may start; without it a child could be set RUNNABLE while it runs.

**JosMemProofs** (any number of pages, environments and entries): type correctness, `ExactCounts`, `OneRole`, `CleanTables`,
`OneMappingThm`, `WriteThm`, each of the form `Spec /\ []RefFits => ...`. `RefFits`
says of a state that no page has so many pointers that two more would make its
counter wrap: with the 16 bits of the code, that every page is mapped fewer than
65535 times (`page_insert` counts the new pointer before it takes off the old
one). It says nothing of the size of the memory. The code has no test for it, so
a page mapped more often is outside the theorems; with `RefMod = 4` in place of
32, where the run gets that far, TLC finds `RefsExact` violated.
`RefsExact` is not inductive: that a page is freed only when nobody points to it
needs exact counts; that the counts stay exact needs the tree
(directories and tables are pointed to once, and by the right kind of entry,
and free pages by nobody).

**JosIpcProofs** (any number of clients, deaths included): type correctness,
`OwnPage`, `NoMutualWait`, `UenvsKept`, and `Refinement`: `JosIpc` implements
`JosRpc`. The invariant says for each client whether the server has its
request (`Active`) and that an answer the client finds is the answer to its
own request; that a client is waiting exactly when it is `Active` is what makes
`NobodyForgotten` inductive. `SyncAlonePanics` states `OnlySyncPanics` for
`~MayDie`, as in its run: a client that is about to send anything but a `sync` has
written to its `fsipcbuf` since the last `fork`, so the page is no longer
copy-on-write (`CalmInv`). `sync` writes nothing (`lib/file.c:183`), and is the
exception.

**JosPipeProofs** (any number of environments, descriptors and bytes):
`ClosedMeansClosed`, for one CPU and while no child is being made. That equal
counts mean a closed end is a counting argument: while nobody forks, every
`Fd` mapping has its data mapping (`dup` maps the data page first, `close`
unmaps it last), so the data page is mapped at least as often as the two `Fd`
pages together, and equality with one leaves none of the other. The invariant
carries that for each environment, together with where it is inside `close`,
`dup` and `fork`, and `CheckInv`: the count a checker has read is still true as
long as its `env_runs` has not changed. `BytesInOrder` states `InOrder` for any
number of CPUs. Its invariant (`StreamInv`) says which positions of the buffer
hold bytes not yet read and what each is, and that a reader or writer inside the
loop still has room or data: only the other end moves the other counter, so what
it found stays true while it is interrupted.

**JosFsProofs** (any number of files, blocks, slots and crashes): `CacheIsSound`,
`DiskIsSound`, `FlushedFilesStay`. None of the three is inductive, and `Sound` of
the cache after a crash is `Sound` of the disk before it, so the invariant ties
the two images together: a block number on disk is 0 or the one in the cache
(`Control` for the `File` structures, `IndirectLags` for the indirect blocks of files not
in `cut`), and the bitmap on disk marks as free nothing that the cache has in
use. With that the disk inherits from the cache that no two slots name one block
(`Apart`), and a crash gives the cache back a sound image. Between `alloc_block`
of an indirect block and the step that clears it the old contents of that block
do not count as slots (`Target`). `CleanFiles` is `FlushedStays` said of the two
images. The parts that speak of the contents hold until a crash has hit a file
that was cut short (`NoFile \in cut`), the exception of the properties.

**JosNetProofs** (rings and buffers of any size, any number of clients, packets
and frames): `PacketsInOrder`, `FirstRoundInOrder`, `OwnRequests`,
`BuffersSuffice`, from three separate invariants. `TxInv`: the descriptors from
head to tail hold the packets `sent + 1`, `sent + 2`, ... in order and
only these are not done, the card never catches up with the driver, and the page
that `output` has is the next one; so each step of the card sends the packet after
the last. `RxInv`: before the ring has come round,
descriptor `k` holds frame `k + 1` if the card has filled it and its bit is
clear otherwise; `next` follows what was taken. `BufInv`: `OwnRequest` needs that
a thread's buffer is in use and that nothing is mapped at one that is not, nor
where the main thread receives (`PagesInv`); a client has at most one thread, since
it waits for the answer (`CallsInv`); and where the server is tells whether the
main thread has a buffer (`PlaceInv`), in particular it comes back to its loop only
when no new thread is left. In an overflow every buffer is in use, so without a
thread that waits for the mailbox those not lost map one to one to clients, and
counting them gives `NoOverflow`.

**XvLogProofs** (any number of processes, blocks and contents, any
`MAXOPBLOCKS`): `ReservationHolds`, `CommitIsAlone` and `NoLostWakeup` without
further assumptions; `TypeCorrect`, `OnlyCopyIsPinned` and the refinement
`CallsAtomic` as long as `log_write` does not overrun the log (`[]LogFits`);
the others are about the log that `mkfs` makes (`MadeByMkfs`), whose `LOGSIZE`
blocks include the header, one less than `begin_op` hands out. What calls log then
decides. `Spare(n)` says of a state that every running call leaves `n` blocks of its
reservation unused. `SpareFits`: with one block each the log is not overrun;
`SpareAtomic`: with one block each the refinement and the pinned copies hold;
`SpareNeverPanics`: with two blocks each `log_write` does not panic. `PanicWhenSpent`
assumes nothing about calls: a panic is that of `log_write`, every running call has
then logged at least `MAXOPBLOCKS - 1` blocks, and of any two one has logged all.
By reading, and not modelled here: the calls of `sysfile.c` leave two
blocks or more. The largest is a write, which `filewrite` (`file.c:133`) cuts into
pieces of at most 3 blocks: 4 data blocks if not aligned, the only bitmap block of a
disk of `FSSIZE` blocks, an indirect block and an inode, 7 of the 10 reserved.
The invariant says that `outstanding` counts the processes inside a
call; that what is logged and owed fits (`Reserved` is inductive only with that
count); that buffers not dirty agree with the disk; and, for each point of
commit and recovery, which prefix of the log has been written and which blocks
are home. With it the write of the header is a `Commit`, and every other disk
write maps to a stutter.

**XvProcProofs** (any number of slots, CPUs and pids): `StacksApart`,
`NoWaitForgotten`, `SomebodyWaits`, `TypeCorrect`. The invariant adds to the
checked ones that an `EMBRYO` slot belongs to the one process that is making it
(`fork` works on it without the lock), that every other slot in use but init's
has a parent, and that init never exits (`exit` panics first): without that an orphan
could be handed to somebody who is gone. From it follow `Lives`, who may move a
process from which state to which; `PidsUnique`; and `KillHits`: `kill` marks the
process it names and no other slot. `PidsUnique` looks at the slots that a failed
`fork` gave back as well, since `kill` compares their pids too; it holds as long as
`nextpid` stays below `MAXPID` (an `int` that the code lets wrap after 2^31 forks).

Only model-checked: everything temporal under fairness (`ZombieCollected`,
`EveryoneGetsATurn`, `TakenIsAnswered`, `ServerKeepsServing`, `WaitReturns`),
which is out of reach of the prover, as are `ENABLED` and induction over data; and
the violations. Every invariant, action property and refinement that a run checks
is also proved, under the assumptions named here.

## Findings

Where the code does other than a comment of the repository says. The full
quotations are in `PROJECT.json`.

- `env_two_cpus`: a CPU without `curenv` may run `envs[0]` while another does.

Further configurations are kept beside the modules and are not among the runs.
TLC finds each property violated (`tlc -config X.cfg M`):

- `JosEnv_turns.cfg` (`JosEnv`, `EveryoneGetsATurn`): the search restarts at
  `envs[0]` whenever `curenv` is NULL, so it is not the round robin that
  `kern/sched.c:16` describes.
- `JosEnv_kill2.cfg` (`JosEnv`, `ZombieFreedByItsTrap`): destroying a zombie frees
  it while it runs; `kern/env.c:476` says it will be freed when it traps.
- `JosMem_leak.cfg` (`MCJosMem`, `NoLeak`): `sys_page_alloc` loses its page when
  there is none for a table, against `kern/syscall.c:202`.
- `JosIpc_perm.cfg` (`JosIpc`, `RequestPage`): `env_ipc_perm` outlives the page it
  described, against `kern/syscall.c:315`.
- `XvLog_full.cfg` (`MCXvLog`, `LogFits`): `mkfs.c:25` makes a log of `LOGSIZE`
  blocks with the header among them, while `begin_op` hands out `LOGSIZE` data
  blocks (`param.h:11`). The size test of `log_write` would stop the last one, but
  it is made without the lock: two calls pass it together and the log is overrun.

What the models show beside their properties:

- `sync()` after `fork()` panics, since nothing has written to the request page and
  it is still copy-on-write (`OnlySyncPanics`); `lib/ipc.c:42` says that `ipc_send`
  keeps trying until it succeeds.
- A pipe may be taken for closed while a child is being made, because `fork` maps
  all `Fd` pages before the data pages; and on two CPUs, because a change made by
  another CPU does not change `env_runs` (`ClosedIsClosed` without its
  conditions: three environments, or two CPUs).
- `devpipe_read` returns 0 for a pipe that was written and then closed between
  its test for bytes and `_pipeisclosed`, with bytes left in it.
- On a full disk `file_block_walk` panics instead of returning -E_NO_DISK, since
  the result is stored in an unsigned variable (`walk_panic`).
- `file_set_size` that cuts a file short inside its indirect block leaves stale
  slots on disk until the next flush (`cut`).
- `e1000_receive` never clears the descriptor-done bit and delivers old packets
  after one turn of the ring (`FirstRound` ends there).
- A frame with errors is never passed over: `e1000_receive` returns without moving
  `next`, and `input` polls that descriptor for ever.
- In the network server a request without a page is left hanging only until the
  first page has come; later ones get a thread, since `env_ipc_perm` is stale. It
  finds no page, and never the page of an earlier request (`OwnRequest`). A client
  that dies during a call takes the server with it, by the panic of `ipc_send`.
- A transmit ring that fills up completely has tail = head, and the card stops.
- `sys_mbox_trypost` waits, so packets for a socket nobody reads use up the request
  buffers and the server panics (`NoOverflow` excludes a thread that waits for the mailbox). Each request left
  hanging, or that finds no memory for its thread, takes one buffer for good
  (`Lost`).
- `kill` of a pid that a failed `fork` left in an UNUSED slot, or of pid 0, marks
  the slot killed, and `allocproc` does not clear it: the next process there exits
  at once.
- `log_write` panics for a block that is in the log already when the log is full,
  although absorbing it needs no room: the size test comes before the search. With
  the log of `mkfs` that takes calls that use their whole reservation
  (`PanicWhenSpent`).

## Not modelled

- `net/lwip` apart from the port in `net/lwip/jos`: about 55,000 lines of a
  vendored library.
- `lab1` to `lab5` (earlier states of the JOS code), the boot-loader and kernel
  tutorial (`hurlex`), `linux-0.11`, the thread, eBPF and other examples and the
  notes. They share no state with the two kernels, and modelling a copy of code
  already modelled would say nothing new. These and lwIP are most of the
  repository's lines, so the share of all lines that the modules stand for is small.
- JOS: the TLB (`tlb_invalidate` reaches one CPU only), the frames of
  `page_fault_handler`, boot mappings above `UTOP`, the copying page-fault handler
  of `fork`, ELF loading (`load_icode`, `spawn`), path walk and directories, the
  open-file table of `fs/serv.c`, `malloc`, console, monitor, PCI, APIC, and
  everything that depends on real time (`time_tick` on every CPU, the delay that
  protects the page of `input`, the delay that `process_timer` computes).
- xv6: inodes and files above the log, memory, drivers, and the sleeps of the file
  system inside `exit`; the limit `NBUF` on buffers.
- Strings, formatting, argument parsing: no shared state.
