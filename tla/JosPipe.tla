------------------------------- MODULE JosPipe -------------------------------
(***************************************************************************)
(* One pipe of JOS (lab6-net/lib/pipe.c), shared by environments that      *)
(* read, write, dup, close, fork and exit.  A pipe is three pages: an Fd   *)
(* page for each end and a data page.  Every descriptor maps one Fd page   *)
(* and, 32 pages above, the data page, and the library tells whether the   *)
(* other end is still open from the reference counts of these pages.       *)
(*                                                                         *)
(* A system call is one step, because of the big kernel lock; so is each   *)
(* access of a program to the shared pages or to the counts, and the clock *)
(* may interrupt between any two of them.                                  *)
(***************************************************************************)
EXTENDS Integers, FiniteSets

CONSTANTS
  Envs, first,    \* environments, and the one that calls pipe()
  None,           \* no page, no environment
  MAXFD,          \* descriptors of an environment
  NCPU,
  PIPEBUFSIZ,
  MaxBytes        \* bound: bytes written

ASSUME PipeConstants ==
  /\ first \in Envs /\ None \notin Envs \cup {"r", "w"} /\ IsFiniteSet(Envs)
  /\ MAXFD \in Nat /\ MAXFD >= 2 /\ NCPU \in Nat \ {0} /\ PIPEBUFSIZ \in Nat \ {0}
  /\ MaxBytes \in Nat

Fds == 0..(MAXFD - 1)

VARIABLES
  status,           \* "free", "making" (by fork, not yet runnable), "live"
  on,               \* the environments that are on a CPU
  fd, data,         \* the Fd pages of an environment; where it maps the data page
  rpos, wpos, buf,  \* struct Pipe; byte n of the stream is the number n
  pc, then,         \* where an environment is, and where it goes on
  fdnum, newfdnum,  \* the descriptor that a call is about, and the new one of dup
  kid, pn,          \* fork: the child, and the page to map next
  ran,              \* those whose env_runs has changed since _pipeisclosed read it
  cnt, ret,         \* _pipeisclosed: pageref(fd), and who has found the counts equal
  byte              \* devpipe_read: the byte taken

pipeVars == <<rpos, wpos, buf>>
mapVars == <<fd, data>>
checkVars == <<ran, cnt, ret>>
callVars == <<then, fdnum, newfdnum>>
vars == <<status, on, mapVars, pipeVars, pc, callVars, kid, pn, checkVars, byte>>

\* pipe() has just returned.
Init ==
  /\ status = [e \in Envs |-> IF e = first THEN "live" ELSE "free"] /\ on = {first}
  /\ fd = [e \in Envs |-> [i \in Fds |->
             IF e = first /\ i = 0 THEN "r" ELSE IF e = first /\ i = 1 THEN "w" ELSE None]]
  /\ data = [e \in Envs |-> IF e = first THEN {0, 1} ELSE {}]
  /\ rpos = 0 /\ wpos = 0 /\ buf = [i \in 0..(PIPEBUFSIZ - 1) |-> -1]
  /\ pc = [e \in Envs |-> "idle"] /\ then = [e \in Envs |-> "idle"]
  /\ fdnum = [e \in Envs |-> 0] /\ newfdnum = [e \in Envs |-> 0]
  /\ kid = [e \in Envs |-> None] /\ pn = [e \in Envs |-> 0]
  /\ ran = {} /\ cnt = [e \in Envs |-> 0] /\ ret = {}
  /\ byte = [e \in Envs |-> 0]

-------------------------------------------------------------------------------
(***************************************************************************)
(* The scheduler                                                           *)
(***************************************************************************)

\* A CPU that is idle, or that a clock interrupt takes from f, runs e: the
\* same environment again or another one.  env_run increments env_runs.
env_run(f, e) ==
  /\ status[e] = "live" /\ e \notin on \ {f}
  /\ f \in on \/ (f = None /\ Cardinality(on) < NCPU)
  /\ on' = (on \ {f}) \cup {e}
  /\ ran' = IF pc[e] \in {"fdref", "dataref", "verdict"} THEN ran \cup {e} ELSE ran \ {e}
  /\ UNCHANGED <<status, mapVars, pipeVars, pc, callVars, kid, pn, cnt, ret, byte>>

Runs(e, x) == e \in on /\ pc[e] = x

Goto(e, x) == pc' = [pc EXCEPT ![e] = x]

\* The end of a library call; its local variables are gone.
Return(e) ==
  /\ Goto(e, "idle")
  /\ then' = [then EXCEPT ![e] = "idle"]
  /\ fdnum' = [fdnum EXCEPT ![e] = 0] /\ newfdnum' = [newfdnum EXCEPT ![e] = 0]
  /\ ran' = ran \ {e} /\ cnt' = [cnt EXCEPT ![e] = 0] /\ ret' = ret \ {e}
  /\ byte' = [byte EXCEPT ![e] = 0]

-------------------------------------------------------------------------------
(***************************************************************************)
(* fd.c: close, dup; exit.c; fork.c                                        *)
(***************************************************************************)

\* A library call about i, or about i and j, that begins at x.
call(e, x, y, i, j) ==
  /\ Goto(e, x)
  /\ then' = [then EXCEPT ![e] = y]
  /\ fdnum' = [fdnum EXCEPT ![e] = i] /\ newfdnum' = [newfdnum EXCEPT ![e] = j]
  /\ UNCHANGED <<status, on, pipeVars, kid, pn, checkVars, byte>>

\* devpipe_close unmaps the Fd page, and then the data page.
unmap_first(e, i) == fd' = [fd EXCEPT ![e][i] = None] /\ UNCHANGED data

close(e, i) ==
  /\ Runs(e, "idle") /\ fd[e][i] # None
  /\ unmap_first(e, i)
  /\ call(e, "close_data", "idle", i, i)

\* The second page; fd_close unmaps the Fd page once more.
close_data(e) ==
  /\ Runs(e, "close_data")
  /\ fd' = [fd EXCEPT ![e][newfdnum[e]] = None]
  /\ data' = [data EXCEPT ![e] = @ \ {newfdnum[e]}]
  /\ \/ then[e] = "idle" /\ Return(e)
     \/ then[e] # "idle" /\ Goto(e, then[e]) /\ UNCHANGED <<callVars, checkVars, byte>>
  /\ UNCHANGED <<status, on, pipeVars, kid, pn>>

\* dup closes the new descriptor ...
dup(e, old, new) ==
  /\ Runs(e, "idle") /\ fd[e][old] # None
  /\ \/ fd[e][new] = None /\ UNCHANGED mapVars /\ call(e, "dup_data", "dup_data", old, new)
     \/ fd[e][new] # None /\ unmap_first(e, new) /\ call(e, "close_data", "dup_data", old, new)

\* ... maps the data page there ...
dup_data(e) ==
  /\ Runs(e, "dup_data")
  /\ data' = [data EXCEPT ![e] = IF fdnum[e] \in @ THEN @ \cup {newfdnum[e]} ELSE @]
  /\ Goto(e, "dup_fd")
  /\ UNCHANGED <<status, on, fd, pipeVars, callVars, kid, pn, checkVars, byte>>

\* ... and then the Fd page, or undoes it all if there is none any more.
dup_fd(e) ==
  /\ Runs(e, "dup_fd")
  /\ fd' = [fd EXCEPT ![e][newfdnum[e]] = fd[e][fdnum[e]]]
  /\ data' = [data EXCEPT ![e] = IF fd[e][fdnum[e]] = None THEN @ \ {newfdnum[e]} ELSE @]
  /\ Return(e)
  /\ UNCHANGED <<status, on, pipeVars, kid, pn>>

\* exit closes every descriptor, and then destroys the environment.
exit(e) ==
  /\ Runs(e, "idle") \/ Runs(e, "exit")
  /\ \E i \in Fds :
       /\ fd[e][i] # None /\ \A j \in 0..(i - 1) : fd[e][j] = None
       /\ unmap_first(e, i)
       /\ call(e, "close_data", "exit", i, i)

\* sys_env_destroy, or a fault that is its own.
destroy(p, e) ==
  /\ p \in on /\ status[e] = "live" /\ (p = e \/ pc[p] = "idle")
  /\ status' = [status EXCEPT ![e] = "free"] /\ on' = on \ {e}
  /\ fd' = [fd EXCEPT ![e] = [i \in Fds |-> None]]
  /\ data' = [data EXCEPT ![e] = {}]
  /\ Return(e)
  /\ kid' = [kid EXCEPT ![e] = None] /\ pn' = [pn EXCEPT ![e] = 0]
  /\ UNCHANGED pipeVars

\* fork makes a child ...
fork(e, c) ==
  /\ Runs(e, "idle") /\ status[c] = "free"
  /\ status' = [status EXCEPT ![c] = "making"]
  /\ Goto(e, "fork")
  /\ kid' = [kid EXCEPT ![e] = c]
  /\ UNCHANGED <<on, mapVars, pipeVars, callVars, pn, checkVars, byte>>

\* ... maps the shared pages into it in the order of their addresses, the Fd
\* pages before the data pages ...
duppage(e) ==
  /\ Runs(e, "fork") /\ pn[e] < 2 * MAXFD
  /\ \E i \in Fds :
       \/ /\ pn[e] = i /\ UNCHANGED data
          /\ fd' = [fd EXCEPT ![kid[e]][i] = fd[e][i]]
       \/ /\ pn[e] = MAXFD + i /\ UNCHANGED fd
          /\ data' = [data EXCEPT ![kid[e]] = @ \cup ({i} \cap data[e])]
  /\ pn' = [pn EXCEPT ![e] = @ + 1]
  /\ UNCHANGED <<status, on, pipeVars, pc, callVars, kid, checkVars, byte>>

\* ... and lets it run.
fork_done(e) ==
  /\ Runs(e, "fork") /\ pn[e] = 2 * MAXFD
  /\ status' = [status EXCEPT ![kid[e]] = "live"]
  /\ kid' = [kid EXCEPT ![e] = None] /\ pn' = [pn EXCEPT ![e] = 0]
  /\ Goto(e, "idle")
  /\ UNCHANGED <<on, mapVars, pipeVars, callVars, checkVars, byte>>

-------------------------------------------------------------------------------
(***************************************************************************)
(* pipe.c                                                                  *)
(***************************************************************************)

\* pageref of an Fd page and of the data page.
FdRefs(x) == {m \in Envs \X Fds : fd[m[1]][m[2]] = x}
DataRefs == {m \in Envs \X Fds : m[2] \in data[m[1]]}

\* The callers in the repository have one reader and one writer at a time.
Alone(e, x) == \A f \in Envs \ {e} : then[f] # x

\* _pipeisclosed begins with n = env_runs.
pipeisclosed(e, i) ==
  /\ Runs(e, "idle") /\ fd[e][i] # None
  /\ call(e, "fdref", "isclosed", i, i)
  /\ UNCHANGED mapVars

\* Is there a byte, as the loop of devpipe_read asks?
Readable == IF rpos = wpos THEN "runs" ELSE "take"

devpipe_read(e, i) ==
  /\ Runs(e, "idle") /\ fd[e][i] = "r" /\ Alone(e, "read")
  /\ call(e, Readable, "read", i, i)
  /\ UNCHANGED mapVars

read_test(e) ==
  /\ Runs(e, "read")
  /\ Goto(e, Readable)
  /\ UNCHANGED <<status, on, mapVars, pipeVars, callVars, kid, pn, checkVars, byte>>

read_take(e) ==
  /\ Runs(e, "take")
  /\ byte' = [byte EXCEPT ![e] = buf[rpos % PIPEBUFSIZ]]
  /\ Goto(e, "rpos")
  /\ UNCHANGED <<status, on, mapVars, pipeVars, callVars, kid, pn, checkVars>>

read_rpos(e) ==
  /\ Runs(e, "rpos")
  /\ rpos' = rpos + 1
  /\ Return(e)
  /\ UNCHANGED <<status, on, mapVars, wpos, buf, kid, pn>>

\* Mutant: one byte too many fits.
Writable_late == IF wpos > rpos + PIPEBUFSIZ THEN "runs" ELSE "put"

\* Is there room for a byte?
Writable == IF wpos >= rpos + PIPEBUFSIZ THEN "runs" ELSE "put"

devpipe_write(e, i) ==
  /\ Runs(e, "idle") /\ fd[e][i] = "w" /\ Alone(e, "write") /\ wpos < MaxBytes
  /\ call(e, Writable, "write", i, i)
  /\ UNCHANGED mapVars

write_test(e) ==
  /\ Runs(e, "write")
  /\ Goto(e, Writable)
  /\ UNCHANGED <<status, on, mapVars, pipeVars, callVars, kid, pn, checkVars, byte>>

write_put(e) ==
  /\ Runs(e, "put")
  /\ buf' = [buf EXCEPT ![wpos % PIPEBUFSIZ] = wpos]
  /\ Goto(e, "wpos")
  /\ UNCHANGED <<status, on, mapVars, rpos, wpos, callVars, kid, pn, checkVars, byte>>

write_wpos(e) ==
  /\ Runs(e, "wpos")
  /\ wpos' = wpos + 1
  /\ Return(e)
  /\ UNCHANGED <<status, on, mapVars, rpos, buf, kid, pn>>

\* n = env_runs, ...
closed_runs(e) ==
  /\ Runs(e, "runs")
  /\ ran' = ran \ {e}
  /\ Goto(e, "fdref")
  /\ UNCHANGED <<status, on, mapVars, pipeVars, callVars, kid, pn, cnt, ret, byte>>

\* ... pageref(fd) ...
closed_fdref(e) ==
  /\ Runs(e, "fdref")
  /\ cnt' = [cnt EXCEPT ![e] = Cardinality(FdRefs(fd[e][fdnum[e]]))]
  /\ Goto(e, "dataref")
  /\ UNCHANGED <<status, on, mapVars, pipeVars, callVars, kid, pn, ran, ret, byte>>

\* ... == pageref(p), ...
closed_dataref(e) ==
  /\ Runs(e, "dataref")
  /\ ret' = IF cnt[e] = Cardinality(DataRefs) THEN ret \cup {e} ELSE ret \ {e}
  /\ Goto(e, "verdict")
  /\ UNCHANGED <<status, on, mapVars, pipeVars, callVars, kid, pn, ran, cnt, byte>>

\* Mutant: the verdict stands although the environment was interrupted.
Interrupted_never(e) == FALSE

Interrupted(e) == e \in ran

\* ... and again if env_runs has changed.  If the pipe is closed the call
\* returns, and read or write yields and tries again if it is not.
verdict(e) ==
  /\ Runs(e, "verdict")
  /\ \/ /\ Interrupted(e)
        /\ Goto(e, "runs")
        /\ UNCHANGED <<on, callVars, checkVars, byte>>
     \/ /\ ~Interrupted(e) /\ (e \in ret \/ then[e] = "isclosed")
        /\ Return(e)
        /\ UNCHANGED on
     \/ /\ ~Interrupted(e) /\ e \notin ret /\ then[e] # "isclosed"
        /\ Goto(e, then[e])
        /\ on' = on \ {e} /\ cnt' = [cnt EXCEPT ![e] = 0]
        /\ UNCHANGED <<callVars, ran, ret, byte>>
  /\ UNCHANGED <<status, mapVars, pipeVars, kid, pn>>

_pipeisclosed(e) == closed_runs(e) \/ closed_fdref(e) \/ closed_dataref(e) \/ verdict(e)

transfer(e) ==
  \/ read_test(e) \/ read_take(e) \/ read_rpos(e)
  \/ write_test(e) \/ write_put(e) \/ write_wpos(e)

Next ==
  \E e \in Envs :
    \/ exit(e)
    \/ \E f \in Envs \cup {None} : env_run(f, e)
    \/ \E i \in Fds : close(e, i) \/ pipeisclosed(e, i) \/ devpipe_read(e, i) \/ devpipe_write(e, i)
    \/ \E i, j \in Fds : dup(e, i, j)
    \/ close_data(e) \/ dup_data(e) \/ dup_fd(e)
    \/ \E c \in Envs : fork(e, c) \/ destroy(e, c)
    \/ duppage(e) \/ fork_done(e)
    \/ transfer(e) \/ _pipeisclosed(e)

Spec == Init /\ [][Next]_vars

-------------------------------------------------------------------------------
(***************************************************************************)
(* Properties                                                              *)
(***************************************************************************)

\* No environment holds the other end than x, and none is about to.
OtherGone(x) == \A f \in Envs, i \in Fds : fd[f][i] \in {None, x}

\* fork is in the middle of mapping the pages of a child.
Forking == \E f \in Envs : status[f] = "making"

\* On one CPU, a pipe is not taken for closed while somebody has its other end
\* open, although dup, close and exit change the two counts one after the other
\* and _pipeisclosed reads them one after the other.  fork maps the pages in
\* the wrong order, so nothing is said of the time when a child is being made.
ClosedIsClosed ==
  NCPU = 1 /\ ~Forking
    => \A e \in Envs : Runs(e, "verdict") /\ e \in ret /\ ~Interrupted(e)
                         => OtherGone(fd[e][fdnum[e]])

\* "wait to increment rpos until the byte is taken", and wpos until it is
\* stored: bytes come out in the order in which they went in, none twice.
InOrder == \A e \in Envs : pc[e] = "rpos" => byte[e] = rpos
==============================================================================
