---------------------------- MODULE JosPipeProofs -----------------------------
(***************************************************************************)
(* Why _pipeisclosed is right on one CPU, and why the bytes of a pipe come *)
(* out as they went in on any number of CPUs, for any number of            *)
(* environments and descriptors and any size of the buffer.                *)
(***************************************************************************)
EXTENDS JosPipe, FiniteSetTheorems, TLAPS

Checking == {"runs", "fdref", "dataref", "verdict"}
Reading == {"read", "take", "rpos"}
Writing == {"write", "put", "wpos"}
Points == {"idle", "close_data", "dup_data", "dup_fd", "exit", "fork"}
            \cup Checking \cup Reading \cup Writing

Types ==
  /\ status \in [Envs -> {"free", "making", "live"}] /\ on \subseteq Envs
  /\ fd \in [Envs -> [Fds -> {"r", "w", None}]] /\ data \in [Envs -> SUBSET Fds]
  /\ pc \in [Envs -> Points] /\ fdnum \in [Envs -> Fds] /\ newfdnum \in [Envs -> Fds]
  /\ then \in [Envs -> {"idle", "dup_data", "exit", "isclosed", "read", "write"}]
  /\ kid \in [Envs -> Envs \cup {None}] /\ pn \in [Envs -> 0..(2 * MAXFD)] /\ DOMAIN cnt = Envs

\* Where a call goes on.
ThenInv(e) ==
  /\ pc[e] = "close_data" => then[e] \in {"idle", "dup_data", "exit"}
  /\ pc[e] \in Checking => then[e] \in {"isclosed", "read", "write"}
  /\ pc[e] \in Reading => then[e] = "read"
  /\ pc[e] \in Writing => then[e] = "write"

\* Only a live environment is on a CPU or in a call, and only fork moves pn.
LiveInv(e) ==
  /\ e \in on \/ pc[e] # "idle" => status[e] = "live"
  /\ pc[e] # "fork" => pn[e] = 0

\* A call that works with an end of the pipe has it open.
OpenInv(e) == pc[e] \in Checking \cup Reading \cup Writing => fd[e][fdnum[e]] # None

\* Every Fd page comes with the data page, except in a child that fork is
\* making; dup maps the data page first.
MapInv(e) ==
  /\ \A i \in Fds : fd[e][i] # None /\ status[e] # "making" => i \in data[e]
  /\ status[e] = "free" => \A i \in Fds : fd[e][i] = None
  /\ pc[e] = "dup_fd" /\ fd[e][fdnum[e]] # None => newfdnum[e] \in data[e]

\* What is true of every environment by itself.
LocalInv(e) == ThenInv(e) /\ LiveInv(e) /\ OpenInv(e) /\ MapInv(e)
Locals == \A e \in Envs : LocalInv(e)

\* The child that fork is making is its own, and gets no Fd page that its
\* parent does not have, and then every data page.
ForkOf(e) ==
  pc[e] = "fork" =>
    /\ kid[e] \in Envs /\ status[kid[e]] = "making"
    /\ \A f \in Envs : pc[f] = "fork" /\ kid[f] = kid[e] => f = e
    /\ \A i \in Fds : /\ fd[kid[e]][i] # None => fd[e][i] # None
                      /\ pn[e] > MAXFD + i /\ i \in data[e] => i \in data[kid[e]]
ForkInv == \A e \in Envs : ForkOf(e)

\* On one CPU, an environment that has not been interrupted since it began to
\* check knows the counts as they are.
CheckInv ==
  /\ \A e, f \in on : e = f
  /\ \A e \in on \ ran :
       /\ pc[e] \in {"dataref", "verdict"} => cnt[e] = Cardinality(FdRefs(fd[e][fdnum[e]]))
       /\ pc[e] = "verdict" /\ e \in ret => cnt[e] = Cardinality(DataRefs)

\* The buffer holds the bytes between the two positions, each in its place.
BufferInv ==
  /\ rpos \in Nat /\ wpos \in Nat /\ rpos <= wpos /\ wpos <= rpos + PIPEBUFSIZ
  /\ DOMAIN buf = 0..(PIPEBUFSIZ - 1)
  /\ \A n \in Nat : rpos <= n /\ n < wpos => buf[n % PIPEBUFSIZ] = n

\* What the reader and the writer know between their steps: the other one can
\* only add a byte, or room.
EndInv(e) ==
  /\ pc[e] \in {"take", "rpos"} => rpos < wpos
  /\ pc[e] = "rpos" => byte[e] = rpos
  /\ pc[e] \in {"put", "wpos"} => wpos < rpos + PIPEBUFSIZ
  /\ pc[e] = "wpos" => buf[wpos % PIPEBUFSIZ] = wpos

\* One reader and one writer at a time.
AloneInv == \A e, f \in Envs : then[e] = then[f] /\ then[e] \in {"read", "write"} => e = f

StreamInv == BufferInv /\ DOMAIN byte = Envs /\ AloneInv /\ \A e \in Envs : EndInv(e)

\* What the proofs need of the constants.
LEMMA Consts ==
  /\ None \notin Envs /\ None # "r" /\ None # "w"
  /\ 0 \in Fds /\ 1 \in Fds
BY PipeConstants DEF Fds
\* Every step keeps the types.
LEMMA TypesStep == Types /\ Locals /\ ForkInv /\ [Next]_vars => Types'
<1> SUFFICES ASSUME Types /\ Locals /\ ForkInv, [Next]_vars PROVE Types'
  OBVIOUS
<1> USE Consts
<1>1. ASSUME NEW f \in Envs \cup {None}, NEW e \in Envs, env_run(f, e) PROVE Types'
  BY <1>1 DEF Types, Points, Checking, Reading, Writing, env_run, mapVars, pipeVars, callVars, checkVars
<1>2. ASSUME NEW e \in Envs, NEW i \in Fds, close(e, i) PROVE Types'
  BY <1>2 DEF Types, Points, Checking, Reading, Writing, close, unmap_first, call, Runs, Goto, mapVars, pipeVars, callVars, checkVars
<1>3. ASSUME NEW e \in Envs, close_data(e) PROVE Types'
  <2>1. then[e] \in {"idle", "dup_data", "exit"}
    BY <1>3 DEF Locals, LocalInv, ThenInv, close_data, Runs
  <2>2. newfdnum[e] \in Fds /\ 0 \in Fds
    BY Consts DEF Types
  <2>3. pc' \in [Envs -> Points] /\ then' \in [Envs -> {"idle", "dup_data", "exit", "isclosed", "read", "write"}]
    <3>1. /\ pc' = [pc EXCEPT ![e] = "idle"] \/ pc' = [pc EXCEPT ![e] = then[e]]
          /\ then' = then \/ then' = [then EXCEPT ![e] = "idle"]
      BY <1>3 DEF close_data, Return, Goto, callVars
    <3>2. {"idle", "dup_data", "exit"} \subseteq Points
      BY DEF Points
    <3>3. pc' \in [Envs -> Points]
      BY <2>1, <3>1, <3>2 DEF Types
    <3>4. then' \in [Envs -> {"idle", "dup_data", "exit", "isclosed", "read", "write"}]
      BY <3>1, Zenon DEF Types
    <3> QED
      BY <3>3, <3>4
  <2>4. fdnum' \in [Envs -> Fds] /\ newfdnum' \in [Envs -> Fds]
    <3>1. CASE fdnum' = fdnum /\ newfdnum' = newfdnum
      BY <3>1 DEF Types
    <3>2. CASE fdnum' = [fdnum EXCEPT ![e] = 0] /\ newfdnum' = [newfdnum EXCEPT ![e] = 0]
      BY <3>2, Consts DEF Types
    <3> QED
      BY <1>3, <3>1, <3>2 DEF close_data, Return, callVars
  <2>5. fd' \in [Envs -> [Fds -> {"r", "w", None}]] /\ data' \in [Envs -> SUBSET Fds]
    BY <1>3, <2>2 DEF Types, close_data
  <2> QED
    BY <1>3, <2>3, <2>4, <2>5 DEF Types, close_data, Return, checkVars
<1>4. ASSUME NEW e \in Envs, NEW i \in Fds, NEW j \in Fds, dup(e, i, j) PROVE Types'
  <2>1. pc' \in [Envs -> Points] /\ then' \in [Envs -> {"idle", "dup_data", "exit", "isclosed", "read", "write"}]
    <3>1. /\ pc' = [pc EXCEPT ![e] = "dup_data"] \/ pc' = [pc EXCEPT ![e] = "close_data"]
          /\ then' = [then EXCEPT ![e] = "dup_data"]
      BY <1>4 DEF dup, call, Goto
    <3> QED
      BY <3>1 DEF Types, Points
  <2>2. fdnum' \in [Envs -> Fds] /\ newfdnum' \in [Envs -> Fds]
    <3>1. fdnum' = [fdnum EXCEPT ![e] = i] /\ newfdnum' = [newfdnum EXCEPT ![e] = j]
      BY <1>4 DEF dup, call
    <3> QED
      BY <3>1 DEF Types
  <2>3. fd' \in [Envs -> [Fds -> {"r", "w", None}]] /\ data' \in [Envs -> SUBSET Fds]
    <3>1. CASE fd' = fd
      BY <1>4, <3>1 DEF Types, dup, unmap_first, mapVars
    <3>2. CASE fd' = [fd EXCEPT ![e][j] = None]
      <4>1. data' = data
        BY <1>4 DEF dup, unmap_first, mapVars
      <4> QED
        BY <3>2, <4>1 DEF Types
    <3> QED
      BY <1>4, <3>1, <3>2 DEF dup, unmap_first, mapVars
  <2> QED
    BY <1>4, <2>1, <2>2, <2>3 DEF Types, dup, call, checkVars
<1>5. ASSUME NEW e \in Envs, dup_data(e) PROVE Types'
  BY <1>5 DEF Types, Points, Checking, Reading, Writing, dup_data, Runs, Goto, mapVars, pipeVars, callVars, checkVars
<1>6. ASSUME NEW e \in Envs, dup_fd(e) PROVE Types'
  BY <1>6 DEF Types, Points, Checking, Reading, Writing, dup_fd, Return, Runs, Goto, mapVars, pipeVars, callVars, checkVars
<1>7. ASSUME NEW e \in Envs, exit(e) PROVE Types'
  BY <1>7 DEF Types, Points, Checking, Reading, Writing, exit, unmap_first, call, Runs, Goto, mapVars, pipeVars, callVars, checkVars
<1>8. ASSUME NEW e \in Envs, NEW c \in Envs, destroy(e, c) PROVE Types'
  <2>1. pc' \in [Envs -> Points] /\ then' \in [Envs -> {"idle", "dup_data", "exit", "isclosed", "read", "write"}]
    BY <1>8 DEF Types, Points, destroy, Return, Goto
  <2>2. fdnum' \in [Envs -> Fds] /\ newfdnum' \in [Envs -> Fds]
    BY <1>8, Consts DEF Types, destroy, Return
  <2>3. fd' \in [Envs -> [Fds -> {"r", "w", None}]] /\ data' \in [Envs -> SUBSET Fds]
    BY <1>8 DEF Types, destroy
  <2>4. pn' \in [Envs -> 0..(2 * MAXFD)]
    BY <1>8, PipeConstants DEF Types, destroy
  <2> QED
    BY <1>8, <2>1, <2>2, <2>3, <2>4 DEF Types, destroy, Return
<1>9. ASSUME NEW e \in Envs, NEW c \in Envs, fork(e, c) PROVE Types'
  BY <1>9 DEF Types, Points, Checking, Reading, Writing, fork, Runs, Goto, mapVars, pipeVars, callVars, checkVars
<1>10. ASSUME NEW e \in Envs, duppage(e) PROVE Types'
  <2>1. kid[e] \in Envs
    BY <1>10 DEF ForkInv, ForkOf, duppage, Runs
  <2>2. PICK i \in Fds : \/ data' = data /\ fd' = [fd EXCEPT ![kid[e]][i] = fd[e][i]]
                         \/ fd' = fd /\ data' = [data EXCEPT ![kid[e]] = @ \cup ({i} \cap data[e])]
    BY <1>10, Zenon DEF duppage
  <2>3. fd' \in [Envs -> [Fds -> {"r", "w", None}]] /\ data' \in [Envs -> SUBSET Fds]
    <3>1. CASE data' = data /\ fd' = [fd EXCEPT ![kid[e]][i] = fd[e][i]]
      BY <2>1, <3>1 DEF Types
    <3>2. CASE fd' = fd /\ data' = [data EXCEPT ![kid[e]] = @ \cup ({i} \cap data[e])]
      BY <2>1, <3>2 DEF Types
    <3> QED
      BY <2>2, <3>1, <3>2
  <2>4. pn' \in [Envs -> 0..(2 * MAXFD)]
    BY <1>10, PipeConstants DEF Types, duppage
  <2> QED
    BY <1>10, <2>3, <2>4 DEF Types, duppage, callVars, checkVars
<1>11. ASSUME NEW e \in Envs, fork_done(e) PROVE Types'
  BY <1>11 DEF Types, Points, Checking, Reading, Writing, ForkInv, ForkOf, fork_done, Runs, Goto, mapVars, pipeVars, callVars, checkVars
<1>12. ASSUME NEW e \in Envs, NEW i \in Fds, pipeisclosed(e, i) PROVE Types'
  BY <1>12 DEF Types, Points, Checking, Reading, Writing, pipeisclosed, call, Runs, Goto, mapVars, pipeVars, callVars, checkVars
<1>13. ASSUME NEW e \in Envs, NEW i \in Fds, devpipe_read(e, i) PROVE Types'
  BY <1>13 DEF Types, Points, Checking, Reading, Writing, devpipe_read, Readable, call, Runs, Goto, mapVars, pipeVars, callVars, checkVars
<1>14. ASSUME NEW e \in Envs, NEW i \in Fds, devpipe_write(e, i) PROVE Types'
  BY <1>14 DEF Types, Points, Checking, Reading, Writing, devpipe_write, Writable, call, Runs, Goto, mapVars, pipeVars, callVars, checkVars
<1>15. ASSUME NEW e \in Envs, read_test(e) PROVE Types'
  BY <1>15 DEF Types, Points, Checking, Reading, Writing, read_test, Readable, Runs, Goto, mapVars, pipeVars, callVars, checkVars
<1>16. ASSUME NEW e \in Envs, read_take(e) PROVE Types'
  BY <1>16 DEF Types, Points, Checking, Reading, Writing, read_take, Runs, Goto, mapVars, pipeVars, callVars, checkVars
<1>17. ASSUME NEW e \in Envs, read_rpos(e) PROVE Types'
  BY <1>17 DEF Types, Points, Checking, Reading, Writing, read_rpos, Return, Runs, Goto, mapVars, pipeVars, callVars, checkVars
<1>18. ASSUME NEW e \in Envs, write_test(e) PROVE Types'
  BY <1>18 DEF Types, Points, Checking, Reading, Writing, write_test, Writable, Runs, Goto, mapVars, pipeVars, callVars, checkVars
<1>19. ASSUME NEW e \in Envs, write_put(e) PROVE Types'
  BY <1>19 DEF Types, Points, Checking, Reading, Writing, write_put, Runs, Goto, mapVars, pipeVars, callVars, checkVars
<1>20. ASSUME NEW e \in Envs, write_wpos(e) PROVE Types'
  BY <1>20 DEF Types, Points, Checking, Reading, Writing, write_wpos, Return, Runs, Goto, mapVars, pipeVars, callVars, checkVars
<1>21. ASSUME NEW e \in Envs, closed_runs(e) PROVE Types'
  BY <1>21 DEF Types, Points, Checking, Reading, Writing, closed_runs, Runs, Goto, mapVars, pipeVars, callVars, checkVars
<1>22. ASSUME NEW e \in Envs, closed_fdref(e) PROVE Types'
  BY <1>22 DEF Types, Points, Checking, Reading, Writing, closed_fdref, Runs, Goto, mapVars, pipeVars, callVars, checkVars
<1>23. ASSUME NEW e \in Envs, closed_dataref(e) PROVE Types'
  BY <1>23 DEF Types, Points, Checking, Reading, Writing, closed_dataref, Runs, Goto, mapVars, pipeVars, callVars, checkVars
<1>24. ASSUME NEW e \in Envs, verdict(e) PROVE Types'
  <2>1. then[e] \in {"isclosed", "read", "write"}
    BY <1>24 DEF Locals, LocalInv, ThenInv, verdict, Runs, Checking
  <2>2. pc' \in [Envs -> Points] /\ then' \in [Envs -> {"idle", "dup_data", "exit", "isclosed", "read", "write"}]
    <3>1. pc'[e] \in Points /\ pc' = [pc EXCEPT ![e] = pc'[e]]
      BY <1>24, <2>1 DEF Types, Points, Checking, Reading, Writing, verdict, Return, Goto
    <3>2. then' = then \/ then' = [then EXCEPT ![e] = "idle"]
      BY <1>24 DEF verdict, Return, callVars
    <3> QED
      BY <3>1, <3>2, Zenon DEF Types
  <2>3. fdnum' \in [Envs -> Fds] /\ newfdnum' \in [Envs -> Fds]
    <3>1. CASE fdnum' = fdnum /\ newfdnum' = newfdnum
      BY <3>1 DEF Types
    <3>2. CASE fdnum' = [fdnum EXCEPT ![e] = 0] /\ newfdnum' = [newfdnum EXCEPT ![e] = 0]
      BY <3>2, Consts DEF Types
    <3> QED
      BY <1>24, <3>1, <3>2 DEF verdict, Return, callVars
  <2>4. on' \subseteq Envs
    BY <1>24 DEF Types, verdict
  <2> QED
    BY <1>24, <2>2, <2>3, <2>4 DEF Types, verdict, Return, mapVars, checkVars
<1>25. CASE UNCHANGED vars
  BY <1>25 DEF Types, Points, Checking, Reading, Writing, vars, mapVars, pipeVars, callVars, checkVars
<1> QED
  BY <1>1, <1>2, <1>3, <1>4, <1>5, <1>6, <1>7, <1>8, <1>9, <1>10, <1>11, <1>12, <1>13, <1>14, <1>15, <1>16, <1>17, <1>18, <1>19, <1>20, <1>21, <1>22, <1>23, <1>24, <1>25
  DEF Next, transfer, _pipeisclosed
-------------------------------------------------------------------------------
(***************************************************************************)
(* What a step does to the environments                                    *)
(***************************************************************************)

\* A step leaves the call of g alone ...
SameCall(g) ==
  /\ pc'[g] = pc[g] /\ then'[g] = then[g] /\ byte'[g] = byte[g]
  /\ fdnum'[g] = fdnum[g] /\ newfdnum'[g] = newfdnum[g]

\* ... and everything else that belongs to it; g may be taken off its CPU.
Same(g) ==
  /\ SameCall(g) /\ fd'[g] = fd[g] /\ data'[g] = data[g] /\ status'[g] = status[g]
  /\ kid'[g] = kid[g] /\ pn'[g] = pn[g] /\ (g \in on' => g \in on)

\* A step of the live environment e that has nothing to do with fork.
Own(e) ==
  /\ e \in on /\ status[e] = "live" /\ status' = status /\ kid' = kid /\ pn' = pn
  /\ pc[e] # "fork" /\ pc'[e] # "fork" /\ on' \subseteq on
  /\ \A g \in Envs \ {e} : Same(g)

\* The beginning of a call concerns its caller.
LEMMA Calls ==
  ASSUME Types, NEW e \in Envs, NEW x, NEW y, NEW i, NEW j, call(e, x, y, i, j)
  PROVE  /\ pc'[e] = x /\ then'[e] = y /\ fdnum'[e] = i /\ newfdnum'[e] = j
         /\ \A g \in Envs \ {e} : SameCall(g)
         /\ UNCHANGED <<status, on, rpos, wpos, buf, kid, pn, ran, cnt, ret, byte>>
<1>1. UNCHANGED <<status, on, rpos, wpos, buf, kid, pn, ran, cnt, ret, byte>>
  BY DEF call, pipeVars, checkVars
<1>2. pc'[e] = x /\ \A g \in Envs \ {e} : pc'[g] = pc[g]
  BY DEF Types, call, Goto
<1>3. then'[e] = y /\ \A g \in Envs \ {e} : then'[g] = then[g]
  BY DEF Types, call
<1>4. fdnum'[e] = i /\ \A g \in Envs \ {e} : fdnum'[g] = fdnum[g]
  BY DEF Types, call
<1>5. newfdnum'[e] = j /\ \A g \in Envs \ {e} : newfdnum'[g] = newfdnum[g]
  BY DEF Types, call
<1> QED
  BY <1>1, <1>2, <1>3, <1>4, <1>5 DEF SameCall

\* The end of a call.
LEMMA Returns ==
  ASSUME Types, DOMAIN byte = Envs, NEW e \in Envs, Return(e)
  PROVE  /\ pc'[e] = "idle" /\ then'[e] = "idle" /\ fdnum'[e] = 0 /\ newfdnum'[e] = 0
         /\ \A g \in Envs \ {e} : SameCall(g)
<1>1. pc'[e] = "idle" /\ \A g \in Envs \ {e} : pc'[g] = pc[g]
  BY DEF Types, Return, Goto
<1>2. then'[e] = "idle" /\ \A g \in Envs \ {e} : then'[g] = then[g]
  BY DEF Types, Return
<1>3. fdnum'[e] = 0 /\ \A g \in Envs \ {e} : fdnum'[g] = fdnum[g]
  BY DEF Types, Return
<1>4. newfdnum'[e] = 0 /\ \A g \in Envs \ {e} : newfdnum'[g] = newfdnum[g]
  BY DEF Types, Return
<1>5. \A g \in Envs \ {e} : byte'[g] = byte[g]
  BY DEF Return
<1> QED
  BY <1>1, <1>2, <1>3, <1>4, <1>5 DEF SameCall

\* A step in a call.
LEMMA Gotos ==
  ASSUME Types, NEW e \in Envs, NEW x, Goto(e, x), UNCHANGED <<callVars, byte>>
  PROVE  /\ pc'[e] = x /\ UNCHANGED <<then, fdnum, newfdnum>>
         /\ \A g \in Envs \ {e} : SameCall(g)
<1>1. pc'[e] = x /\ \A g \in Envs \ {e} : pc'[g] = pc[g]
  BY DEF Types, Goto
<1>2. UNCHANGED <<then, fdnum, newfdnum, byte>>
  BY DEF callVars
<1> QED
  BY <1>1, <1>2 DEF SameCall

\* A step that leaves an environment alone keeps what is true of it.
LEMMA Frame == ASSUME NEW g \in Envs, LocalInv(g), Same(g) PROVE LocalInv(g)'
<1>1. ThenInv(g)'
  BY DEF LocalInv, ThenInv, Same, SameCall
<1>2. LiveInv(g)'
  BY DEF LocalInv, LiveInv, Same, SameCall
<1>3. OpenInv(g)'
  BY Zenon DEF LocalInv, OpenInv, Same, SameCall
<1>4. MapInv(g)'
  BY DEF LocalInv, MapInv, Same, SameCall
<1> QED
  BY <1>1, <1>2, <1>3, <1>4 DEF LocalInv

\* After a step of e only what is true of e needs a proof.
LEMMA OwnLocals == ASSUME Locals, NEW e \in Envs, Own(e), LocalInv(e)' PROVE Locals'
BY Frame DEF Locals, Own

\* A step leaves the fork of g alone, its child included.
SameFork(g) ==
  pc'[g] = "fork" =>
    /\ pc[g] = "fork" /\ kid'[g] = kid[g] /\ pn'[g] = pn[g] /\ status'[kid[g]] = status[kid[g]]
    /\ fd'[g] = fd[g] /\ fd'[kid[g]] = fd[kid[g]]
    /\ data'[g] = data[g] /\ data'[kid[g]] = data[kid[g]]

\* After a step that concerns the fork of e only, that one needs a proof.
LEMMA KeepsFork ==
  ASSUME ForkInv, NEW e \in Envs, \A g \in Envs \ {e} : SameFork(g), ForkOf(e)'
  PROVE  ForkInv'
<1> SUFFICES ASSUME NEW g \in Envs, g # e, pc'[g] = "fork" PROVE ForkOf(g)'
  BY DEF ForkInv, ForkOf
<1>1. SameFork(g) /\ ForkOf(g)
  BY DEF ForkInv
<1>2. pc[g] = "fork" /\ kid'[g] = kid[g] /\ kid'[g] \in Envs /\ status'[kid'[g]] = "making"
  BY <1>1 DEF SameFork, ForkOf
<1>3. ASSUME NEW f \in Envs, pc'[f] = "fork", kid'[f] = kid'[g] PROVE f = g
  <2>1. CASE f = e
    BY <1>3, <2>1 DEF ForkOf
  <2>2. CASE f # e
    BY <1>1, <1>2, <1>3, <2>2 DEF SameFork, ForkOf
  <2> QED
    BY <2>1, <2>2
<1>4. ASSUME NEW i \in Fds
      PROVE  /\ fd'[kid'[g]][i] # None => fd'[g][i] # None
             /\ pn'[g] > MAXFD + i /\ i \in data'[g] => i \in data'[kid'[g]]
  BY <1>1, <1>2 DEF SameFork, ForkOf
<1> QED
  BY <1>2, <1>3, <1>4 DEF ForkOf

\* A step of e that is not fork's keeps the promises of every fork.
LEMMA OwnFork == ASSUME ForkInv, Locals, NEW e \in Envs, Own(e) PROVE ForkInv'
<1>1. \A g \in Envs : pc'[g] = "fork" => pc[g] = "fork" /\ g # e
  BY DEF Own, Same, SameCall
<1>2. \A g \in Envs : pc[g] = "fork" => kid[g] # e
  BY DEF Own, ForkInv, ForkOf
<1>3. \A g \in Envs : g # e => fd'[g] = fd[g] /\ data'[g] = data[g]
  BY DEF Own, Same
<1>4. status' = status /\ kid' = kid /\ pn' = pn
  BY DEF Own
<1> QED
  BY <1>1, <1>2, <1>3, <1>4 DEF ForkInv, ForkOf

\* A call begins: the caller's step.
LEMMA OwnCall ==
  ASSUME Types, Locals, NEW e \in Envs, NEW x, NEW y, NEW i, NEW j,
         Runs(e, "idle") \/ Runs(e, "exit"), call(e, x, y, i, j), x # "fork",
         \A g \in Envs \ {e} : fd'[g] = fd[g] /\ data'[g] = data[g]
  PROVE  Own(e)
<1>1. e \in on /\ status[e] = "live" /\ pc[e] # "fork"
  BY DEF Runs, Locals, LocalInv, LiveInv
<1>2. /\ pc'[e] = x /\ \A g \in Envs \ {e} : SameCall(g)
      /\ UNCHANGED <<status, on, kid, pn>>
  BY Calls
<1> QED
  BY <1>1, <1>2 DEF Own, Same

\* A step in a call.
LEMMA OwnGo ==
  ASSUME Types, Locals, NEW e \in Envs, NEW y, Runs(e, y), y # "fork", pc'[e] # "fork",
         UNCHANGED <<status, kid, pn>>, on' \subseteq on, \A g \in Envs \ {e} : SameCall(g),
         \A g \in Envs \ {e} : fd'[g] = fd[g] /\ data'[g] = data[g]
  PROVE  Own(e)
<1>1. e \in on /\ status[e] = "live" /\ pc[e] # "fork"
  BY DEF Runs, Locals, LocalInv, LiveInv
<1> QED
  BY <1>1 DEF Own, Same

\* A step of e that does not use an end of the pipe ...
LEMMA Leaves ==
  ASSUME NEW e \in Envs, LocalInv(e), Own(e), ThenInv(e)', pc'[e] # "dup_fd",
         pc'[e] \notin Checking \cup Reading \cup Writing,
         \A k \in Fds : fd'[e][k] # None => k \in data'[e]
  PROVE  LocalInv(e)'
<1>1. LiveInv(e)'
  BY DEF LocalInv, LiveInv, Own
<1>2. OpenInv(e)'
  BY DEF OpenInv
<1>3. MapInv(e)'
  BY DEF MapInv, Own
<1> QED
  BY <1>1, <1>2, <1>3 DEF LocalInv

\* ... and one that uses it and maps nothing.
LEMMA Stays ==
  ASSUME NEW e \in Envs, LocalInv(e), Own(e), ThenInv(e)', OpenInv(e)', pc'[e] # "dup_fd",
         UNCHANGED <<fd, data>>
  PROVE  LocalInv(e)'
<1>1. LiveInv(e)'
  BY DEF LocalInv, LiveInv, Own
<1>2. MapInv(e)'
  BY DEF LocalInv, MapInv, Own
<1> QED
  BY <1>1, <1>2 DEF LocalInv

\* The first page of devpipe_close.
LEMMA Unmaps ==
  ASSUME Types, Locals, NEW e \in Envs, NEW i \in Fds, unmap_first(e, i)
  PROVE  /\ \A g \in Envs \ {e} : fd'[g] = fd[g] /\ data'[g] = data[g]
         /\ \A k \in Fds : fd'[e][k] # None => fd[e][k] # None
<1>1. fd' = [fd EXCEPT ![e][i] = None] /\ data' = data
  BY DEF unmap_first
<1>2. \A g \in Envs \ {e} : fd'[g] = fd[g] /\ data'[g] = data[g]
  BY <1>1 DEF Types
<1>3. \A k \in Fds : fd'[e][k] # None => fd[e][k] # None
  BY <1>1 DEF Types
<1> QED
  BY <1>2, <1>3

\* What e knows when it begins a call.
LEMMA Begins ==
  ASSUME Locals, NEW e \in Envs, Runs(e, "idle") \/ Runs(e, "exit")
  PROVE  LocalInv(e) /\ status[e] = "live" /\ \A k \in Fds : fd[e][k] # None => k \in data[e]
<1>1. LocalInv(e) /\ e \in on
  BY Zenon DEF Locals, Runs
<1> QED
  BY <1>1 DEF LocalInv, LiveInv, MapInv

\* close, dup and exit unmap an Fd page first.
LEMMA Closes ==
  ASSUME Types, Locals, NEW e \in Envs, NEW y \in {"idle", "dup_data", "exit"},
         NEW i \in Fds, NEW j \in Fds, Runs(e, "idle") \/ Runs(e, "exit"),
         unmap_first(e, j), call(e, "close_data", y, i, j)
  PROVE  Own(e) /\ LocalInv(e)' /\ pc'[e] = "close_data" /\ then'[e] = y /\ UNCHANGED pipeVars
<1>1. /\ pc'[e] = "close_data" /\ then'[e] = y
      /\ UNCHANGED <<status, on, rpos, wpos, buf, kid, pn, ran, cnt, ret, byte>>
  BY Calls
<1>2. Own(e)
  BY Unmaps, OwnCall
<1>3. \A k \in Fds : fd'[e][k] # None => k \in data'[e]
  <2>1. data' = data
    BY DEF unmap_first
  <2> QED
    BY <2>1, Unmaps, Begins
<1>4. ThenInv(e)'
  BY <1>1 DEF ThenInv, Checking, Reading, Writing
<1>5. LocalInv(e)'
  BY <1>1, <1>2, <1>3, <1>4, Begins, Leaves, Zenon DEF Checking, Reading, Writing
<1> QED
  BY <1>1, <1>2, <1>5 DEF pipeVars

\* read, write and pipeisclosed begin with an end of the pipe that is open.
LEMMA Uses ==
  ASSUME Types, Locals, NEW e \in Envs, NEW i \in Fds, Runs(e, "idle"), fd[e][i] # None,
         NEW x \in {"runs", "fdref", "take", "put"}, NEW y, UNCHANGED mapVars, call(e, x, y, i, i),
         y \in {"isclosed", "read", "write"}, x = "take" => y = "read", x = "put" => y = "write"
  PROVE  Own(e) /\ LocalInv(e)' /\ pc'[e] = x /\ then'[e] = y
<1>1. /\ pc'[e] = x /\ then'[e] = y /\ fdnum'[e] = i
      /\ UNCHANGED <<status, on, rpos, wpos, buf, kid, pn, ran, cnt, ret, byte>>
  BY Calls
<1>2. UNCHANGED <<fd, data>>
  BY DEF mapVars
<1>3. Own(e)
  BY <1>2, OwnCall
<1>4. ThenInv(e)'
  BY <1>1 DEF ThenInv, Checking, Reading, Writing
<1>5. OpenInv(e)'
  BY <1>1, <1>2 DEF OpenInv
<1>6. LocalInv(e)'
  BY <1>1, <1>2, <1>3, <1>4, <1>5, Begins, Stays, Zenon
<1> QED
  BY <1>1, <1>3, <1>6, Zenon

\* A step of read, write or _pipeisclosed goes on with the same descriptor ...
LEMMA Goes ==
  ASSUME Types, Locals, NEW e \in Envs, NEW x \in Checking \cup Reading \cup Writing, Runs(e, x),
         NEW y \in Checking \cup Reading \cup Writing, pc'[e] = y, UNCHANGED <<then, fdnum>>,
         y \in Reading => then[e] = "read", y \in Writing => then[e] = "write",
         \A g \in Envs \ {e} : SameCall(g), on' \subseteq on, UNCHANGED <<status, mapVars, kid, pn>>
  PROVE  Own(e) /\ LocalInv(e)'
<1>1. x # "fork" /\ y # "fork" /\ y # "dup_fd" /\ y # "close_data"
  BY Zenon DEF Checking, Reading, Writing
<1>2. UNCHANGED <<fd, data, status, kid, pn>>
  BY DEF mapVars
<1>3. LocalInv(e) /\ pc[e] = x
  BY DEF Locals, Runs
<1>4. Own(e)
  BY <1>1, <1>2, OwnGo
<1>5. then[e] \in {"isclosed", "read", "write"}
  BY <1>3 DEF LocalInv, ThenInv
<1>6. ThenInv(e)'
  BY <1>1, <1>5, Zenon DEF ThenInv
<1>7. OpenInv(e)'
  BY <1>2, <1>3, Zenon DEF OpenInv, LocalInv
<1> QED
  BY <1>1, <1>2, <1>3, <1>4, <1>6, <1>7, Stays

\* ... or returns.
LEMMA Ends ==
  ASSUME Types, DOMAIN byte = Envs, Locals, NEW e \in Envs, NEW x, Runs(e, x), x # "fork",
         Return(e), on' \subseteq on, UNCHANGED <<status, mapVars, kid, pn>>
  PROVE  Own(e) /\ LocalInv(e)' /\ pc'[e] = "idle" /\ then'[e] = "idle"
<1>1. pc'[e] = "idle" /\ then'[e] = "idle" /\ \A g \in Envs \ {e} : SameCall(g)
  BY Returns
<1>2. UNCHANGED <<fd, data, status, kid, pn>>
  BY DEF mapVars
<1>3. Own(e)
  BY <1>1, <1>2, OwnGo
<1>4. ThenInv(e)' /\ OpenInv(e)'
  BY <1>1 DEF ThenInv, OpenInv, Checking, Reading, Writing
<1>5. LocalInv(e)
  BY DEF Locals
<1> QED
  BY <1>1, <1>2, <1>3, <1>4, <1>5, Stays

\* A step that does not touch the bytes, the positions or the reader.
Calm(e) ==
  /\ UNCHANGED pipeVars /\ DOMAIN byte' = DOMAIN byte
  /\ pc'[e] \notin {"take", "rpos", "put", "wpos"}
  /\ then'[e] \in {"read", "write"} => then'[e] = then[e]

\* It keeps the bytes in order.
LEMMA CalmStream == ASSUME StreamInv, NEW e \in Envs, \A g \in Envs \ {e} : SameCall(g), Calm(e)
                    PROVE  StreamInv'
<1>1. UNCHANGED <<rpos, wpos, buf>> /\ DOMAIN byte' = Envs
  BY DEF Calm, pipeVars, StreamInv
<1>2. BufferInv'
  BY <1>1 DEF StreamInv, BufferInv
<1>3. \A g \in Envs : then'[g] \in {"read", "write"} => then'[g] = then[g]
  BY DEF Calm, SameCall
<1>4. AloneInv'
  BY <1>3 DEF StreamInv, AloneInv
<1>5. ASSUME NEW g \in Envs PROVE EndInv(g)'
  <2>1. CASE g = e
    BY <2>1 DEF EndInv, Calm
  <2>2. CASE g # e
    BY <1>1, <2>2 DEF EndInv, StreamInv, SameCall
  <2> QED
    BY <2>1, <2>2
<1> QED
  BY <1>1, <1>2, <1>4, <1>5 DEF StreamInv

\* close, dup and exit, step by step.
Maps(e) ==
  \/ exit(e) \/ close_data(e) \/ dup_data(e) \/ dup_fd(e)
  \/ \E i \in Fds : close(e, i)
  \/ \E i, j \in Fds : dup(e, i, j)

\* They concern the caller and keep its invariant.
LEMMA MapsStep ==
  ASSUME Types, DOMAIN byte = Envs, Locals, NEW e \in Envs, Maps(e)
  PROVE  Own(e) /\ LocalInv(e)' /\ Calm(e) /\ pc'[e] \notin {"dataref", "verdict"}
<1> USE Consts
<1>1. ASSUME NEW y \in {"idle", "dup_data", "exit"}, NEW i \in Fds, NEW j \in Fds,
             Runs(e, "idle") \/ Runs(e, "exit"),
             unmap_first(e, j), call(e, "close_data", y, i, j)
      PROVE  Own(e) /\ LocalInv(e)' /\ Calm(e) /\ pc'[e] \notin {"dataref", "verdict"}
  <2>1. Own(e) /\ LocalInv(e)' /\ pc'[e] = "close_data" /\ then'[e] = y /\ UNCHANGED pipeVars
    BY <1>1, Closes
  <2>2. byte' = byte
    BY <1>1 DEF call
  <2> QED
    BY <2>1, <2>2 DEF Calm
<1>2. CASE exit(e)
  BY <1>1, <1>2 DEF exit
<1>3. ASSUME NEW i \in Fds, close(e, i)
      PROVE  Own(e) /\ LocalInv(e)' /\ Calm(e) /\ pc'[e] \notin {"dataref", "verdict"}
  BY <1>1, <1>3 DEF close
<1>4. ASSUME NEW i \in Fds, NEW j \in Fds, dup(e, i, j)
      PROVE  Own(e) /\ LocalInv(e)' /\ Calm(e) /\ pc'[e] \notin {"dataref", "verdict"}
  <2>1. CASE UNCHANGED mapVars /\ call(e, "dup_data", "dup_data", i, j)
    <3>1. /\ pc'[e] = "dup_data" /\ then'[e] = "dup_data"
          /\ UNCHANGED <<status, on, rpos, wpos, buf, kid, pn, ran, cnt, ret, byte>>
      BY <2>1, Calls
    <3>2. UNCHANGED <<fd, data>>
      BY <2>1 DEF mapVars
    <3>3. Runs(e, "idle")
      BY <1>4 DEF dup
    <3>4. Own(e)
      BY <2>1, <3>2, <3>3, OwnCall
    <3>5. ThenInv(e)'
      BY <3>1, Zenon DEF ThenInv, Checking, Reading, Writing
    <3>6. LocalInv(e)'
      BY <3>1, <3>2, <3>3, <3>4, <3>5, Begins, Leaves, Zenon DEF Checking, Reading, Writing
    <3> QED
      BY <3>1, <3>4, <3>6 DEF Calm, pipeVars
  <2>2. CASE unmap_first(e, j) /\ call(e, "close_data", "dup_data", i, j)
    BY <1>1, <1>4, <2>2 DEF dup
  <2> QED
    BY <1>4, <2>1, <2>2 DEF dup
<1>5. CASE close_data(e)
  <2>1. /\ Runs(e, "close_data") /\ UNCHANGED <<status, on, pipeVars, kid, pn>>
        /\ fd' = [fd EXCEPT ![e][newfdnum[e]] = None]
        /\ data' = [data EXCEPT ![e] = @ \ {newfdnum[e]}]
    BY <1>5 DEF close_data
  <2>2. LocalInv(e) /\ then[e] \in {"idle", "dup_data", "exit"}
    BY <2>1 DEF Locals, LocalInv, ThenInv, Runs
  <2>3. /\ pc'[e] \in {"idle", "dup_data", "exit"} /\ then'[e] \in {"idle", "dup_data", "exit"}
        /\ DOMAIN byte' = DOMAIN byte /\ \A g \in Envs \ {e} : SameCall(g)
    <3>1. CASE Return(e)
      <4>1. DOMAIN byte' = DOMAIN byte
        BY <3>1 DEF Return
      <4> QED
        BY <3>1, <4>1, Returns
    <3>2. CASE then[e] # "idle" /\ Goto(e, then[e]) /\ UNCHANGED <<callVars, checkVars, byte>>
      BY <2>2, <3>2, Gotos
    <3> QED
      BY <1>5, <3>1, <3>2 DEF close_data
  <2>4. \A g \in Envs \ {e} : fd'[g] = fd[g] /\ data'[g] = data[g]
    BY <2>1 DEF Types
  <2>5. Own(e)
    BY <2>1, <2>3, <2>4, OwnGo
  <2>6. \A k \in Fds : fd'[e][k] # None => k # newfdnum[e] /\ fd[e][k] # None
    BY <2>1 DEF Types
  <2>7. \A k \in Fds : fd'[e][k] # None => k \in data'[e]
    <3>1. \A k \in Fds : fd[e][k] # None => k \in data[e]
      BY <2>2, <2>5 DEF LocalInv, MapInv, Own
    <3> QED
      BY <2>1, <2>6, <3>1, Zenon DEF Types
  <2>8. ThenInv(e)'
    BY <2>3, Zenon DEF ThenInv, Checking, Reading, Writing
  <2>9. LocalInv(e)'
    BY <2>2, <2>3, <2>5, <2>7, <2>8, Leaves, Zenon DEF Checking, Reading, Writing
  <2> QED
    BY <2>1, <2>3, <2>5, <2>9 DEF Calm
<1>6. CASE dup_data(e)
  <2>1. /\ Runs(e, "dup_data") /\ UNCHANGED <<status, on, pipeVars, kid, pn, fd, byte>>
        /\ data' = [data EXCEPT ![e] = IF fdnum[e] \in @ THEN @ \cup {newfdnum[e]} ELSE @]
    BY <1>6, Zenon DEF dup_data
  <2>2. pc'[e] = "dup_fd" /\ UNCHANGED <<then, fdnum, newfdnum>> /\ \A g \in Envs \ {e} : SameCall(g)
    BY <1>6, Gotos, Zenon DEF dup_data
  <2>3. \A g \in Envs \ {e} : fd'[g] = fd[g] /\ data'[g] = data[g]
    BY <2>1, Zenon DEF Types
  <2>4. Own(e)
    BY <2>1, <2>2, <2>3, OwnGo, Zenon
  <2>5. LocalInv(e) /\ pc[e] = "dup_data"
    BY <2>1 DEF Locals, Runs
  <2>6. LiveInv(e)'
    BY <2>4, <2>5 DEF LocalInv, LiveInv, Own
  <2>7. ThenInv(e)' /\ OpenInv(e)'
    BY <2>2 DEF ThenInv, OpenInv, Checking, Reading, Writing
  <2>8. /\ data[e] \subseteq data'[e] /\ (fdnum[e] \in data[e] => newfdnum[e] \in data'[e])
        /\ fdnum[e] \in Fds
    BY <2>1 DEF Types
  <2>9. \A k \in Fds : fd[e][k] # None => k \in data[e]
    BY <2>4, <2>5, Zenon DEF LocalInv, MapInv, Own
  <2>10. MapInv(e)'
    BY <2>1, <2>2, <2>4, <2>8, <2>9 DEF MapInv, Own
  <2>11. LocalInv(e)'
    BY <2>6, <2>7, <2>10 DEF LocalInv
  <2> QED
    BY <2>1, <2>2, <2>4, <2>11, Zenon DEF Calm
<1>7. CASE dup_fd(e)
  <2>1. /\ Runs(e, "dup_fd") /\ UNCHANGED <<status, on, pipeVars, kid, pn>>
        /\ fd' = [fd EXCEPT ![e][newfdnum[e]] = fd[e][fdnum[e]]]
        /\ data' = [data EXCEPT ![e] = IF fd[e][fdnum[e]] = None THEN @ \ {newfdnum[e]} ELSE @]
    BY <1>7 DEF dup_fd
  <2>2. /\ pc'[e] = "idle" /\ then'[e] = "idle" /\ DOMAIN byte' = DOMAIN byte
        /\ \A g \in Envs \ {e} : SameCall(g)
    <3>1. Return(e) /\ DOMAIN byte' = DOMAIN byte
      BY <1>7 DEF dup_fd, Return
    <3> QED
      BY <3>1, Returns
  <2>3. \A g \in Envs \ {e} : fd'[g] = fd[g] /\ data'[g] = data[g]
    BY <2>1 DEF Types
  <2>4. Own(e)
    BY <2>1, <2>2, <2>3, OwnGo
  <2>5. LocalInv(e) /\ pc[e] = "dup_fd"
    BY <2>1, Zenon DEF Locals, Runs
  <2>6. /\ \A k \in Fds : fd[e][k] # None => k \in data[e]
        /\ fd[e][fdnum[e]] # None => newfdnum[e] \in data[e]
    BY <2>4, <2>5, Zenon DEF LocalInv, MapInv, Own
  <2>7. ASSUME NEW k \in Fds, fd'[e][k] # None PROVE k \in data'[e]
    <3>1. newfdnum[e] \in Fds /\ fd[e] \in [Fds -> {"r", "w", None}]
      BY DEF Types
    <3>2. IF k = newfdnum[e] THEN fd[e][fdnum[e]] # None ELSE fd[e][k] # None
      BY <2>1, <2>7, <3>1, Zenon DEF Types
    <3>3. k \in data[e] /\ (k = newfdnum[e] => fd[e][fdnum[e]] # None)
      BY <2>6, <3>2
    <3> QED
      BY <2>1, <3>3 DEF Types
  <2>8. ThenInv(e)'
    BY <2>2 DEF ThenInv, Checking, Reading, Writing
  <2>9. LocalInv(e)'
    BY <2>2, <2>4, <2>5, <2>7, <2>8, Leaves DEF Checking, Reading, Writing
  <2> QED
    BY <2>1, <2>2, <2>4, <2>9 DEF Calm
<1> QED
  BY <1>2, <1>3, <1>4, <1>5, <1>6, <1>7 DEF Maps

\* _pipeisclosed, step by step.
Checks(e) == _pipeisclosed(e) \/ \E i \in Fds : pipeisclosed(e, i)

\* It concerns the caller and keeps its invariant.
LEMMA ChecksStep ==
  ASSUME Types, DOMAIN byte = Envs, Locals, NEW e \in Envs, Checks(e)
  PROVE  Own(e) /\ LocalInv(e)' /\ Calm(e)
<1>1. ASSUME NEW i \in Fds, pipeisclosed(e, i) PROVE Own(e) /\ LocalInv(e)' /\ Calm(e)
  <2>1. /\ Runs(e, "idle") /\ fd[e][i] # None /\ UNCHANGED mapVars
        /\ call(e, "fdref", "isclosed", i, i)
    BY <1>1 DEF pipeisclosed
  <2>2. Own(e) /\ LocalInv(e)' /\ pc'[e] = "fdref" /\ then'[e] = "isclosed"
    BY <2>1, Uses
  <2>3. byte' = byte /\ UNCHANGED pipeVars
    BY <2>1, Zenon DEF call
  <2> QED
    BY <2>2, <2>3 DEF Calm
<1>2. ASSUME NEW x \in Checking, NEW y \in Checking, Runs(e, x), Goto(e, y),
             UNCHANGED <<callVars, byte, status, on, mapVars, kid, pn, pipeVars>>
      PROVE  Own(e) /\ LocalInv(e)' /\ Calm(e)
  <2>1. /\ pc'[e] = y /\ UNCHANGED <<then, fdnum, newfdnum>>
        /\ \A g \in Envs \ {e} : SameCall(g)
    BY <1>2, Gotos
  <2>2. y \notin Reading \cup Writing /\ y \notin {"take", "rpos", "put", "wpos"}
    BY DEF Checking, Reading, Writing
  <2>3. Own(e) /\ LocalInv(e)'
    BY <1>2, <2>1, <2>2, Goes
  <2> QED
    BY <1>2, <2>1, <2>2, <2>3, Zenon DEF Calm
<1>3. CASE closed_runs(e)
  BY <1>2, <1>3, Zenon DEF closed_runs, Checking
<1>4. CASE closed_fdref(e)
  BY <1>2, <1>4 DEF closed_fdref, Checking
<1>5. CASE closed_dataref(e)
  BY <1>2, <1>5, Zenon DEF closed_dataref, Checking
<1>6. CASE verdict(e)
  <2>1. Runs(e, "verdict") /\ UNCHANGED <<status, mapVars, pipeVars, kid, pn>>
    BY <1>6, Zenon DEF verdict
  <2>2. then[e] \in {"isclosed", "read", "write"}
    BY <2>1 DEF Runs, Locals, LocalInv, ThenInv, Checking
  <2>3. CASE Goto(e, "runs") /\ UNCHANGED <<on, callVars, checkVars, byte>>
    BY <1>2, <2>1, <2>3 DEF Checking
  <2>4. CASE Return(e) /\ UNCHANGED on
    <3>1. Own(e) /\ LocalInv(e)' /\ pc'[e] = "idle" /\ then'[e] = "idle"
      BY <2>1, <2>4, Ends
    <3>2. DOMAIN byte' = DOMAIN byte
      BY <2>4, Zenon DEF Return
    <3> QED
      BY <2>1, <3>1, <3>2 DEF Calm
  <2>5. CASE then[e] # "isclosed" /\ Goto(e, then[e]) /\ on' = on \ {e} /\ UNCHANGED <<callVars, byte>>
    <3>1. /\ pc'[e] = then[e] /\ UNCHANGED <<then, fdnum, newfdnum>>
          /\ \A g \in Envs \ {e} : SameCall(g)
      BY <2>5, Gotos
    <3>2. /\ then[e] \in Reading \cup Writing /\ "verdict" \in Checking
          /\ (then[e] \in Reading => then[e] = "read") /\ (then[e] \in Writing => then[e] = "write")
      BY <2>2, <2>5, Zenon DEF Reading, Writing, Checking
    <3>3. Own(e) /\ LocalInv(e)'
      BY <2>1, <2>5, <3>1, <3>2, Goes
    <3>4. then[e] \notin {"take", "rpos", "put", "wpos"}
      BY <2>2
    <3> QED
      BY <2>1, <2>5, <3>1, <3>3, <3>4, Zenon DEF Calm
  <2> QED
    BY <1>6, <2>3, <2>4, <2>5, Zenon DEF verdict
<1> QED
  BY <1>1, <1>3, <1>4, <1>5, <1>6, Zenon DEF Checks, _pipeisclosed

-------------------------------------------------------------------------------
(***************************************************************************)
(* Places in the ring                                                      *)
(***************************************************************************)

\* A position is a number of rounds and a place in the ring.
LEMMA Division ==
  ASSUME NEW P \in Nat \ {0}, NEW a \in Nat
  PROVE  /\ a % P \in 0..(P - 1)
         /\ \E q \in Nat : a = P * q + (a % P)
<1>1. a % P \in 0..(P - 1) /\ a \div P \in Nat
  OBVIOUS
<1>2. a = P * (a \div P) + (a % P)
  OBVIOUS
<1> QED
  BY <1>1, <1>2, Zenon

\* Two facts about products.
LEMMA Distributes ==
  ASSUME NEW P \in Nat, NEW q \in Nat, NEW r \in Nat
  PROVE  P * r - P * q = P * (r - q)
OBVIOUS

\* A multiple of P is at least P or not positive.
LEMMA Multiples ==
  ASSUME NEW P \in Nat \ {0}, NEW d \in Int
  PROVE  (d >= 1 => P * d >= P) /\ (d <= 0 => P * d <= 0)
OBVIOUS

\* Two bytes that are in the buffer at the same time are at different places.
LEMMA Apart ==
  ASSUME NEW P \in Nat \ {0}, NEW a \in Nat, NEW b \in Nat, a < b, b < a + P
  PROVE  a % P # b % P
<1> SUFFICES ASSUME a % P = b % P PROVE FALSE
  OBVIOUS
<1>1. PICK q \in Nat : a = P * q + (a % P)
  BY Division, Zenon
<1>2. PICK r \in Nat : b = P * r + (b % P)
  BY Division, Zenon
<1>3. a % P \in Nat /\ P * q \in Nat /\ P * r \in Nat
  BY Division
<1>4. b - a = P * r - P * q
  BY <1>1, <1>2, <1>3
<1>5. b - a = P * (r - q)
  BY <1>4, Distributes
<1>6. r - q \in Int /\ (r - q >= 1 \/ r - q <= 0)
  OBVIOUS
<1>7. P * (r - q) >= P \/ P * (r - q) <= 0
  BY <1>6, Multiples
<1> QED
  BY <1>5, <1>7

-------------------------------------------------------------------------------
(***************************************************************************)
(* read and write                                                          *)
(***************************************************************************)

\* read and write, step by step.
Transfers(e) == transfer(e) \/ \E i \in Fds : devpipe_read(e, i) \/ devpipe_write(e, i)

\* Only one environment is inside read, and only one inside write.
LEMMA NoOther ==
  ASSUME StreamInv, Locals, NEW e \in Envs, NEW g \in Envs \ {e}
  PROVE  /\ then[e] = "read" => pc[g] \notin Reading
         /\ then[e] = "write" => pc[g] \notin Writing
BY DEF StreamInv, AloneInv, Locals, LocalInv, ThenInv

\* The test of the loop says that there is a byte, or room for one.
LEMMA Tested ==
  ASSUME BufferInv
  PROVE  /\ Readable \in {"runs", "take"} /\ (Readable = "take" => rpos < wpos)
         /\ Writable \in {"runs", "put"} /\ (Writable = "put" => wpos < rpos + PIPEBUFSIZ)
BY PipeConstants DEF BufferInv, Readable, Writable

\* A test of the loop, made when the call begins or later.
LEMMA TestStream ==
  ASSUME StreamInv, NEW e \in Envs, UNCHANGED pipeVars, UNCHANGED byte,
         \A g \in Envs \ {e} : SameCall(g),
         pc'[e] \in {Readable, Writable}, AloneInv'
  PROVE  StreamInv'
<1>1. UNCHANGED <<rpos, wpos, buf>> /\ DOMAIN byte' = Envs
  BY DEF pipeVars, StreamInv
<1>2. BufferInv'
  BY <1>1 DEF StreamInv, BufferInv
<1>3. EndInv(e)'
  BY <1>1, Tested DEF EndInv, StreamInv
<1>4. \A g \in Envs \ {e} : EndInv(g)'
  BY <1>1 DEF EndInv, StreamInv, SameCall
<1> QED
  BY <1>1, <1>2, <1>3, <1>4 DEF StreamInv

\* The only reader or writer stays the only one.
LEMMA AloneStep ==
  ASSUME AloneInv, NEW e \in Envs, NEW x, Alone(e, x), then'[e] = x,
         \A g \in Envs \ {e} : SameCall(g)
  PROVE  AloneInv'
<1>1. \A g \in Envs \ {e} : then'[g] = then[g] /\ then[g] # x
  BY DEF Alone, SameCall
<1> QED
  BY <1>1 DEF AloneInv

\* Every step of read and write keeps the bytes in order.
LEMMA TransfersStep ==
  ASSUME Types, StreamInv, Locals, NEW e \in Envs, Transfers(e)
  PROVE  Own(e) /\ LocalInv(e)' /\ StreamInv' /\ pc'[e] \notin {"dataref", "verdict"}
<1> USE Consts
<1>1. DOMAIN byte = Envs /\ BufferInv /\ AloneInv
  BY Zenon DEF StreamInv
<1>2. ASSUME NEW i \in Fds, devpipe_read(e, i)
      PROVE  Own(e) /\ LocalInv(e)' /\ StreamInv' /\ pc'[e] \notin {"dataref", "verdict"}
  <2>1. /\ Runs(e, "idle") /\ fd[e][i] # None /\ UNCHANGED mapVars /\ Alone(e, "read")
        /\ call(e, Readable, "read", i, i) /\ Readable \in {"runs", "take"}
    BY <1>1, <1>2, Tested DEF devpipe_read
  <2>2. Own(e) /\ LocalInv(e)' /\ pc'[e] = Readable /\ then'[e] = "read"
    BY <2>1, Uses
  <2>3. UNCHANGED pipeVars /\ UNCHANGED byte /\ \A g \in Envs \ {e} : SameCall(g)
    BY <2>1, <2>2, Zenon DEF call, Own, Same
  <2>4. AloneInv'
    BY <1>1, <2>1, <2>2, <2>3, AloneStep
  <2> QED
    BY <2>1, <2>2, <2>3, <2>4, TestStream, Zenon
<1>3. ASSUME NEW i \in Fds, devpipe_write(e, i)
      PROVE  Own(e) /\ LocalInv(e)' /\ StreamInv' /\ pc'[e] \notin {"dataref", "verdict"}
  <2>1. /\ Runs(e, "idle") /\ fd[e][i] # None /\ UNCHANGED mapVars /\ Alone(e, "write")
        /\ call(e, Writable, "write", i, i) /\ Writable \in {"runs", "put"}
    BY <1>1, <1>3, Tested, Zenon DEF devpipe_write
  <2>2. Own(e) /\ LocalInv(e)' /\ pc'[e] = Writable /\ then'[e] = "write"
    BY <2>1, Uses, Zenon
  <2>3. UNCHANGED pipeVars /\ UNCHANGED byte /\ \A g \in Envs \ {e} : SameCall(g)
    BY <2>1, <2>2, Zenon DEF call, Own, Same
  <2>4. AloneInv'
    BY <1>1, <2>1, <2>2, <2>3, AloneStep
  <2> QED
    BY <2>1, <2>2, <2>3, <2>4, TestStream
<1>4. CASE read_test(e)
  <2>1. /\ Runs(e, "read") /\ Goto(e, Readable)
        /\ UNCHANGED <<status, on, mapVars, pipeVars, callVars, kid, pn, byte>>
    BY <1>4 DEF read_test
  <2>2. pc'[e] = Readable /\ UNCHANGED <<then, fdnum, newfdnum>> /\ \A g \in Envs \ {e} : SameCall(g)
    BY <2>1, Gotos
  <2>3. then[e] = "read"
    BY <2>1 DEF Runs, Reading, Locals, LocalInv, ThenInv
  <2>4. "read" \in Reading /\ Readable \in {"runs", "take"} /\ {"runs", "take"} \subseteq Checking \cup Reading
        /\ Readable \notin Writing
    BY <1>1, Tested DEF Checking, Reading, Writing
  <2>5. Own(e) /\ LocalInv(e)'
    BY <2>1, <2>2, <2>3, <2>4, Goes
  <2>6. StreamInv'
    BY <1>1, <2>1, <2>2, TestStream DEF AloneInv
  <2> QED
    BY <2>2, <2>4, <2>5, <2>6
<1>5. CASE write_test(e)
  <2>1. /\ Runs(e, "write") /\ Goto(e, Writable)
        /\ UNCHANGED <<status, on, mapVars, pipeVars, callVars, kid, pn, byte>>
    BY <1>5 DEF write_test
  <2>2. pc'[e] = Writable /\ UNCHANGED <<then, fdnum, newfdnum>> /\ \A g \in Envs \ {e} : SameCall(g)
    BY <2>1, Gotos
  <2>3. then[e] = "write"
    BY <2>1 DEF Runs, Writing, Locals, LocalInv, ThenInv
  <2>4. "write" \in Writing /\ Writable \in {"runs", "put"} /\ {"runs", "put"} \subseteq Checking \cup Writing
        /\ Writable \notin Reading
    BY <1>1, Tested DEF Checking, Reading, Writing
  <2>5. Own(e) /\ LocalInv(e)'
    BY <2>1, <2>2, <2>3, <2>4, Goes
  <2>6. StreamInv'
    BY <1>1, <2>1, <2>2, TestStream DEF AloneInv
  <2> QED
    BY <2>2, <2>4, <2>5, <2>6
<1>6. CASE read_take(e)
  <2>1. /\ Runs(e, "take") /\ Goto(e, "rpos") /\ byte' = [byte EXCEPT ![e] = buf[rpos % PIPEBUFSIZ]]
        /\ UNCHANGED <<status, on, mapVars, pipeVars, callVars, kid, pn>>
    BY <1>6 DEF read_take
  <2>2. /\ pc'[e] = "rpos" /\ UNCHANGED <<then, fdnum, newfdnum>> /\ \A g \in Envs \ {e} : SameCall(g)
    <3>1. UNCHANGED <<then, fdnum, newfdnum>>
      BY <2>1 DEF callVars
    <3>2. pc'[e] = "rpos" /\ \A g \in Envs \ {e} : pc'[g] = pc[g]
      BY <2>1 DEF Types, Goto
    <3>3. \A g \in Envs \ {e} : byte'[g] = byte[g]
      BY <1>1, <2>1
    <3> QED
      BY <3>1, <3>2, <3>3 DEF SameCall
  <2>3. then[e] = "read" /\ pc[e] = "take"
    BY <2>1 DEF Runs, Reading, Locals, LocalInv, ThenInv
  <2>4. "take" \in Reading /\ "rpos" \in Reading /\ "rpos" \notin Writing
    BY DEF Reading, Writing
  <2>5. Own(e) /\ LocalInv(e)'
    BY <2>1, <2>2, <2>3, <2>4, Goes
  <2>6. UNCHANGED <<rpos, wpos, buf>> /\ DOMAIN byte' = Envs
    BY <1>1, <2>1 DEF pipeVars
  <2>7. BufferInv' /\ AloneInv'
    BY <1>1, <2>2, <2>6 DEF BufferInv, AloneInv
  <2>8. rpos < wpos
    BY <2>3 DEF StreamInv, EndInv
  <2>9. byte'[e] = rpos
    <3>1. rpos \in Nat /\ buf[rpos % PIPEBUFSIZ] = rpos
      BY <1>1, <2>8 DEF BufferInv
    <3> QED
      BY <1>1, <2>1, <3>1
  <2>10. EndInv(e)'
    BY <2>2, <2>6, <2>8, <2>9 DEF EndInv
  <2>11. \A g \in Envs \ {e} : EndInv(g)'
    BY <2>2, <2>6 DEF EndInv, StreamInv, SameCall
  <2>12. StreamInv'
    BY <2>6, <2>7, <2>10, <2>11 DEF StreamInv
  <2> QED
    BY <2>2, <2>5, <2>12
<1>7. CASE read_rpos(e)
  <2>1. /\ Runs(e, "rpos") /\ rpos' = rpos + 1 /\ Return(e)
        /\ UNCHANGED <<status, on, mapVars, wpos, buf, kid, pn>>
    BY <1>7 DEF read_rpos
  <2>2. Own(e) /\ LocalInv(e)' /\ pc'[e] = "idle" /\ then'[e] = "idle"
    BY <1>1, <2>1, Ends
  <2>3. then[e] = "read" /\ pc[e] = "rpos" /\ rpos < wpos
    BY <2>1, Zenon DEF Runs, Reading, Locals, LocalInv, ThenInv, StreamInv, EndInv
  <2>4. \A g \in Envs \ {e} : SameCall(g) /\ pc'[g] \notin Reading
    BY <2>2, <2>3, NoOther DEF Own, Same, SameCall
  <2>5. DOMAIN byte' = Envs
    BY <1>1, <2>1 DEF Return
  <2>6. BufferInv'
    <3>1. rpos' \in Nat /\ rpos' <= wpos /\ wpos <= rpos' + PIPEBUFSIZ
      BY <1>1, <2>1, <2>3, PipeConstants DEF BufferInv
    <3>2. \A n \in Nat : rpos' <= n => rpos <= n
      BY <1>1, <2>1 DEF BufferInv
    <3> QED
      BY <1>1, <2>1, <3>1, <3>2 DEF BufferInv
  <2>7. AloneInv'
    BY <1>1, <2>2, <2>4 DEF AloneInv, SameCall
  <2>8. EndInv(e)'
    BY <2>2 DEF EndInv
  <2>9. ASSUME NEW g \in Envs \ {e} PROVE EndInv(g)'
    <3>1. /\ pc'[g] \in {"put", "wpos"} => wpos < rpos + PIPEBUFSIZ
          /\ pc'[g] = "wpos" => buf[wpos % PIPEBUFSIZ] = wpos
      BY <2>4 DEF SameCall, StreamInv, EndInv
    <3>2. pc'[g] \notin {"take", "rpos"}
      BY <2>4 DEF Reading
    <3>3. wpos < rpos + PIPEBUFSIZ => wpos < rpos' + PIPEBUFSIZ
      BY <1>1, <2>1, PipeConstants DEF BufferInv
    <3> QED
      BY <2>1, <3>1, <3>2, <3>3, Zenon DEF EndInv
  <2>10. StreamInv'
    BY <2>5, <2>6, <2>7, <2>8, <2>9 DEF StreamInv
  <2> QED
    BY <2>2, <2>10
<1>8. CASE write_put(e)
  <2>1. /\ Runs(e, "put") /\ Goto(e, "wpos") /\ buf' = [buf EXCEPT ![wpos % PIPEBUFSIZ] = wpos]
        /\ UNCHANGED <<status, on, mapVars, rpos, wpos, callVars, kid, pn, byte>>
    BY <1>8 DEF write_put
  <2>2. pc'[e] = "wpos" /\ UNCHANGED <<then, fdnum, newfdnum>> /\ \A g \in Envs \ {e} : SameCall(g)
    BY <2>1, Gotos
  <2>3. then[e] = "write" /\ pc[e] = "put" /\ wpos < rpos + PIPEBUFSIZ
    BY <2>1 DEF Runs, Writing, Locals, LocalInv, ThenInv, StreamInv, EndInv
  <2>4. "put" \in Writing /\ "wpos" \in Writing /\ "wpos" \notin Reading
    BY DEF Reading, Writing
  <2>5. Own(e) /\ LocalInv(e)'
    BY <2>1, <2>2, <2>3, <2>4, Goes
  <2>6. rpos \in Nat /\ wpos \in Nat /\ wpos % PIPEBUFSIZ \in DOMAIN buf
    BY <1>1, PipeConstants, Division, Zenon DEF BufferInv
  <2>7. \A n \in Nat : rpos <= n /\ n < wpos => n % PIPEBUFSIZ # wpos % PIPEBUFSIZ
    <3>1. ASSUME NEW n \in Nat, rpos <= n, n < wpos PROVE n % PIPEBUFSIZ # wpos % PIPEBUFSIZ
      <4>1. PIPEBUFSIZ \in Nat \ {0} /\ wpos < n + PIPEBUFSIZ
        BY <2>3, <2>6, <3>1, PipeConstants
      <4> QED
        BY <2>6, <3>1, <4>1, Apart, Zenon
    <3> QED
      BY <3>1
  <2>8. BufferInv'
    <3>1. DOMAIN buf' = 0..(PIPEBUFSIZ - 1)
      BY <1>1, <2>1 DEF BufferInv
    <3>2. ASSUME NEW n \in Nat, rpos <= n, n < wpos PROVE buf'[n % PIPEBUFSIZ] = n
      <4>1. n % PIPEBUFSIZ \in DOMAIN buf
        BY <1>1, PipeConstants, Division, Zenon DEF BufferInv
      <4>2. buf'[n % PIPEBUFSIZ] = buf[n % PIPEBUFSIZ]
        BY <2>1, <2>7, <3>2, <4>1
      <4> QED
        BY <1>1, <3>2, <4>2 DEF BufferInv
    <3> QED
      BY <1>1, <2>1, <3>1, <3>2 DEF BufferInv
  <2>9. AloneInv'
    BY <1>1, <2>2 DEF AloneInv
  <2>10. EndInv(e)'
    BY <2>1, <2>2, <2>3, <2>6 DEF EndInv
  <2>11. ASSUME NEW g \in Envs \ {e} PROVE EndInv(g)'
    <3>1. pc'[g] = pc[g] /\ byte'[g] = byte[g] /\ pc[g] \notin {"put", "wpos"}
      BY <2>2, <2>3, NoOther, Zenon DEF SameCall, Writing
    <3> QED
      BY <2>1, <3>1, Zenon DEF EndInv, StreamInv
  <2>12. StreamInv'
    BY <1>1, <2>1, <2>8, <2>9, <2>10, <2>11 DEF StreamInv
  <2> QED
    BY <2>2, <2>5, <2>12
<1>9. CASE write_wpos(e)
  <2>1. /\ Runs(e, "wpos") /\ wpos' = wpos + 1 /\ Return(e)
        /\ UNCHANGED <<status, on, mapVars, rpos, buf, kid, pn>>
    BY <1>9 DEF write_wpos
  <2>2. Own(e) /\ LocalInv(e)' /\ pc'[e] = "idle" /\ then'[e] = "idle"
    BY <1>1, <2>1, Ends
  <2>3. then[e] = "write" /\ pc[e] = "wpos" /\ wpos < rpos + PIPEBUFSIZ /\ buf[wpos % PIPEBUFSIZ] = wpos
    BY <2>1, Zenon DEF Runs, Writing, Locals, LocalInv, ThenInv, StreamInv, EndInv
  <2>4. \A g \in Envs \ {e} : SameCall(g) /\ pc'[g] \notin Writing
    BY <2>2, <2>3, NoOther, Zenon DEF Own, Same, SameCall
  <2>5. DOMAIN byte' = Envs
    BY <1>1, <2>1 DEF Return
  <2>6. BufferInv'
    <3>1. wpos' \in Nat /\ rpos <= wpos' /\ wpos' <= rpos + PIPEBUFSIZ
      BY <1>1, <2>1, <2>3, PipeConstants DEF BufferInv
    <3>2. \A n \in Nat : n < wpos' => n < wpos \/ n = wpos
      BY <1>1, <2>1 DEF BufferInv
    <3> QED
      BY <1>1, <2>1, <2>3, <3>1, <3>2 DEF BufferInv
  <2>7. AloneInv'
    BY <1>1, <2>2, <2>4 DEF AloneInv, SameCall
  <2>8. EndInv(e)'
    BY <2>2 DEF EndInv
  <2>9. ASSUME NEW g \in Envs \ {e} PROVE EndInv(g)'
    <3>1. /\ pc'[g] \in {"take", "rpos"} => rpos < wpos
          /\ pc'[g] = "rpos" => byte'[g] = rpos
      BY <2>4 DEF SameCall, StreamInv, EndInv
    <3>2. pc'[g] \notin {"put", "wpos"}
      BY <2>4 DEF Writing
    <3>3. rpos < wpos => rpos < wpos'
      BY <1>1, <2>1 DEF BufferInv
    <3> QED
      BY <2>1, <3>1, <3>2, <3>3, Zenon DEF EndInv
  <2>10. StreamInv'
    BY <2>5, <2>6, <2>7, <2>8, <2>9 DEF StreamInv
  <2> QED
    BY <2>2, <2>10
<1> QED
  BY <1>2, <1>3, <1>4, <1>5, <1>6, <1>7, <1>8, <1>9 DEF Transfers, transfer

-------------------------------------------------------------------------------
(***************************************************************************)
(* The scheduler, destroy and fork                                         *)
(***************************************************************************)

\* A clock interrupt changes who runs, and nothing else.
LEMMA RunStep ==
  ASSUME Locals, ForkInv, StreamInv, NEW f \in Envs \cup {None}, NEW e \in Envs, env_run(f, e)
  PROVE  Locals' /\ ForkInv' /\ StreamInv'
<1>1. /\ UNCHANGED <<status, fd, data, rpos, wpos, buf, pc, then, fdnum, newfdnum, kid, pn, byte>>
      /\ status[e] = "live" /\ on' = (on \ {f}) \cup {e}
  BY Zenon DEF env_run, mapVars, pipeVars, callVars
<1>2. ASSUME NEW g \in Envs PROVE LocalInv(g)'
  <2>1. g \in on' => g \in on \/ status[g] = "live"
    BY <1>1
  <2>2. LocalInv(g)
    BY Zenon DEF Locals
  <2>3. ThenInv(g)' /\ OpenInv(g)'
    BY <1>1, <2>2, Zenon DEF LocalInv, ThenInv, OpenInv
  <2>4. MapInv(g)'
    BY <1>1, <2>2, Zenon DEF LocalInv, MapInv
  <2>5. LiveInv(g)'
    BY <1>1, <2>1, <2>2, Zenon DEF LocalInv, LiveInv
  <2> QED
    BY <2>3, <2>4, <2>5 DEF LocalInv
<1>3. ForkInv'
  BY <1>1, Zenon DEF ForkInv, ForkOf
<1>4. StreamInv'
  BY <1>1 DEF StreamInv, BufferInv, AloneInv, EndInv
<1> QED
  BY <1>2, <1>3, <1>4, Zenon DEF Locals

\* An environment that is destroyed leaves nothing behind; the byte that it
\* has taken without moving rpos stays in the pipe.
LEMMA DestroyStep ==
  ASSUME Types, Locals, ForkInv, StreamInv, NEW p \in Envs, NEW e \in Envs, destroy(p, e)
  PROVE  Locals' /\ ForkInv' /\ StreamInv' /\ on' \subseteq on /\ e \notin on'
         /\ pc'[p] \notin {"dataref", "verdict"}
<1>1. /\ p \in on /\ status[e] = "live" /\ (p = e \/ pc[p] = "idle") /\ Return(e) /\ UNCHANGED pipeVars
      /\ on' = on \ {e}
  BY Zenon DEF destroy
<1>2. /\ pc'[e] = "idle" /\ then'[e] = "idle" /\ DOMAIN byte' = DOMAIN byte
      /\ \A g \in Envs \ {e} : SameCall(g)
  <2>1. DOMAIN byte = Envs /\ DOMAIN byte' = DOMAIN byte
    BY <1>1 DEF StreamInv, Return
  <2> QED
    BY <1>1, <2>1, Returns
<1>3. /\ status'[e] = "free" /\ pn'[e] = 0
      /\ \A g \in Envs \ {e} : status'[g] = status[g] /\ pn'[g] = pn[g]
  BY DEF Types, destroy
<1>4. (\A i \in Fds : fd'[e][i] = None) /\ \A g \in Envs \ {e} : fd'[g] = fd[g]
  BY DEF Types, destroy
<1>5. \A g \in Envs \ {e} : data'[g] = data[g] /\ kid'[g] = kid[g]
  BY Zenon DEF Types, destroy
<1>6. \A g \in Envs \ {e} : Same(g)
  BY <1>1, <1>2, <1>3, <1>4, <1>5 DEF Same
<1>7. LocalInv(e)'
  <2>1. ThenInv(e)' /\ OpenInv(e)'
    BY <1>2, Zenon DEF ThenInv, OpenInv, Checking, Reading, Writing
  <2>2. LiveInv(e)'
    BY <1>1, <1>2, <1>3, Zenon DEF LiveInv
  <2>3. MapInv(e)'
    BY <1>2, <1>4 DEF MapInv
  <2> QED
    BY <2>1, <2>2, <2>3, Zenon DEF LocalInv
<1>8. Locals'
  BY <1>6, <1>7, Frame DEF Locals
<1>9. ForkInv'
  <2>1. ForkOf(e)'
    BY <1>2, Zenon DEF ForkOf
  <2>2. ASSUME NEW g \in Envs \ {e}, pc'[g] = "fork" PROVE SameFork(g)
    <3>1. pc[g] = "fork" /\ Same(g)
      BY <1>6, <2>2, Zenon DEF Same, SameCall
    <3>2. kid[g] \in Envs \ {e}
      BY <1>1, <3>1, Zenon DEF ForkInv, ForkOf
    <3>3. Same(kid[g])
      BY <1>6, <3>2, Zenon
    <3> QED
      BY <3>1, <3>3, Zenon DEF Same, SameFork
  <2>3. \A g \in Envs \ {e} : SameFork(g)
    BY <2>2, Zenon DEF SameFork
  <2> QED
    BY <2>1, <2>3, KeepsFork, Zenon
<1>10. StreamInv'
  BY <1>1, <1>2, CalmStream, Zenon DEF Calm
<1> QED
  BY <1>1, <1>2, <1>8, <1>9, <1>10 DEF SameCall

\* The child of fork has nothing yet and belongs to nobody else.
LEMMA ForkStep ==
  ASSUME Types, Locals, ForkInv, StreamInv, NEW e \in Envs, NEW c \in Envs, fork(e, c)
  PROVE  Locals' /\ ForkInv' /\ StreamInv' /\ on' = on /\ e \in on /\ pc'[e] = "fork"
<1>1. /\ Runs(e, "idle") /\ status[c] = "free" /\ Goto(e, "fork")
      /\ UNCHANGED <<on, fd, data, pipeVars, callVars, pn, byte>>
  BY DEF fork, mapVars
<1>2. pc'[e] = "fork" /\ UNCHANGED <<then, fdnum, newfdnum>> /\ \A g \in Envs \ {e} : SameCall(g)
  BY <1>1, Gotos, Zenon
<1>3. LocalInv(e) /\ LocalInv(c) /\ status[e] = "live" /\ e # c /\ pc[e] = "idle"
  BY <1>1, Begins DEF Runs, Locals
<1>4. status'[c] = "making" /\ \A g \in Envs \ {c} : status'[g] = status[g]
  BY DEF Types, fork
<1>5. kid'[e] = c /\ \A g \in Envs \ {e} : kid'[g] = kid[g]
  BY Zenon DEF Types, fork
<1>6. pc[c] = "idle" /\ c \notin on /\ \A k \in Fds : fd[c][k] = None
  BY <1>1, <1>3, Zenon DEF LocalInv, LiveInv, MapInv
<1>7. LocalInv(e)'
  <2>1. ThenInv(e)' /\ OpenInv(e)'
    BY <1>2, Zenon DEF ThenInv, OpenInv, Checking, Reading, Writing
  <2>2. LiveInv(e)'
    BY <1>2, <1>3, <1>4, Zenon DEF LiveInv
  <2>3. MapInv(e)'
    BY <1>1, <1>2, <1>3, <1>4, Zenon DEF MapInv, LocalInv
  <2> QED
    BY <2>1, <2>2, <2>3, Zenon DEF LocalInv
<1>8. LocalInv(c)'
  <2>1. pc'[c] = "idle"
    BY <1>2, <1>3, <1>6, Zenon DEF SameCall
  <2>2. ThenInv(c)' /\ OpenInv(c)'
    BY <2>1, Zenon DEF ThenInv, OpenInv, Checking, Reading, Writing
  <2>3. LiveInv(c)'
    BY <1>1, <1>3, <1>6, <2>1, Zenon DEF LiveInv, LocalInv
  <2>4. MapInv(c)'
    BY <1>1, <1>4, <1>6, <2>1, Zenon DEF MapInv
  <2> QED
    BY <2>2, <2>3, <2>4 DEF LocalInv
<1>9. \A g \in Envs \ {e, c} : Same(g)
  BY <1>1, <1>2, <1>4, <1>5 DEF Same
<1>10. Locals'
  BY <1>7, <1>8, <1>9, Frame DEF Locals
<1>11. ForkInv'
  <2>1. ASSUME NEW g \in Envs \ {e}, pc'[g] = "fork"
        PROVE  pc[g] = "fork" /\ kid'[g] = kid[g] /\ kid[g] \in Envs \ {c}
    <3>1. pc[g] = "fork" /\ kid'[g] = kid[g]
      BY <1>2, <1>5, <2>1, Zenon DEF SameCall
    <3>2. kid[g] \in Envs /\ status[kid[g]] = "making"
      BY <3>1, Zenon DEF ForkInv, ForkOf
    <3> QED
      BY <1>1, <3>1, <3>2, Zenon
  <2>2. \A g \in Envs \ {e} : SameFork(g)
    BY <1>1, <1>4, <2>1, Zenon DEF SameFork
  <2>3. ForkOf(e)'
    <3>1. pn'[e] = 0
      BY <1>1, <1>3 DEF LocalInv, LiveInv
    <3>2. ASSUME NEW k \in Fds PROVE ~(pn'[e] > MAXFD + k)
      BY <3>1, PipeConstants DEF Fds
    <3>3. \A k \in Fds : fd'[c][k] = None
      BY <1>1, <1>6
    <3>4. ASSUME NEW f \in Envs, pc'[f] = "fork", kid'[f] = c PROVE f = e
      BY <2>1, <3>4, Zenon
    <3> QED
      BY <1>4, <1>5, <3>2, <3>3, <3>4, Zenon DEF ForkOf
  <2> QED
    BY <2>2, <2>3, KeepsFork, Zenon
<1>12. StreamInv'
  BY <1>1, <1>2, CalmStream DEF Calm
<1> QED
  BY <1>1, <1>2, <1>10, <1>11, <1>12 DEF Runs

\* The child gets one more page of its parent.
LEMMA DuppageStep ==
  ASSUME Types, Locals, ForkInv, StreamInv, NEW e \in Envs, duppage(e)
  PROVE  Locals' /\ ForkInv' /\ StreamInv' /\ on' = on /\ e \in on /\ pc'[e] = "fork"
<1>1. /\ e \in on /\ pc[e] = "fork"
      /\ UNCHANGED <<status, on, rpos, wpos, buf, pc, then, fdnum, newfdnum, kid, byte>>
  BY Zenon DEF duppage, Runs, pipeVars, callVars
<1>2. kid[e] \in Envs /\ status[kid[e]] = "making"
  BY <1>1 DEF ForkInv, ForkOf
<1>3. \A g \in Envs : g # kid[e] => fd'[g] = fd[g] /\ data'[g] = data[g]
  BY <1>2 DEF Types, duppage
<1>4. pn'[e] = pn[e] + 1 /\ \A g \in Envs \ {e} : pn'[g] = pn[g]
  BY Zenon DEF Types, duppage
<1>5. pc[kid[e]] = "idle"
  BY <1>2 DEF Locals, LocalInv, LiveInv
<1>6. ASSUME NEW g \in Envs PROVE LocalInv(g)'
  <2>1. LocalInv(g)
    BY Zenon DEF Locals
  <2>2. ThenInv(g)' /\ LiveInv(g)'
    BY <1>1, <1>4, <2>1, Zenon DEF LocalInv, ThenInv, LiveInv
  <2>3. OpenInv(g)' /\ MapInv(g)'
    <3>1. CASE g = kid[e]
      BY <1>1, <1>2, <1>5, <3>1, Zenon DEF OpenInv, MapInv, Checking, Reading, Writing
    <3>2. CASE g # kid[e]
      BY <1>1, <1>3, <2>1, <3>2 DEF LocalInv, OpenInv, MapInv
    <3> QED
      BY <3>1, <3>2, Zenon
  <2> QED
    BY <2>2, <2>3 DEF LocalInv
<1>7. ForkInv'
  <2>1. \A g \in Envs : pc[g] = "fork" => g # kid[e] /\ (g # e => kid[g] # kid[e])
    BY <1>1, <1>5, Zenon DEF ForkInv, ForkOf
  <2>2. PICK i \in Fds :
          \/ pn[e] = i /\ data' = data /\ fd' = [fd EXCEPT ![kid[e]][i] = fd[e][i]]
          \/ /\ pn[e] = MAXFD + i /\ fd' = fd
             /\ data' = [data EXCEPT ![kid[e]] = @ \cup ({i} \cap data[e])]
    BY Zenon DEF duppage
  <2>3. \A k \in Fds : fd'[kid[e]][k] # None => fd[e][k] # None
    <3>1. \A k \in Fds : fd[kid[e]][k] # None => fd[e][k] # None
      BY <1>1, Zenon DEF ForkInv, ForkOf
    <3>2. \A k \in Fds : fd'[kid[e]][k] \in {fd[kid[e]][k], fd[e][k]}
      BY <1>2, <2>2 DEF Types
    <3> QED
      BY <3>1, <3>2
  <2>4. ASSUME NEW k \in Fds, pn[e] + 1 > MAXFD + k, k \in data[e] PROVE k \in data'[kid[e]]
    <3>1. i \in Nat /\ k \in Nat /\ MAXFD \in Nat /\ i < MAXFD
      BY PipeConstants DEF Fds
    <3>2. pn[e] # i
      BY <2>4, <3>1
    <3>3. pn[e] = MAXFD + i /\ data' = [data EXCEPT ![kid[e]] = @ \cup ({i} \cap data[e])]
      BY <2>2, <3>2
    <3>4. k = i \/ pn[e] > MAXFD + k
      BY <2>4, <3>1, <3>3
    <3>5. k = i \/ k \in data[kid[e]]
      BY <1>1, <2>4, <3>4, Zenon DEF ForkInv, ForkOf
    <3> QED
      BY <1>2, <2>4, <3>3, <3>5 DEF Types
  <2>5. \A g \in Envs : pc[g] = "fork" => fd'[g] = fd[g] /\ data'[g] = data[g]
    BY <1>3, <2>1, Zenon
  <2>6. ASSUME NEW g \in Envs \ {e}, pc[g] = "fork" PROVE SameFork(g)
    <3>1. kid[g] \in Envs /\ kid[g] # kid[e]
      BY <2>1, <2>6, Zenon DEF ForkInv, ForkOf
    <3>2. fd'[kid[g]] = fd[kid[g]] /\ data'[kid[g]] = data[kid[g]] /\ pn'[g] = pn[g]
      BY <1>3, <1>4, <3>1, Zenon
    <3> QED
      BY <1>1, <2>5, <2>6, <3>2, Zenon DEF SameFork
  <2>7. \A g \in Envs \ {e} : SameFork(g)
    BY <1>1, <2>6, Zenon DEF SameFork
  <2>8. ForkOf(e)'
    <3>1. ForkOf(e)
      BY Zenon DEF ForkInv
    <3>2. fd'[e] = fd[e] /\ data'[e] = data[e]
      BY <1>1, <2>5, Zenon
    <3>3. /\ kid'[e] = kid[e] /\ kid'[e] \in Envs /\ status'[kid'[e]] = "making"
          /\ \A f \in Envs : pc'[f] = "fork" /\ kid'[f] = kid'[e] => f = e
      BY <1>1, <3>1, Zenon DEF ForkOf
    <3>4. ASSUME NEW k \in Fds, pn'[e] > MAXFD + k, k \in data'[e] PROVE k \in data'[kid[e]]
      BY <1>4, <2>4, <3>2, <3>4, Zenon
    <3> QED
      BY <2>3, <3>2, <3>3, <3>4, Zenon DEF ForkOf
  <2> QED
    BY <2>7, <2>8, KeepsFork, Zenon
<1>8. StreamInv'
  BY <1>1, Zenon DEF StreamInv, BufferInv, AloneInv, EndInv
<1> QED
  BY <1>1, <1>6, <1>7, <1>8 DEF Locals

\* The child that begins to run has a data page for every Fd page.
LEMMA ForkDoneStep ==
  ASSUME Types, Locals, ForkInv, StreamInv, NEW e \in Envs, fork_done(e)
  PROVE  Locals' /\ ForkInv' /\ StreamInv' /\ on' = on /\ e \in on /\ pc'[e] = "idle"
<1>1. /\ Runs(e, "fork") /\ pn[e] = 2 * MAXFD /\ Goto(e, "idle")
      /\ UNCHANGED <<on, fd, data, pipeVars, callVars, byte>>
  BY Zenon DEF fork_done, mapVars
<1>2. pc'[e] = "idle" /\ UNCHANGED <<then, fdnum, newfdnum>> /\ \A g \in Envs \ {e} : SameCall(g)
  BY <1>1, Gotos, Zenon
<1>3. e \in on /\ pc[e] = "fork" /\ LocalInv(e) /\ status[e] = "live"
  BY <1>1, Zenon DEF Runs, Locals, LocalInv, LiveInv
<1>4. PICK c \in Envs : c = kid[e] /\ status[c] = "making" /\ c # e
  BY <1>3 DEF ForkInv, ForkOf
<1>5. status'[c] = "live" /\ \A g \in Envs \ {c} : status'[g] = status[g]
  BY <1>4 DEF Types, fork_done
<1>6. pn'[e] = 0 /\ \A g \in Envs \ {e} : pn'[g] = pn[g] /\ kid'[g] = kid[g]
  BY DEF Types, fork_done
<1>7. LocalInv(c)'
  <2>1. LocalInv(c)
    BY DEF Locals
  <2>2. pc[c] = "idle" /\ pn[c] = 0
    BY <1>4, <2>1, Zenon DEF LocalInv, LiveInv
  <2>3. pc'[c] = "idle" /\ pn'[c] = 0
    BY <1>2, <1>4, <1>6, <2>2, Zenon DEF SameCall
  <2>4. ASSUME NEW k \in Fds PROVE pn[e] > MAXFD + k
    <3>1. k \in Nat /\ MAXFD \in Nat /\ k < MAXFD
      BY PipeConstants DEF Fds
    <3> QED
      BY <1>1, <3>1
  <2>5. \A k \in Fds : fd[e][k] # None => k \in data[e]
    BY <1>3, Zenon DEF LocalInv, MapInv
  <2>6. \A k \in Fds : fd[c][k] # None => k \in data[c]
    BY <1>3, <1>4, <2>4, <2>5, Zenon DEF ForkInv, ForkOf
  <2>7. ThenInv(c)' /\ OpenInv(c)'
    BY <2>3, Zenon DEF ThenInv, OpenInv, Checking, Reading, Writing
  <2>8. LiveInv(c)' /\ MapInv(c)'
    BY <1>1, <1>5, <2>3, <2>6, Zenon DEF LiveInv, MapInv
  <2> QED
    BY <2>7, <2>8 DEF LocalInv
<1>8. LocalInv(e)'
  <2>1. ThenInv(e)' /\ OpenInv(e)'
    BY <1>2, Zenon DEF ThenInv, OpenInv, Checking, Reading, Writing
  <2>2. LiveInv(e)'
    BY <1>2, <1>3, <1>4, <1>5, <1>6, Zenon DEF LiveInv
  <2>3. MapInv(e)'
    BY <1>1, <1>2, <1>3, <1>4, <1>5, Zenon DEF MapInv, LocalInv
  <2> QED
    BY <2>1, <2>2, <2>3, Zenon DEF LocalInv
<1>9. \A g \in Envs \ {e, c} : Same(g)
  BY <1>1, <1>2, <1>5, <1>6, Zenon DEF Same
<1>10. Locals'
  BY <1>7, <1>8, <1>9, Frame DEF Locals
<1>11. ForkInv'
  <2>1. ForkOf(e)'
    BY <1>2, Zenon DEF ForkOf
  <2>2. ASSUME NEW g \in Envs \ {e}, pc'[g] = "fork" PROVE SameFork(g)
    <3>1. pc[g] = "fork" /\ kid'[g] = kid[g] /\ pn'[g] = pn[g]
      BY <1>2, <1>6, <2>2, Zenon DEF SameCall
    <3>2. kid[g] \in Envs /\ kid[g] # c
      BY <1>3, <1>4, <3>1, Zenon DEF ForkInv, ForkOf
    <3> QED
      BY <1>1, <1>5, <3>1, <3>2, Zenon DEF SameFork
  <2>3. \A g \in Envs \ {e} : SameFork(g)
    BY <2>2, Zenon DEF SameFork
  <2> QED
    BY <2>1, <2>3, KeepsFork, Zenon
<1>12. StreamInv'
  BY <1>1, <1>2, CalmStream, Zenon DEF Calm
<1> QED
  BY <1>1, <1>2, <1>3, <1>10, <1>11, <1>12, Zenon

-------------------------------------------------------------------------------
(***************************************************************************)
(* The inductive invariant                                                 *)
(***************************************************************************)

\* On one CPU, a step of the environment that runs, after which it has no
\* count at hand, keeps CheckInv.
LEMMA NotChecking ==
  ASSUME Types, CheckInv, NEW e \in on, on' \subseteq on, pc'[e] \notin {"dataref", "verdict"}
  PROVE  CheckInv'
BY Zenon DEF CheckInv

\* An environment that the clock interrupts in _pipeisclosed is in ran.
LEMMA ClockCheck ==
  ASSUME NCPU = 1, Types, CheckInv, NEW f \in Envs \cup {None}, NEW e \in Envs, env_run(f, e)
  PROVE  CheckInv'
<1>1. IsFiniteSet(on)
  BY PipeConstants, FS_Subset DEF Types
<1>2. f = None => on = {}
  <2>1. ASSUME f = None PROVE Cardinality(on) < 1
    BY <2>1, Consts DEF Types, env_run
  <2>2. Cardinality(on) \in Nat
    BY <1>1, FS_CardinalityType
  <2>3. ASSUME f = None PROVE Cardinality(on) = 0
    BY <2>1, <2>2, <2>3
  <2> QED
    BY <1>1, <2>3, FS_EmptySet, Zenon
<1>3. on' = {e}
  BY <1>2, Zenon DEF env_run, CheckInv
<1>4. e \notin ran' => pc'[e] \notin {"fdref", "dataref", "verdict"}
  BY Zenon DEF env_run
<1> QED
  BY <1>3, <1>4, Zenon DEF CheckInv

\* _pipeisclosed reads the counts while nobody else runs.
LEMMA ChecksCheck ==
  ASSUME Types, CheckInv, NEW e \in Envs, Checks(e), Own(e)
  PROVE  CheckInv'
<1>1. e \in on /\ on' \subseteq on /\ \A g \in on : g = e
  BY Zenon DEF Own, CheckInv, Types
<1>2. CASE closed_fdref(e)
  <2>1. /\ pc'[e] = "dataref" /\ UNCHANGED <<fd, data, fdnum, on>>
        /\ cnt'[e] = Cardinality(FdRefs(fd[e][fdnum[e]]))
    BY <1>2, Zenon DEF Types, closed_fdref, Goto, mapVars, callVars
  <2>2. Cardinality(FdRefs(fd[e][fdnum[e]]))' = Cardinality(FdRefs(fd[e][fdnum[e]]))
    BY <2>1, Zenon DEF FdRefs
  <2> QED
    BY <1>1, <2>1, <2>2, Zenon DEF CheckInv
<1>3. CASE closed_dataref(e)
  <2>1. /\ pc[e] = "dataref" /\ UNCHANGED <<fd, data, fdnum, on, ran, cnt>>
        /\ e \in ret' => cnt[e] = Cardinality(DataRefs)
    BY <1>3, Zenon DEF closed_dataref, Runs, mapVars, callVars
  <2>2. Cardinality(FdRefs(fd[e][fdnum[e]]))' = Cardinality(FdRefs(fd[e][fdnum[e]]))
    BY <2>1, Zenon DEF FdRefs
  <2>3. Cardinality(DataRefs)' = Cardinality(DataRefs)
    BY <2>1 DEF DataRefs
  <2> QED
    BY <1>1, <2>1, <2>2, <2>3, Zenon DEF CheckInv
<1>4. CASE verdict(e)
  <2>1. CASE on' = on \ {e}
    BY <1>1, <2>1 DEF CheckInv
  <2>2. CASE on' # on \ {e}
    <3>1. pc' = [pc EXCEPT ![e] = "runs"] \/ pc' = [pc EXCEPT ![e] = "idle"]
      BY <1>4, <2>2 DEF verdict, Return, Goto
    <3>2. pc'[e] \in {"runs", "idle"}
      BY <3>1 DEF Types
    <3> QED
      BY <1>1, <3>2, NotChecking
  <2> QED
    BY <2>1, <2>2, Zenon
<1>5. CASE closed_runs(e)
  <2>1. pc'[e] = "fdref"
    BY <1>5 DEF Types, closed_runs, Goto
  <2> QED
    BY <1>1, <2>1, NotChecking
<1>6. ASSUME NEW i \in Fds, pipeisclosed(e, i) PROVE CheckInv'
  <2>1. pc'[e] = "fdref"
    BY <1>6, Calls, Zenon DEF pipeisclosed
  <2> QED
    BY <1>1, <2>1, NotChecking, Zenon
<1> QED
  BY <1>2, <1>3, <1>4, <1>5, <1>6, Zenon DEF Checks, _pipeisclosed

\* What every reachable state satisfies.
IInv == Types /\ Locals /\ ForkInv /\ StreamInv /\ (NCPU = 1 => CheckInv)

\* It holds when pipe() has returned.
LEMMA InitInv == Init => IInv
<1> SUFFICES ASSUME Init PROVE IInv
  BY Zenon
<1> USE Consts
<1>1. Types
  <2>1. 0 \in 0..(2 * MAXFD) /\ first \in Envs
    BY PipeConstants
  <2> QED
    BY <2>1 DEF Init, Types, Points
<1>2. ASSUME NEW e \in Envs PROVE LocalInv(e)
  <2>1. pc[e] = "idle" /\ pn[e] = 0 /\ (e \in on => status[e] = "live")
    BY DEF Init
  <2>2. ThenInv(e) /\ LiveInv(e) /\ OpenInv(e)
    BY <2>1, Zenon DEF ThenInv, LiveInv, OpenInv, Checking, Reading, Writing
  <2>3. MapInv(e)
    BY Zenon DEF Init, MapInv
  <2> QED
    BY <2>2, <2>3, Zenon DEF LocalInv
<1>3. ForkInv
  BY Zenon DEF Init, ForkInv, ForkOf
<1>4. StreamInv
  <2>1. BufferInv
    BY PipeConstants DEF Init, BufferInv
  <2> QED
    BY <2>1, Zenon DEF Init, StreamInv, AloneInv, EndInv
<1>5. CheckInv
  BY PipeConstants DEF Init, CheckInv
<1> QED
  BY <1>1, <1>2, <1>3, <1>4, <1>5 DEF IInv, Locals

\* Every step keeps it.
LEMMA Inductive == IInv /\ [Next]_vars => IInv'
<1> SUFFICES ASSUME IInv, [Next]_vars PROVE IInv'
  OBVIOUS
<1>1. Types /\ Locals /\ ForkInv /\ StreamInv /\ DOMAIN byte = Envs /\ (NCPU = 1 => CheckInv)
  BY DEF IInv, StreamInv
<1>2. Types'
  BY <1>1, TypesStep
<1>3. ASSUME NEW e \in Envs, Maps(e) \/ Checks(e) \/ Transfers(e)
      PROVE  Locals' /\ ForkInv' /\ StreamInv' /\ (NCPU = 1 => CheckInv')
  <2>1. Own(e) /\ LocalInv(e)'
    BY <1>1, <1>3, MapsStep, ChecksStep, TransfersStep, Zenon
  <2>2. Locals' /\ ForkInv'
    BY <1>1, <2>1, OwnLocals, OwnFork, Zenon
  <2>3. Maps(e) \/ Checks(e) => Calm(e)
    BY <1>1, MapsStep, ChecksStep, Zenon
  <2>4. StreamInv'
    BY <1>1, <1>3, <2>1, <2>3, CalmStream, TransfersStep, Zenon DEF Own, Same
  <2>5. Maps(e) \/ Transfers(e) => pc'[e] \notin {"dataref", "verdict"}
    BY <1>1, MapsStep, TransfersStep, Zenon
  <2>6. NCPU = 1 => CheckInv'
    BY <1>1, <1>3, <2>1, <2>5, NotChecking, ChecksCheck, Zenon DEF Own
  <2> QED
    BY <2>2, <2>4, <2>6, Zenon
<1>4. ASSUME NEW e \in Envs, NEW f \in Envs \cup {None}, env_run(f, e)
      PROVE  Locals' /\ ForkInv' /\ StreamInv' /\ (NCPU = 1 => CheckInv')
  BY <1>1, <1>4, RunStep, ClockCheck, Zenon
<1>5. ASSUME NEW e \in Envs, NEW c \in Envs, destroy(e, c)
      PROVE  Locals' /\ ForkInv' /\ StreamInv' /\ (NCPU = 1 => CheckInv')
  <2>1. e \in on
    BY <1>5, Zenon DEF destroy
  <2> QED
    BY <1>1, <1>5, <2>1, DestroyStep, NotChecking, Zenon
<1>6. ASSUME NEW e \in Envs, NEW c \in Envs, fork(e, c)
      PROVE  Locals' /\ ForkInv' /\ StreamInv' /\ (NCPU = 1 => CheckInv')
  BY <1>1, <1>6, ForkStep, NotChecking, Zenon
<1>7. ASSUME NEW e \in Envs, duppage(e)
      PROVE  Locals' /\ ForkInv' /\ StreamInv' /\ (NCPU = 1 => CheckInv')
  BY <1>1, <1>7, DuppageStep, NotChecking, Zenon
<1>8. ASSUME NEW e \in Envs, fork_done(e)
      PROVE  Locals' /\ ForkInv' /\ StreamInv' /\ (NCPU = 1 => CheckInv')
  BY <1>1, <1>8, ForkDoneStep, NotChecking
<1>9. CASE UNCHANGED vars
  <2>1. /\ UNCHANGED <<status, on, fd, data, rpos, wpos, buf, pc, then, fdnum, newfdnum, kid, pn>>
        /\ UNCHANGED <<ran, cnt, ret, byte>>
    BY <1>9, Zenon DEF vars, mapVars, pipeVars, callVars, checkVars
  <2>2. Locals'
    BY <1>1, <2>1, Frame, Zenon DEF Locals, Same, SameCall
  <2>3. ForkInv'
    BY <1>1, <2>1, Zenon DEF ForkInv, ForkOf
  <2>4. StreamInv'
    BY <1>1, <2>1, Zenon DEF StreamInv, BufferInv, AloneInv, EndInv
  <2>5. CheckInv => CheckInv'
    <3>1. ASSUME NEW e \in Envs
          PROVE  Cardinality(FdRefs(fd[e][fdnum[e]]))' = Cardinality(FdRefs(fd[e][fdnum[e]]))
      BY <2>1 DEF FdRefs
    <3>2. Cardinality(DataRefs)' = Cardinality(DataRefs)
      BY <2>1 DEF DataRefs
    <3>3. on \subseteq Envs
      BY <1>1, Zenon DEF Types
    <3>4. ASSUME CheckInv, NEW e \in on' \ ran'
          PROVE  /\ pc'[e] \in {"dataref", "verdict"} => cnt'[e] = Cardinality(FdRefs(fd[e][fdnum[e]]))'
                 /\ pc'[e] = "verdict" /\ e \in ret' => cnt'[e] = Cardinality(DataRefs)'
      <4>1. e \in on \ ran /\ e \in Envs
        BY <2>1, <3>3
      <4> QED
        BY <2>1, <3>1, <3>2, <3>4, <4>1, Zenon DEF CheckInv
    <3> QED
      BY <2>1, <3>4, Zenon DEF CheckInv
  <2> QED
    BY <1>1, <1>2, <2>2, <2>3, <2>4, <2>5, Zenon DEF IInv
<1> QED
  <2>1. CASE Next
    <3>1. PICK e \in Envs :
            \/ Maps(e) \/ Checks(e) \/ Transfers(e)
            \/ \E f \in Envs \cup {None} : env_run(f, e)
            \/ \E c \in Envs : fork(e, c) \/ destroy(e, c)
            \/ duppage(e) \/ fork_done(e)
      BY <2>1 DEF Next, Maps, Checks, Transfers
    <3> QED
      BY <1>2, <1>3, <1>4, <1>5, <1>6, <1>7, <1>8, <3>1, Zenon DEF IInv
  <2> QED
    BY <1>9, <2>1, Zenon

\* Every reachable state satisfies IInv.
THEOREM Invariance == Spec => []IInv
BY InitInv, Inductive, PTL DEF Spec

\* The Fd pages of one end are no more than the data pages; if they are as
\* many, nobody maps the Fd page of the other end.
LEMMA CountsTell == IInv => ClosedIsClosed
<1> SUFFICES ASSUME IInv, NCPU = 1, ~Forking, NEW e \in Envs,
                    Runs(e, "verdict"), e \in ret, ~Interrupted(e)
             PROVE  OtherGone(fd[e][fdnum[e]])
  BY Zenon DEF ClosedIsClosed
<1> DEFINE x == fd[e][fdnum[e]]
<1>1. x # None
  BY Zenon DEF IInv, Locals, LocalInv, OpenInv, Runs, Checking
<1>2. Cardinality(FdRefs(x)) = Cardinality(DataRefs)
  BY Zenon DEF IInv, CheckInv, Runs, Interrupted
<1>3. IsFiniteSet(DataRefs)
  <2>1. IsFiniteSet(Fds)
    <3>1. 0 \in Int /\ MAXFD - 1 \in Int
      BY PipeConstants
    <3> QED
      BY <3>1, FS_Interval DEF Fds
  <2>2. IsFiniteSet(Envs \X Fds)
    BY <2>1, PipeConstants, FS_Product
  <2>3. DataRefs \subseteq Envs \X Fds
    BY Zenon DEF DataRefs
  <2> QED
    BY <2>2, <2>3, FS_Subset
<1>4. \A f \in Envs, k \in Fds : fd[f][k] # None => k \in data[f]
  BY Zenon DEF IInv, Locals, LocalInv, MapInv, Forking
<1>5. FdRefs(x) \subseteq DataRefs
  BY <1>1, <1>4, Zenon DEF FdRefs, DataRefs
<1>6. FdRefs(x) = DataRefs
  BY <1>2, <1>3, <1>5, FS_Subset, Zenon
<1>7. ASSUME NEW f \in Envs, NEW k \in Fds, fd[f][k] # None PROVE fd[f][k] = x
  <2>1. <<f, k>> \in DataRefs
    BY <1>4, <1>7, Zenon DEF DataRefs
  <2>2. <<f, k>> \in FdRefs(x)
    BY <1>6, <2>1
  <2> QED
    BY <2>2, Zenon DEF FdRefs
<1> QED
  BY <1>7 DEF OtherGone

\* On one CPU, for any number of environments and descriptors and any number
\* of interruptions, _pipeisclosed takes no pipe for closed whose other end
\* is open, unless fork is making a child.
THEOREM ClosedMeansClosed == Spec => []ClosedIsClosed
BY Invariance, CountsTell, PTL

\* On any number of CPUs, whoever is interrupted or destroyed between its
\* steps, the bytes come out of the pipe in the order in which they went in.
THEOREM BytesInOrder == Spec => []InOrder
<1>1. IInv => InOrder
  BY DEF IInv, StreamInv, EndInv, InOrder
<1> QED
  BY <1>1, Invariance, PTL
===============================================================================
