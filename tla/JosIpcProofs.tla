---------------------------- MODULE JosIpcProofs ----------------------------
(* Proofs about JosIpc: for any set of clients, any request codes, and with  *)
(* clients that die and memory that runs out at any point.                   *)
EXTENDS JosIpc, TLAPS

\* The server has c's request and has not answered it.
Active(c) ==
  \/ pc[FS] = "recv" /\ ~env_ipc_recving[FS] /\ env_ipc_from[FS] = c
  \/ pc[FS] \in {"handle", "reply", "panic"} /\ whom = c

\* o answers the request of c, and c's page and descriptor address agree with it.
Answers(o, c) ==
  /\ o \in Outcomes
  /\ o.type = req[c]
  /\ o.arg = c
  /\ req[c] = "other" /\ o.r = "ok" => buf[c] = o

\* Where the server is, and what it holds.
ServerInv ==
  /\ env_ipc_recving[FS] => /\ pc[FS] = "recv"
                            /\ env_ipc_from[FS] = NoEnv
  /\ pc[FS] = "recv" => env_ipc_dstva[FS] = "pg"
  /\ pc[FS] = "recv" /\ ~env_ipc_recving[FS] =>
       /\ env_ipc_from[FS] \in Clients
       /\ at_pg[FS] = env_ipc_from[FS]
       /\ env_ipc_perm[FS]
       /\ env_ipc_value[FS] = req[env_ipc_from[FS]]
  /\ pc[FS] \in {"handle", "reply", "unmap", "panic"} =>
       whom \in Clients /\ at_pg[FS] = whom
  /\ pc[FS] \in {"handle", "reply"} => sreq = req[whom]
  /\ pc[FS] \in {"reply", "panic"} =>
       /\ Answers(out[whom], whom)
       /\ pg = IF req[whom] = "open" /\ out[whom].r = "ok" THEN FdPage ELSE NoPage

\* Where client c is, and what the kernel holds for it.
ClientInv(c) ==
  /\ Active(c) => /\ pc[c] \in {"sent", "wait", "dead"}
                  /\ pc[c] = "wait" => env_ipc_recving[c]
  /\ pc[c] = "sent" \/ (pc[c] = "wait" /\ env_ipc_recving[c]) => Active(c)
  /\ env_ipc_recving[c] => pc[c] \in {"wait", "dead"}
  /\ pc[c] = "wait" => env_ipc_dstva[c] = ReplyAddress(c)
  /\ pc[c] = "wait" /\ ~env_ipc_recving[c] =>
       /\ env_ipc_value[c] = out[c]
       /\ Answers(out[c], c)
       /\ req[c] = "open" => (at_pg[c] # NoPage <=> out[c].r = "ok")
  /\ pc[c] \in {"send", "sent"} \/ (pc[c] = "wait" /\ env_ipc_recving[c]) =>
       (req[c] = "open" => at_pg[c] = NoPage)
  /\ pc[c] # "idle" => ret[c] = None

IInv ==
  /\ TypeOK
  /\ UenvsIntact
  /\ ServerInv
  /\ \A c \in Clients : ClientInv(c)
-----------------------------------------------------------------------------
(* The invariant is inductive: one lemma for each action.                    *)

\* TypeOK in three parts: the kernel's fields, the data, and the program
\* counters.
KernType ==
  /\ env_ipc_recving \in [Envs -> BOOLEAN]
  /\ env_ipc_from \in [Envs -> Envs \cup {NoEnv}]
  /\ \A c \in Clients : env_ipc_value[c] \in Outcomes \cup {None}
  /\ env_ipc_value[FS] \in Types \cup {None}
  /\ env_ipc_value = [e \in Envs |-> env_ipc_value[e]]
  /\ env_ipc_perm \in [Envs -> BOOLEAN]
  /\ env_ipc_dstva \in [Envs -> {"0", "pg", "UTOP"}]
  /\ \A e \in Envs : env_ipc_recving[e] => env_ipc_dstva[e] # "0"

PcType ==
  /\ pc[FS] \in {"top", "recv", "handle", "reply", "unmap", "panic"}
  /\ \A c \in Clients :
       pc[c] \in {"idle", "send", "sent", "wait", "panic", "dead"}
  /\ pc = [e \in Envs |-> pc[e]]

DataType ==
  /\ at_pg \in [Envs -> Pages \cup {NoPage}]
  /\ at_uenvs \in Pages \cup {EnvsPage}
  /\ buf \in [Clients -> Outcomes \cup {None}]
  /\ cow \in [Clients -> BOOLEAN]
  /\ req \in [Clients -> Types]
  /\ whom \in Clients \cup {NoEnv}
  /\ sreq \in Types
  /\ pg \in {FdPage, NoPage}
  /\ out \in [Clients -> Outcomes \cup {None}]
  /\ ret = [c \in Clients |-> ret[c]]

\* A step moves one program and leaves the others where they are.
LEMMA Moves ==
  ASSUME NEW e \in Envs, NEW l, pc = [f \in Envs |-> pc[f]], Goto(e, l)
  PROVE  /\ pc'[e] = l
         /\ \A f \in Envs \ {e} : pc'[f] = pc[f]
         /\ pc' = [f \in Envs |-> pc'[f]]
  BY DEF Goto

\* What is known of a client stays true when a step leaves its fields alone and
\* the server neither takes nor answers its request.
LEMMA ClientFrame ==
  ASSUME NEW d \in Clients, ClientInv(d),
         Active(d)' <=> Active(d),
         pc'[d] = pc[d],
         env_ipc_recving'[d] = env_ipc_recving[d],
         env_ipc_dstva'[d] = env_ipc_dstva[d],
         env_ipc_value'[d] = env_ipc_value[d],
         at_pg'[d] = at_pg[d],
         buf'[d] = buf[d],
         out'[d] = out[d],
         req'[d] = req[d],
         ret'[d] = ret[d]
  PROVE  ClientInv(d)'
<1>1. Answers(out[d], d)' <=> Answers(out[d], d)
  BY DEF Answers, Outcomes
<1>2. ReplyAddress(d)' = ReplyAddress(d)
  BY DEF ReplyAddress
<1>3. QED
  BY <1>1, <1>2 DEF ClientInv

\* A client starts a call (the callers of fsipc).
LEMMA FsipcStep ==
  ASSUME IInv, NEW c \in Clients, NEW t \in Types, fsipc(c, t)
  PROVE  IInv'
<1> USE IpcAssumption DEF Envs, Pages
<1>1. TypeOK /\ UenvsIntact /\ ServerInv /\ \A d \in Clients : ClientInv(d)
  BY DEF IInv
<1>2. TypeOK'
  <2>1. buf' \in [Clients -> Outcomes \cup {None}] /\ cow' \in [Clients -> BOOLEAN]
    <3>1. CASE t = "sync"
      BY <1>1, <3>1 DEF TypeOK, fsipc
    <3>2. CASE t # "sync"
      <4>1. /\ buf' = [buf EXCEPT ![c] = None]
            /\ cow' = [cow EXCEPT ![c] = FALSE]
        BY <3>2 DEF fsipc
      <4>2. QED
        BY <1>1, <4>1 DEF TypeOK
    <3>3. QED
      BY <3>1, <3>2
  <2>2. Goto(c, "send") /\ pc = [f \in Envs |-> pc[f]]
    BY <1>1 DEF TypeOK, fsipc
  <2>3. /\ pc'[c] = "send"
        /\ \A f \in Envs \ {c} : pc'[f] = pc[f]
        /\ pc' = [f \in Envs |-> pc'[f]]
    BY <2>2, Moves
  <2>4. KernType'
    BY <1>1 DEF TypeOK, KernType, fsipc, kern
  <2>5. DataType'
    <3>1. /\ req' = [req EXCEPT ![c] = t]
          /\ ret' = [ret EXCEPT ![c] = None]
          /\ UNCHANGED <<at_pg, at_uenvs, whom, sreq, pg, out>>
      BY DEF fsipc
    <3>2. req' \in [Clients -> Types] /\ ret' = [d \in Clients |-> ret'[d]]
      BY <1>1, <3>1 DEF TypeOK
    <3>3. QED
      BY <1>1, <2>1, <3>1, <3>2 DEF TypeOK, DataType
  <2>6. PcType'
    BY <1>1, <2>3, Zenon DEF TypeOK, PcType
  <2>7. QED
    BY <2>4, <2>5, <2>6 DEF TypeOK, KernType, DataType, PcType
<1>3. UenvsIntact'
  BY <1>1 DEF UenvsIntact, fsipc, Goto, kern
<1>4. ServerInv'
  BY <1>1 DEF Outcomes, TypeOK, ServerInv, ClientInv, Active, Answers,
     ReplyAddress, fsipc, Goto, kern
<1>5. ASSUME NEW d \in Clients PROVE ClientInv(d)'
  BY <1>1 DEF Outcomes, TypeOK, ServerInv, ClientInv, Active, Answers,
     ReplyAddress, fsipc, Goto, kern
<1>6. QED
  BY <1>2, <1>3, <1>4, <1>5 DEF IInv

\* The server takes the request of a client (the ipc_send of fsipc).
LEMMA SendStep ==
  ASSUME IInv, NEW c \in Clients, fsipc_send(c)
  PROVE  IInv'
<1> USE IpcAssumption DEF Envs, Pages
<1>1. TypeOK /\ UenvsIntact /\ ServerInv /\ \A d \in Clients : ClientInv(d)
  BY DEF IInv
<1>2. TypeOK'
  <2>1. Goto(c, "sent") /\ pc = [f \in Envs |-> pc[f]]
    BY <1>1 DEF TypeOK, fsipc_send
  <2>2. /\ pc'[c] = "sent"
        /\ \A f \in Envs \ {c} : pc'[f] = pc[f]
        /\ pc' = [f \in Envs |-> pc'[f]]
    BY <2>1, Moves
  <2>3. KernType'
    BY <1>1, Zenon DEF TypeOK, KernType, fsipc_send, sys_ipc_try_send, CanSend
  <2>4. DataType'
    BY <1>1 DEF TypeOK, DataType, fsipc_send, sys_ipc_try_send, CanSend
  <2>5. PcType'
    BY <1>1, <2>2, Zenon DEF TypeOK, PcType
  <2>6. QED
    BY <2>3, <2>4, <2>5 DEF TypeOK, KernType, DataType, PcType
<1>3. UenvsIntact'
  BY <1>1 DEF TypeOK, UenvsIntact, ServerInv, ClientInv, Active,
     ReplyAddress, fsipc_send, sys_ipc_try_send, CanSend, Goto
<1>4. ServerInv'
  BY <1>1 DEF Outcomes, TypeOK, ServerInv, ClientInv, Active, Answers,
     ReplyAddress, fsipc_send, sys_ipc_try_send, CanSend, Goto
<1>5. ASSUME NEW d \in Clients PROVE ClientInv(d)'
  <2>1. /\ pc[c] = "send"
        /\ pc' = [pc EXCEPT ![c] = "sent"]
        /\ UNCHANGED <<env_ipc_dstva, buf, req, whom, out, ret>>
        /\ env_ipc_from' = [env_ipc_from EXCEPT ![FS] = c]
        /\ env_ipc_recving' = [env_ipc_recving EXCEPT ![FS] = FALSE]
        /\ env_ipc_value' = [env_ipc_value EXCEPT ![FS] = req[c]]
    BY DEF fsipc_send, sys_ipc_try_send, Goto
  <2>2. pc[FS] = "recv" /\ env_ipc_recving[FS]
    BY <1>1 DEF fsipc_send, sys_ipc_try_send, CanSend, ServerInv
  <2>3. /\ pc'[FS] = "recv" /\ ~env_ipc_recving'[FS] /\ env_ipc_from'[FS] = c
        /\ pc'[c] = "sent"
        /\ d # c => pc'[d] = pc[d]
        /\ env_ipc_recving'[d] = env_ipc_recving[d]
        /\ env_ipc_value'[d] = env_ipc_value[d]
    BY <1>1, <2>1, <2>2, Zenon DEF TypeOK
  <2>4. at_pg'[d] = at_pg[d]
    BY <1>1 DEF TypeOK, fsipc_send, sys_ipc_try_send
  <2>5. ~Active(d) /\ (Active(d)' <=> d = c)
    BY <2>2, <2>3 DEF Active
  <2>6. CASE d # c
    BY <1>1, <2>1, <2>3, <2>4, <2>5, <2>6, ClientFrame, Zenon
  <2>7. CASE d = c
    <3>1. ClientInv(c)
      BY <1>1
    <3>2. ~env_ipc_recving[c]
      BY <2>1, <3>1 DEF ClientInv
    <3>3. QED
      BY <2>1, <2>3, <2>4, <2>5, <2>7, <3>1, <3>2 DEF ClientInv
  <2>8. QED
    BY <2>6, <2>7
<1>6. QED
  BY <1>2, <1>3, <1>4, <1>5 DEF IInv

\* ipc_send panics in a client.
LEMMA PanicStep ==
  ASSUME IInv, NEW c \in Clients, fsipc_panic(c)
  PROVE  IInv'
<1> USE IpcAssumption DEF Envs, Pages
<1>1. TypeOK /\ UenvsIntact /\ ServerInv /\ \A d \in Clients : ClientInv(d)
  BY DEF IInv
<1>2. TypeOK'
  <2>1. Goto(c, "panic") /\ pc = [f \in Envs |-> pc[f]]
    BY <1>1 DEF TypeOK, fsipc_panic, ipc_send_panic
  <2>2. /\ pc'[c] = "panic"
        /\ \A f \in Envs \ {c} : pc'[f] = pc[f]
        /\ pc' = [f \in Envs |-> pc'[f]]
    BY <2>1, Moves
  <2>3. KernType'
    BY <1>1 DEF TypeOK, KernType, fsipc_panic, ipc_send_panic, CanSend, kern
  <2>4. DataType'
    BY <1>1 DEF TypeOK, DataType, fsipc_panic, ipc_send_panic, CanSend
  <2>5. PcType'
    BY <1>1, <2>2, Zenon DEF TypeOK, PcType
  <2>6. QED
    BY <2>3, <2>4, <2>5 DEF TypeOK, KernType, DataType, PcType
<1>3. UenvsIntact'
  BY <1>1 DEF UenvsIntact, fsipc_panic, ipc_send_panic, CanSend, Goto, kern
<1>4. ServerInv'
  BY <1>1 DEF Outcomes, TypeOK, ServerInv, ClientInv, Active, Answers,
     ReplyAddress, fsipc_panic, ipc_send_panic, CanSend, Goto, kern
<1>5. ASSUME NEW d \in Clients PROVE ClientInv(d)'
  BY <1>1 DEF Outcomes, TypeOK, ServerInv, ClientInv, Active, Answers,
     ReplyAddress, fsipc_panic, ipc_send_panic, CanSend, Goto, kern
<1>6. QED
  BY <1>2, <1>3, <1>4, <1>5 DEF IInv

\* A client blocks for the answer (the ipc_recv of fsipc).
LEMMA RecvStep ==
  ASSUME IInv, NEW c \in Clients, fsipc_recv(c)
  PROVE  IInv'
<1> USE IpcAssumption DEF Envs, Pages
<1>1. TypeOK /\ UenvsIntact /\ ServerInv /\ \A d \in Clients : ClientInv(d)
  BY DEF IInv
<1>2. TypeOK'
  <2>1. Goto(c, "wait") /\ pc = [f \in Envs |-> pc[f]]
    BY <1>1 DEF TypeOK, fsipc_recv
  <2>2. /\ pc'[c] = "wait"
        /\ \A f \in Envs \ {c} : pc'[f] = pc[f]
        /\ pc' = [f \in Envs |-> pc'[f]]
    BY <2>1, Moves
  <2>3. KernType'
    BY <1>1 DEF TypeOK, KernType, ReplyAddress, fsipc_recv, sys_ipc_recv
  <2>4. DataType'
    BY <1>1 DEF TypeOK, DataType, ReplyAddress, fsipc_recv, sys_ipc_recv
  <2>5. PcType'
    BY <1>1, <2>2, Zenon DEF TypeOK, PcType
  <2>6. QED
    BY <2>3, <2>4, <2>5 DEF TypeOK, KernType, DataType, PcType
<1>3. UenvsIntact'
  BY <1>1 DEF UenvsIntact, fsipc_recv, sys_ipc_recv, Goto
<1>4. ServerInv'
  BY <1>1 DEF Outcomes, TypeOK, ServerInv, ClientInv, Active, Answers,
     ReplyAddress, fsipc_recv, sys_ipc_recv, Goto
<1>5. ASSUME NEW d \in Clients PROVE ClientInv(d)'
  BY <1>1 DEF Outcomes, TypeOK, ServerInv, ClientInv, Active, Answers,
     ReplyAddress, fsipc_recv, sys_ipc_recv, Goto
<1>6. QED
  BY <1>2, <1>3, <1>4, <1>5 DEF IInv

\* A client has its answer (fsipc returns).
LEMMA ReturnStep ==
  ASSUME IInv, NEW c \in Clients, fsipc_return(c)
  PROVE  IInv'
<1> USE IpcAssumption DEF Envs, Pages
<1>1. TypeOK /\ UenvsIntact /\ ServerInv /\ \A d \in Clients : ClientInv(d)
  BY DEF IInv
<1>2. TypeOK'
  <2>1. Goto(c, "idle") /\ pc = [f \in Envs |-> pc[f]]
    BY <1>1 DEF TypeOK, fsipc_return
  <2>2. /\ pc'[c] = "idle"
        /\ \A f \in Envs \ {c} : pc'[f] = pc[f]
        /\ pc' = [f \in Envs |-> pc'[f]]
    BY <2>1, Moves
  <2>3. KernType'
    BY <1>1 DEF TypeOK, KernType, fsipc_return, kern
  <2>4. DataType'
    BY <1>1 DEF TypeOK, DataType, fsipc_return
  <2>5. PcType'
    BY <1>1, <2>2, Zenon DEF TypeOK, PcType
  <2>6. QED
    BY <2>3, <2>4, <2>5 DEF TypeOK, KernType, DataType, PcType
<1>3. UenvsIntact'
  BY <1>1 DEF UenvsIntact, fsipc_return, Goto, kern
<1>4. ServerInv'
  BY <1>1 DEF Outcomes, TypeOK, ServerInv, ClientInv, Active, Answers,
     ReplyAddress, fsipc_return, Goto, kern
<1>5. ASSUME NEW d \in Clients PROVE ClientInv(d)'
  <2>1. /\ pc' = [pc EXCEPT ![c] = "idle"]
        /\ UNCHANGED <<env_ipc_recving, env_ipc_from, env_ipc_value, env_ipc_dstva,
                      at_pg, buf, req, whom>>
    BY DEF fsipc_return, Goto, kern
  <2>2. /\ pc'[FS] = pc[FS]
        /\ pc'[c] = "idle"
        /\ d # c => pc'[d] = pc[d] /\ out'[d] = out[d] /\ ret'[d] = ret[d]
    BY <1>1, <2>1 DEF TypeOK, fsipc_return
  <2>3. Active(d)' <=> Active(d)
    BY <2>1, <2>2 DEF Active
  <2>4. CASE d # c
    BY <1>1, <2>1, <2>2, <2>3, <2>4, ClientFrame
  <2>5. CASE d = c
    <3>1. ~env_ipc_recving[c] /\ ~Active(c)
      BY <1>1 DEF ClientInv, fsipc_return
    <3>2. QED
      BY <2>1, <2>2, <2>3, <2>5, <3>1 DEF ClientInv
  <2>6. QED
    BY <2>4, <2>5
<1>6. QED
  BY <1>2, <1>3, <1>4, <1>5 DEF IInv

\* A client closes its descriptor (fd_close).
LEMMA CloseStep ==
  ASSUME IInv, NEW c \in Clients, fd_close(c)
  PROVE  IInv'
<1> USE IpcAssumption DEF Envs, Pages
<1>1. TypeOK /\ UenvsIntact /\ ServerInv /\ \A d \in Clients : ClientInv(d)
  BY DEF IInv
<1>2. TypeOK'
  BY <1>1 DEF TypeOK, fd_close, kern
<1>3. UenvsIntact'
  BY <1>1 DEF UenvsIntact, fd_close, kern
<1>4. ServerInv'
  BY <1>1 DEF Outcomes, TypeOK, ServerInv, ClientInv, Active, Answers,
     ReplyAddress, fd_close, kern
<1>5. ASSUME NEW d \in Clients PROVE ClientInv(d)'
  BY <1>1 DEF Outcomes, TypeOK, ServerInv, ClientInv, Active, Answers,
     ReplyAddress, fd_close, kern
<1>6. QED
  BY <1>2, <1>3, <1>4, <1>5 DEF IInv

\* A client forks, and its fsipcbuf becomes copy-on-write (duppage).
LEMMA ForkStep ==
  ASSUME IInv, NEW c \in Clients, fork(c)
  PROVE  IInv'
<1> USE IpcAssumption DEF Envs, Pages
<1>1. TypeOK /\ UenvsIntact /\ ServerInv /\ \A d \in Clients : ClientInv(d)
  BY DEF IInv
<1>2. TypeOK'
  BY <1>1 DEF TypeOK, fork, kern
<1>3. UenvsIntact'
  BY <1>1 DEF UenvsIntact, fork, kern
<1>4. ServerInv'
  BY <1>1 DEF Outcomes, TypeOK, ServerInv, ClientInv, Active, Answers,
     ReplyAddress, fork, kern
<1>5. ASSUME NEW d \in Clients PROVE ClientInv(d)'
  BY <1>1 DEF Outcomes, TypeOK, ServerInv, ClientInv, Active, Answers,
     ReplyAddress, fork, kern
<1>6. QED
  BY <1>2, <1>3, <1>4, <1>5 DEF IInv

\* A client dies, perhaps in the middle of a call (env_destroy).
LEMMA DestroyStep ==
  ASSUME IInv, NEW c \in Clients, env_destroy(c)
  PROVE  IInv'
<1> USE IpcAssumption DEF Envs, Pages
<1>1. TypeOK /\ UenvsIntact /\ ServerInv /\ \A d \in Clients : ClientInv(d)
  BY DEF IInv
<1>2. TypeOK'
  <2>1. Goto(c, "dead") /\ pc = [f \in Envs |-> pc[f]]
    BY <1>1 DEF TypeOK, env_destroy
  <2>2. /\ pc'[c] = "dead"
        /\ \A f \in Envs \ {c} : pc'[f] = pc[f]
        /\ pc' = [f \in Envs |-> pc'[f]]
    BY <2>1, Moves
  <2>3. KernType'
    BY <1>1 DEF TypeOK, KernType, env_destroy, kern
  <2>4. DataType'
    <3>1. /\ at_pg' = [at_pg EXCEPT ![c] = NoPage]
          /\ ret' = [ret EXCEPT ![c] = None]
          /\ UNCHANGED <<at_uenvs, buf, cow, req, whom, sreq, pg, out>>
      BY DEF env_destroy
    <3>2. /\ at_pg' \in [Envs -> Pages \cup {NoPage}]
          /\ ret' = [d \in Clients |-> ret'[d]]
      BY <1>1, <3>1, Zenon DEF TypeOK
    <3>3. QED
      BY <1>1, <3>1, <3>2 DEF TypeOK, DataType
  <2>5. PcType'
    BY <1>1, <2>2, Zenon DEF TypeOK, PcType
  <2>6. QED
    BY <2>3, <2>4, <2>5 DEF TypeOK, KernType, DataType, PcType
<1>3. UenvsIntact'
  BY <1>1 DEF UenvsIntact, env_destroy, Goto, kern
<1>4. ServerInv'
  BY <1>1 DEF Outcomes, TypeOK, ServerInv, ClientInv, Active, Answers,
     ReplyAddress, env_destroy, Goto, kern
<1>5. ASSUME NEW d \in Clients PROVE ClientInv(d)'
  <2>1. /\ pc' = [pc EXCEPT ![c] = "dead"]
        /\ UNCHANGED <<env_ipc_recving, env_ipc_from, env_ipc_value, env_ipc_dstva,
                      buf, req, whom, out>>
    BY DEF env_destroy, Goto, kern
  <2>2. /\ pc'[FS] = pc[FS]
        /\ pc'[c] = "dead"
        /\ ret'[c] = None
        /\ d # c => pc'[d] = pc[d] /\ at_pg'[d] = at_pg[d] /\ ret'[d] = ret[d]
    BY <1>1, <2>1 DEF TypeOK, env_destroy
  <2>3. Active(d)' <=> Active(d)
    BY <2>1, <2>2 DEF Active
  <2>4. CASE d # c
    BY <1>1, <2>1, <2>2, <2>3, <2>4, ClientFrame
  <2>5. CASE d = c
    BY <2>2, <2>5 DEF ClientInv
  <2>6. QED
    BY <2>4, <2>5
<1>6. QED
  BY <1>2, <1>3, <1>4, <1>5 DEF IInv

\* The server blocks for a request (serve).
LEMMA ServeRecvStep ==
  ASSUME IInv, serve_recv
  PROVE  IInv'
<1> USE IpcAssumption DEF Envs, Pages
<1>1. TypeOK /\ UenvsIntact /\ ServerInv /\ \A d \in Clients : ClientInv(d)
  BY DEF IInv
<1>2. TypeOK'
  <2>1. Goto(FS, "recv") /\ pc = [f \in Envs |-> pc[f]]
    BY <1>1 DEF TypeOK, serve_recv
  <2>2. /\ pc'[FS] = "recv"
        /\ \A f \in Envs \ {FS} : pc'[f] = pc[f]
        /\ pc' = [f \in Envs |-> pc'[f]]
    BY <2>1, Moves
  <2>3. KernType'
    BY <1>1 DEF TypeOK, KernType, serve_recv, sys_ipc_recv
  <2>4. DataType'
    BY <1>1 DEF TypeOK, DataType, serve_recv, sys_ipc_recv
  <2>5. PcType'
    BY <1>1, <2>2, Zenon DEF TypeOK, PcType
  <2>6. QED
    BY <2>3, <2>4, <2>5 DEF TypeOK, KernType, DataType, PcType
<1>3. UenvsIntact'
  BY <1>1 DEF UenvsIntact, serve_recv, sys_ipc_recv, Goto
<1>4. ServerInv'
  BY <1>1 DEF Outcomes, TypeOK, ServerInv, ClientInv, Active, Answers,
     ReplyAddress, serve_recv, sys_ipc_recv, Goto
<1>5. ASSUME NEW d \in Clients PROVE ClientInv(d)'
  BY <1>1 DEF Outcomes, TypeOK, ServerInv, ClientInv, Active, Answers,
     ReplyAddress, serve_recv, sys_ipc_recv, Goto
<1>6. QED
  BY <1>2, <1>3, <1>4, <1>5 DEF IInv

\* The server sees a request (serve).
LEMMA ServeWakeStep ==
  ASSUME IInv, serve_wake
  PROVE  IInv'
<1> USE IpcAssumption DEF Envs, Pages
<1>1. TypeOK /\ UenvsIntact /\ ServerInv /\ \A d \in Clients : ClientInv(d)
  BY DEF IInv
<1>2. TypeOK'
  <2>1. whom' \in Clients /\ sreq' \in Types
    BY <1>1 DEF TypeOK, ServerInv, serve_wake, Goto, kern
  <2>2. PICK l \in {"handle", "top"} : Goto(FS, l)
    BY DEF serve_wake
  <2>3. /\ pc'[FS] = l
        /\ \A e \in Envs \ {FS} : pc'[e] = pc[e]
        /\ pc' = [e \in Envs |-> pc'[e]]
    BY <1>1, <2>2, Moves, Zenon DEF TypeOK
  <2>4. UNCHANGED <<kern, at_pg, at_uenvs, buf, cow, req, pg, out, ret>>
    BY DEF serve_wake
  <2>5. KernType'
    BY <1>1, <2>4 DEF TypeOK, KernType, kern
  <2>6. DataType'
    BY <1>1, <2>1, <2>4 DEF TypeOK, DataType
  <2>7. PcType'
    BY <1>1, <2>3, Zenon DEF TypeOK, PcType
  <2>8. QED
    BY <2>5, <2>6, <2>7 DEF TypeOK, KernType, DataType, PcType
<1>3. UenvsIntact'
  BY <1>1 DEF UenvsIntact, serve_wake, Goto, kern
<1>4. ServerInv'
  BY <1>1 DEF Outcomes, TypeOK, ServerInv, ClientInv, Active, Answers,
     ReplyAddress, serve_wake, Goto, kern
<1>5. ASSUME NEW d \in Clients PROVE ClientInv(d)'
  BY <1>1 DEF Outcomes, TypeOK, ServerInv, ClientInv, Active, Answers,
     ReplyAddress, serve_wake, Goto, kern
<1>6. QED
  BY <1>2, <1>3, <1>4, <1>5 DEF IInv

\* The server works on a request (serve_open and the handlers).
LEMMA ServeHandleStep ==
  ASSUME IInv, NEW r \in {"ok", "fail"}, serve_handle(r)
  PROVE  IInv'
<1> USE IpcAssumption DEF Envs, Pages
<1>1. TypeOK /\ UenvsIntact /\ ServerInv /\ \A d \in Clients : ClientInv(d)
  BY DEF IInv
<1>2. TypeOK'
  <2>1. [type |-> sreq, arg |-> at_pg[FS], r |-> r] \in Outcomes
    BY <1>1 DEF TypeOK, Outcomes, serve_handle
  <2>2. buf' \in [Clients -> Outcomes \cup {None}]
    BY <1>1, <2>1 DEF TypeOK, serve_handle
  <2>3. out' \in [Clients -> Outcomes \cup {None}]
    BY <1>1, <2>1, Zenon DEF TypeOK, serve_handle
  <2>4. /\ pc'[FS] = "reply"
        /\ \A f \in Envs \ {FS} : pc'[f] = pc[f]
        /\ pc' = [f \in Envs |-> pc'[f]]
    <3>1. Goto(FS, "reply") /\ pc = [f \in Envs |-> pc[f]]
      BY <1>1 DEF TypeOK, serve_handle
    <3>2. QED
      BY <3>1, Moves
  <2>5. UNCHANGED <<kern, at_pg, at_uenvs, cow, req, whom, sreq, ret>>
    BY DEF serve_handle
  <2>6. pg' \in {FdPage, NoPage}
    BY DEF serve_handle
  <2>7. PcType'
    BY <1>1, <2>4, Zenon DEF TypeOK, PcType
  <2>8. KernType'
    BY <1>1, <2>5 DEF TypeOK, KernType, kern
  <2>9. DataType'
    BY <1>1, <2>2, <2>3, <2>5, <2>6 DEF TypeOK, DataType
  <2>10. QED
    BY <2>7, <2>8, <2>9 DEF TypeOK, KernType, DataType, PcType
<1>3. UenvsIntact'
  BY <1>1 DEF UenvsIntact, serve_handle, Goto, kern
<1>4. ServerInv'
  BY <1>1 DEF Outcomes, TypeOK, ServerInv, ClientInv, Active, Answers,
     ReplyAddress, serve_handle, Goto, kern
<1>5. ASSUME NEW d \in Clients PROVE ClientInv(d)'
  <2>1. PICK w \in Clients : w = whom /\ at_pg[FS] = w
    BY <1>1, Zenon DEF ServerInv, serve_handle
  <2>2. /\ pc[FS] = "handle"
        /\ pc' = [pc EXCEPT ![FS] = "reply"]
        /\ UNCHANGED <<env_ipc_recving, env_ipc_from, env_ipc_value, env_ipc_dstva,
                      at_pg, req, whom, ret>>
    BY DEF serve_handle, Goto, kern
  <2>3. /\ pc'[FS] = "reply" /\ pc'[d] = pc[d]
        /\ d # w => out'[d] = out[d] /\ buf'[d] = buf[d]
    BY <1>1, <2>1, <2>2 DEF TypeOK, serve_handle
  <2>4. Active(d)' <=> Active(d)
    BY <2>2, <2>3 DEF Active
  <2>5. CASE d # w
    BY <1>1, <2>2, <2>3, <2>4, <2>5, ClientFrame
  <2>6. CASE d = w
    <3>1. Active(d)
      BY <2>1, <2>2, <2>6 DEF Active
    <3>2. ClientInv(d)
      BY <1>1
    <3>3. ReplyAddress(d)' = ReplyAddress(d)
      BY <2>2 DEF ReplyAddress
    <3>4. QED
      BY <2>2, <2>3, <2>4, <3>1, <3>2, <3>3 DEF ClientInv
  <2>7. QED
    BY <2>5, <2>6
<1>6. QED
  BY <1>2, <1>3, <1>4, <1>5 DEF IInv

\* The server answers (the ipc_send of serve).
LEMMA ServeReplyStep ==
  ASSUME IInv, serve_reply
  PROVE  IInv'
<1> USE IpcAssumption DEF Envs, Pages
<1>1. TypeOK /\ UenvsIntact /\ ServerInv /\ \A d \in Clients : ClientInv(d)
  BY DEF IInv
<1>2. TypeOK'
  <2>1. Goto(FS, "unmap") /\ pc = [f \in Envs |-> pc[f]]
    BY <1>1 DEF TypeOK, serve_reply
  <2>2. /\ pc'[FS] = "unmap"
        /\ \A f \in Envs \ {FS} : pc'[f] = pc[f]
        /\ pc' = [f \in Envs |-> pc'[f]]
    BY <2>1, Moves
  <2>3. KernType'
    <3>1. whom \in Clients /\ out[whom] \in Outcomes
      BY <1>1 DEF ServerInv, Answers, serve_reply
    <3>2. /\ env_ipc_from' = [env_ipc_from EXCEPT ![whom] = FS]
          /\ env_ipc_recving' = [env_ipc_recving EXCEPT ![whom] = FALSE]
          /\ env_ipc_value' = [env_ipc_value EXCEPT ![whom] = out[whom]]
          /\ env_ipc_dstva' = env_ipc_dstva
          /\ \/ env_ipc_perm' = env_ipc_perm
             \/ env_ipc_perm' = [env_ipc_perm EXCEPT ![whom] = TRUE]
      BY DEF serve_reply, sys_ipc_try_send
    <3>3. /\ env_ipc_recving' \in [Envs -> BOOLEAN]
          /\ env_ipc_from' \in [Envs -> Envs \cup {NoEnv}]
          /\ env_ipc_perm' \in [Envs -> BOOLEAN]
      BY <1>1, <3>1, <3>2, Zenon DEF TypeOK
    <3>4. /\ \A d \in Clients : env_ipc_value'[d] \in Outcomes \cup {None}
          /\ env_ipc_value'[FS] = env_ipc_value[FS]
          /\ env_ipc_value' = [e \in Envs |-> env_ipc_value'[e]]
      BY <1>1, <3>1, <3>2, Zenon DEF TypeOK
    <3>5. \A e \in Envs : env_ipc_recving'[e] => env_ipc_recving[e]
      BY <1>1, <3>1, <3>2 DEF TypeOK
    <3>6. QED
      BY <1>1, <3>2, <3>3, <3>4, <3>5, Zenon DEF TypeOK, KernType
  <2>4. DataType'
    BY <1>1 DEF TypeOK, DataType, ServerInv, Answers, serve_reply,
       sys_ipc_try_send, CanSend
  <2>5. PcType'
    BY <1>1, <2>2, Zenon DEF TypeOK, PcType
  <2>6. QED
    BY <2>3, <2>4, <2>5 DEF TypeOK, KernType, DataType, PcType
<1>3. UenvsIntact'
  BY <1>1 DEF TypeOK, UenvsIntact, ServerInv, ClientInv, Active,
     ReplyAddress, serve_reply, sys_ipc_try_send, CanSend, Goto
<1>4. ServerInv'
  BY <1>1 DEF Outcomes, TypeOK, ServerInv, ClientInv, Active, Answers,
     ReplyAddress, serve_reply, sys_ipc_try_send, CanSend, Goto
<1>5. ASSUME NEW d \in Clients PROVE ClientInv(d)'
  <2>1. PICK w \in Clients : w = whom
    BY <1>1 DEF ServerInv, serve_reply
  <2>2. /\ pc[FS] = "reply"
        /\ pc' = [pc EXCEPT ![FS] = "unmap"]
        /\ UNCHANGED <<env_ipc_dstva, buf, req, whom, out, ret>>
        /\ env_ipc_from' = [env_ipc_from EXCEPT ![w] = FS]
        /\ env_ipc_recving' = [env_ipc_recving EXCEPT ![w] = FALSE]
        /\ env_ipc_value' = [env_ipc_value EXCEPT ![w] = out[w]]
    BY <2>1 DEF serve_reply, sys_ipc_try_send, Goto
  <2>3. /\ pc'[FS] = "unmap" /\ pc'[d] = pc[d]
        /\ d # w => /\ env_ipc_recving'[d] = env_ipc_recving[d]
                    /\ env_ipc_value'[d] = env_ipc_value[d]
                    /\ at_pg'[d] = at_pg[d]
    BY <1>1, <2>1, <2>2, Zenon DEF TypeOK, serve_reply, sys_ipc_try_send
  <2>4. ~Active(d)'
    BY <2>3 DEF Active
  <2>5. CASE d # w
    <3>1. ~Active(d)
      BY <2>1, <2>2, <2>5 DEF Active
    <3>2. QED
      BY <1>1, <2>2, <2>3, <2>4, <2>5, <3>1, ClientFrame, Zenon
  <2>6. CASE d = w
    <3>1. /\ env_ipc_recving[w] /\ pc[w] = "wait"
          /\ env_ipc_dstva[w] = ReplyAddress(w)
          /\ req[w] = "open" => at_pg[w] = NoPage
          /\ ret[w] = None
      BY <1>1, <2>1 DEF ClientInv, serve_reply, sys_ipc_try_send, CanSend
    <3>2. /\ env_ipc_recving'[w] = FALSE
          /\ env_ipc_value'[w] = out'[w]
      BY <1>1, <2>2 DEF TypeOK
    <3>3. Answers(out[w], w)'
      BY <1>1, <2>1, <2>2 DEF ServerInv, Answers, Outcomes
    <3>4. ReplyAddress(w)' = ReplyAddress(w)
      BY <2>2 DEF ReplyAddress
    <3>5. req[w] = "open" => (at_pg'[w] # NoPage <=> out[w].r = "ok")
      <4>1. SUFFICES ASSUME req[w] = "open"
                     PROVE  at_pg'[w] # NoPage <=> out[w].r = "ok"
        OBVIOUS
      <4>2. env_ipc_dstva[w] = "pg" /\ at_pg[w] = NoPage
        BY <3>1, <4>1 DEF ReplyAddress
      <4>3. pg = IF out[w].r = "ok" THEN FdPage ELSE NoPage
        BY <1>1, <2>1, <2>2, <4>1 DEF ServerInv
      <4>4. at_pg' = IF pg # NoPage THEN [at_pg EXCEPT ![w] = pg] ELSE at_pg
        BY <2>1, <4>2 DEF serve_reply, sys_ipc_try_send
      <4>5. QED
        BY <1>1, <4>2, <4>3, <4>4 DEF TypeOK
    <3>6. QED
      BY <2>2, <2>3, <2>4, <2>6, <3>1, <3>2, <3>3, <3>4, <3>5 DEF ClientInv
  <2>7. QED
    BY <2>5, <2>6
<1>6. QED
  BY <1>2, <1>3, <1>4, <1>5 DEF IInv

\* ipc_send panics in the server.
LEMMA ServePanicStep ==
  ASSUME IInv, serve_panic
  PROVE  IInv'
<1> USE IpcAssumption DEF Envs, Pages
<1>1. TypeOK /\ UenvsIntact /\ ServerInv /\ \A d \in Clients : ClientInv(d)
  BY DEF IInv
<1>2. TypeOK'
  <2>1. Goto(FS, "panic") /\ pc = [f \in Envs |-> pc[f]]
    BY <1>1 DEF TypeOK, serve_panic, ipc_send_panic
  <2>2. /\ pc'[FS] = "panic"
        /\ \A f \in Envs \ {FS} : pc'[f] = pc[f]
        /\ pc' = [f \in Envs |-> pc'[f]]
    BY <2>1, Moves
  <2>3. KernType'
    BY <1>1 DEF TypeOK, KernType, serve_panic, ipc_send_panic, CanSend, kern
  <2>4. DataType'
    BY <1>1 DEF TypeOK, DataType, serve_panic, ipc_send_panic, CanSend
  <2>5. PcType'
    BY <1>1, <2>2, Zenon DEF TypeOK, PcType
  <2>6. QED
    BY <2>3, <2>4, <2>5 DEF TypeOK, KernType, DataType, PcType
<1>3. UenvsIntact'
  BY <1>1 DEF UenvsIntact, serve_panic, ipc_send_panic, CanSend, Goto, kern
<1>4. ServerInv'
  BY <1>1 DEF Outcomes, TypeOK, ServerInv, ClientInv, Active, Answers,
     ReplyAddress, serve_panic, ipc_send_panic, CanSend, Goto, kern
<1>5. ASSUME NEW d \in Clients PROVE ClientInv(d)'
  BY <1>1 DEF Outcomes, TypeOK, ServerInv, ClientInv, Active, Answers,
     ReplyAddress, serve_panic, ipc_send_panic, CanSend, Goto, kern
<1>6. QED
  BY <1>2, <1>3, <1>4, <1>5 DEF IInv

\* The server drops the argument page (serve).
LEMMA ServeUnmapStep ==
  ASSUME IInv, serve_unmap
  PROVE  IInv'
<1> USE IpcAssumption DEF Envs, Pages
<1>1. TypeOK /\ UenvsIntact /\ ServerInv /\ \A d \in Clients : ClientInv(d)
  BY DEF IInv
<1>2. TypeOK'
  <2>1. Goto(FS, "top") /\ pc = [f \in Envs |-> pc[f]]
    BY <1>1 DEF TypeOK, serve_unmap
  <2>2. /\ pc'[FS] = "top"
        /\ \A f \in Envs \ {FS} : pc'[f] = pc[f]
        /\ pc' = [f \in Envs |-> pc'[f]]
    BY <2>1, Moves
  <2>3. KernType'
    BY <1>1 DEF TypeOK, KernType, serve_unmap, kern
  <2>4. DataType'
    BY <1>1 DEF TypeOK, DataType, serve_unmap
  <2>5. PcType'
    BY <1>1, <2>2, Zenon DEF TypeOK, PcType
  <2>6. QED
    BY <2>3, <2>4, <2>5 DEF TypeOK, KernType, DataType, PcType
<1>3. UenvsIntact'
  BY <1>1 DEF UenvsIntact, serve_unmap, Goto, kern
<1>4. ServerInv'
  BY <1>1 DEF Outcomes, TypeOK, ServerInv, ClientInv, Active, Answers,
     ReplyAddress, serve_unmap, Goto, kern
<1>5. ASSUME NEW d \in Clients PROVE ClientInv(d)'
  BY <1>1 DEF Outcomes, TypeOK, ServerInv, ClientInv, Active, Answers,
     ReplyAddress, serve_unmap, Goto, kern
<1>6. QED
  BY <1>2, <1>3, <1>4, <1>5 DEF IInv

\* The initial state satisfies the invariant (the zeroed envs array).
LEMMA InitIInv == Init => IInv
<1> SUFFICES ASSUME Init PROVE IInv
  OBVIOUS
<1> USE IpcAssumption DEF Envs, Pages, Outcomes, Init
<1>1. (CHOOSE t \in Types : TRUE) \in Types
  OBVIOUS
<1>2. TypeOK
  BY <1>1 DEF TypeOK
<1>3. ServerInv
  BY DEF ServerInv
<1>4. ASSUME NEW c \in Clients PROVE ClientInv(c)
  BY DEF ClientInv, Active
<1>5. QED
  BY <1>2, <1>3, <1>4 DEF IInv, UenvsIntact

\* Every step of a client or of the server keeps the invariant.
LEMMA NextIInv == IInv /\ [Next]_vars => IInv'
<1> SUFFICES ASSUME IInv, [Next]_vars PROVE IInv'
  OBVIOUS
<1>1. ASSUME NEW c \in Clients, Client(c) PROVE IInv'
  BY <1>1, FsipcStep, SendStep, PanicStep, RecvStep, ReturnStep, CloseStep,
     ForkStep, DestroyStep DEF Client, Rpc
<1>2. CASE Server
  BY <1>2, ServeRecvStep, ServeWakeStep, ServeHandleStep, ServeReplyStep,
     ServePanicStep, ServeUnmapStep DEF Server
<1>3. CASE UNCHANGED vars
  <2>1. /\ UNCHANGED <<env_ipc_recving, env_ipc_from, env_ipc_value, env_ipc_perm,
                      env_ipc_dstva>>
        /\ UNCHANGED <<at_pg, at_uenvs, buf, cow, pc, req, whom, sreq, pg, out, ret>>
    BY <1>3 DEF vars, kern
  <2>2. TypeOK' /\ UenvsIntact'
    BY <2>1, Zenon DEF IInv, TypeOK, UenvsIntact, Envs, Pages, Outcomes
  <2>3. ServerInv'
    BY <2>1, Zenon DEF IInv, ServerInv, Answers, Outcomes
  <2>4. ASSUME NEW d \in Clients PROVE ClientInv(d)'
    <3>1. Active(d)' <=> Active(d)
      BY <2>1, Zenon DEF Active
    <3>2. ClientInv(d)
      BY DEF IInv
    <3>3. QED
      BY <2>1, <3>1, <3>2, ClientFrame, Zenon
  <2>5. QED
    BY <2>2, <2>3, <2>4 DEF IInv
<1>4. QED
  BY <1>1, <1>2, <1>3 DEF Next

\* The invariant holds in every reachable state of the clients and the server.
THEOREM Invariance == Spec => []IInv
<1>1. QED
  BY InitIInv, NextIInv, PTL DEF Spec

\* Types, and no blocked receiver with the address 0 (ipc_recv).
THEOREM TypeCorrect == Spec => []TypeOK
<1>1. IInv => TypeOK
  BY DEF IInv
<1>2. QED
  BY <1>1, Invariance, PTL

\* The server works on the page of the client it answers, for any number of
\* clients that send, die and retry meanwhile (serve, sys_ipc_try_send).
THEOREM OwnPage == Spec => []RequestPage
<1>1. IInv => RequestPage
  BY DEF IInv, ServerInv, RequestPage
<1>2. QED
  BY <1>1, Invariance, PTL

\* Client and server never wait for each other (ipc_send, ipc_recv).
THEOREM NoMutualWait == Spec => []NobodyForgotten
<1>1. IInv => NobodyForgotten
  BY DEF IInv, ServerInv, ClientInv, Active, NobodyForgotten
<1>2. QED
  BY <1>1, Invariance, PTL

\* No page of a program replaces the kernel's page at UENVS, as long as all
\* programs use files through fsipc (sys_ipc_try_send).
THEOREM UenvsKept == Spec => []UenvsIntact
<1>1. IInv => UenvsIntact
  BY DEF IInv
<1>2. QED
  BY <1>1, Invariance, PTL
-----------------------------------------------------------------------------
(* With nobody dying and memory to spare, no ipc_send of fsipc panics, unless  *)
(* sync, which writes nothing to fsipcbuf, sends it while it is copy-on-write. *)

\* Everybody lives, and a client that is about to send, but for sync, may send
\* its fsipcbuf.
CalmInv ==
  /\ OnlySyncPanics
  /\ \A c \in Clients : pc[c] # "dead"
  /\ \A c \in Clients : pc[c] = "send" /\ req[c] # "sync" => ~cow[c]

\* Every step of a program keeps it so (fsipc, fork, serve).
LEMMA CalmStep ==
  ASSUME ~MayDie, IInv, CalmInv, [Next]_vars
  PROVE  CalmInv'
<1> USE IpcAssumption DEF Envs
<1>1. TypeOK /\ ServerInv
  BY DEF IInv
<1>2. ASSUME NEW e \in Envs, NEW l, Goto(e, l), l \notin {"panic", "dead", "send"},
             cow' = cow, req' = req
      PROVE  CalmInv'
  <2>1. /\ pc'[e] = l
        /\ \A g \in Envs \ {e} : pc'[g] = pc[g]
    BY <1>1, <1>2, Moves, Zenon DEF TypeOK
  <2>2. QED
    BY <1>2, <2>1 DEF CalmInv, OnlySyncPanics
<1>3. ASSUME NEW c \in Clients, NEW t \in Types, fsipc(c, t) PROVE CalmInv'
  <2>1. /\ req' = [req EXCEPT ![c] = t] /\ Goto(c, "send")
        /\ cow' = IF t = "sync" THEN cow ELSE [cow EXCEPT ![c] = FALSE]
    BY <1>3 DEF fsipc
  <2>2. /\ pc'[c] = "send"
        /\ \A g \in Envs \ {c} : pc'[g] = pc[g]
    BY <1>1, <2>1, Moves, Zenon DEF TypeOK
  <2>3. /\ req'[c] = t
        /\ t # "sync" => ~cow'[c]
        /\ \A d \in Clients \ {c} : cow'[d] = cow[d] /\ req'[d] = req[d]
    <3>1. cow \in [Clients -> BOOLEAN] /\ req \in [Clients -> Types]
      BY <1>1 DEF TypeOK
    <3>2. /\ req'[c] = t
          /\ \A d \in Clients \ {c} : req'[d] = req[d]
      BY <2>1, <3>1
    <3>3. CASE t = "sync"
      BY <2>1, <3>2, <3>3
    <3>4. CASE t # "sync"
      <4>1. cow' = [cow EXCEPT ![c] = FALSE]
        BY <2>1, <3>4
      <4>2. QED
        BY <3>1, <3>2, <4>1
    <3>5. QED
      BY <3>3, <3>4
  <2>4. QED
    BY <2>2, <2>3 DEF CalmInv, OnlySyncPanics
<1>4. ASSUME NEW c \in Clients, fsipc_panic(c) PROVE CalmInv'
  <2>1. pc[c] = "send" /\ Goto(c, "panic") /\ cow' = cow /\ req' = req
    BY <1>4 DEF fsipc_panic, ipc_send_panic
  <2>2. pc[FS] # "dead"
    BY <1>1 DEF TypeOK
  <2>3. cow[c] /\ req[c] = "sync"
    BY <1>4, <2>1, <2>2 DEF fsipc_panic, ipc_send_panic, CalmInv
  <2>4. \A g \in Envs \ {c} : pc'[g] = pc[g]
    BY <1>1, <2>1, Moves, Zenon DEF TypeOK
  <2>5. pc'[c] = "panic"
    BY <1>1, <2>1, Moves, Zenon DEF TypeOK
  <2>6. QED
    BY <2>1, <2>3, <2>4, <2>5 DEF CalmInv, OnlySyncPanics
<1>5. ASSUME NEW c \in Clients, fork(c) PROVE CalmInv'
  <2>1. pc' = pc /\ req' = req /\ pc[c] = "idle" /\ cow' = [cow EXCEPT ![c] = TRUE]
    BY <1>5 DEF fork
  <2>2. \A d \in Clients \ {c} : cow'[d] = cow[d]
    BY <1>1, <2>1 DEF TypeOK
  <2>3. QED
    BY <2>1, <2>2 DEF CalmInv, OnlySyncPanics
<1>6. ASSUME NEW c \in Clients,
             fsipc_send(c) \/ fsipc_recv(c) \/ fsipc_return(c)
      PROVE  CalmInv'
  <2>1. PICK l \in {"sent", "wait", "idle"} : Goto(c, l) /\ cow' = cow /\ req' = req
    BY <1>6 DEF fsipc_send, fsipc_recv, fsipc_return
  <2>2. QED
    BY <1>2, <2>1, Zenon
<1>7. CASE serve_panic
  <2>1. whom \in Clients /\ pg \notin Clients
    BY <1>1, <1>7 DEF serve_panic, ServerInv, TypeOK
  <2>2. QED
    BY <1>7, <2>1 DEF serve_panic, ipc_send_panic, CalmInv
<1>8. ASSUME serve_recv \/ serve_wake \/ (\E r \in {"ok", "fail"} : serve_handle(r))
               \/ serve_reply \/ serve_unmap
      PROVE  CalmInv'
  <2>1. PICK l \in {"recv", "handle", "top", "reply", "unmap"} :
          Goto(FS, l) /\ cow' = cow /\ req' = req
    BY <1>8 DEF serve_recv, serve_wake, serve_handle, serve_reply, serve_unmap
  <2>2. QED
    BY <1>2, <2>1
<1>9. CASE UNCHANGED vars
  BY <1>9 DEF vars, CalmInv, OnlySyncPanics
<1>10. ASSUME NEW c \in Clients, Client(c) PROVE CalmInv'
  <2>1. CASE fd_close(c)
    BY <2>1 DEF fd_close, CalmInv, OnlySyncPanics
  <2>2. ~env_destroy(c)
    BY DEF env_destroy
  <2>3. QED
    BY <1>3, <1>4, <1>5, <1>6, <1>10, <2>1, <2>2 DEF Client, Rpc
<1>11. QED
  BY <1>7, <1>8, <1>9, <1>10 DEF Next, Server

\* With memory to spare and nobody dying, the panic of ipc_send ends no call of
\* fsipc, in the client or in the server, but a sync with a request page that is
\* copy-on-write, however often the clients fork between their calls (fsipc,
\* duppage, serve).
THEOREM SyncAlonePanics ==
  ~MayDie => (Spec => []OnlySyncPanics)
<1> SUFFICES ASSUME ~MayDie PROVE Spec => []OnlySyncPanics
  OBVIOUS
<1>1. Init => CalmInv
  BY IpcAssumption DEF Init, CalmInv, OnlySyncPanics, Envs
<1>2. IInv /\ CalmInv /\ [Next]_vars => CalmInv'
  BY CalmStep
<1>3. CalmInv => OnlySyncPanics
  BY DEF CalmInv
<1>4. QED
  BY <1>1, <1>2, <1>3, Invariance, PTL DEF Spec
-----------------------------------------------------------------------------
(* JosIpc implements JosRpc.                                                 *)

\* The abstract variables, as R!RpcSpec sees them.
AbsPhase == [c \in Clients |-> Phase(c)]
AbsOut == [c \in Clients |-> IF Phase(c) = "dead" THEN None ELSE out[c]]

\* A step that leaves the phase, the request, the answer and the result of every
\* live client alone is a stutter of JosRpc.
LEMMA Stutter ==
  ASSUME \A d \in Clients : Phase(d)' = Phase(d),
         \A d \in Clients : Phase(d) # "dead" => out'[d] = out[d],
         UNCHANGED <<req, ret>>
  PROVE  UNCHANGED R!rpcVars
<1>1. QED
  BY DEF R!rpcVars

\* Sending the request is invisible to the caller (the ipc_send of fsipc).
LEMMA SendStutters ==
  ASSUME IInv, NEW c \in Clients, fsipc_send(c)
  PROVE  UNCHANGED R!rpcVars
<1> USE IpcAssumption DEF Envs
<1>1. TypeOK /\ ServerInv /\ \A d \in Clients : ClientInv(d)
  BY DEF IInv
<1>2. \A d \in Clients : Phase(d)' = Phase(d)
  BY <1>1 DEF TypeOK, ServerInv, ClientInv, Active, Phase, Served,
     fsipc_send, sys_ipc_try_send, CanSend, Goto
<1>3. UNCHANGED <<req, out, ret>>
  BY DEF fsipc_send
<1>4. QED
  BY <1>2, <1>3, Stutter

\* So is blocking for the answer (the ipc_recv of fsipc).
LEMMA RecvStutters ==
  ASSUME IInv, NEW c \in Clients, fsipc_recv(c)
  PROVE  UNCHANGED R!rpcVars
<1> USE IpcAssumption DEF Envs
<1>1. TypeOK /\ ServerInv /\ \A d \in Clients : ClientInv(d)
  BY DEF IInv
<1>2. \A d \in Clients : Phase(d)' = Phase(d)
  BY <1>1 DEF TypeOK, ServerInv, ClientInv, Active, Phase, Served,
     fsipc_recv, sys_ipc_recv, Goto
<1>3. UNCHANGED <<req, out, ret>>
  BY DEF fsipc_recv
<1>4. QED
  BY <1>2, <1>3, Stutter

\* Closing a descriptor is no part of a call (fd_close).
LEMMA CloseStutters ==
  ASSUME IInv, NEW c \in Clients, fd_close(c)
  PROVE  UNCHANGED R!rpcVars
<1> USE IpcAssumption DEF Envs
<1>1. TypeOK /\ ServerInv /\ \A d \in Clients : ClientInv(d)
  BY DEF IInv
<1>2. \A d \in Clients : Phase(d)' = Phase(d)
  BY <1>1 DEF TypeOK, ServerInv, ClientInv, Active, Phase, Served, fd_close, kern
<1>3. UNCHANGED <<req, out, ret>>
  BY DEF fd_close
<1>4. QED
  BY <1>2, <1>3, Stutter

\* Neither is fork.
LEMMA ForkStutters ==
  ASSUME IInv, NEW c \in Clients, fork(c)
  PROVE  UNCHANGED R!rpcVars
<1> USE IpcAssumption DEF Envs
<1>1. TypeOK /\ ServerInv /\ \A d \in Clients : ClientInv(d)
  BY DEF IInv
<1>2. \A d \in Clients : Phase(d)' = Phase(d)
  BY <1>1 DEF TypeOK, ServerInv, ClientInv, Active, Phase, Served, fork, kern
<1>3. UNCHANGED <<req, out, ret>>
  BY DEF fork
<1>4. QED
  BY <1>2, <1>3, Stutter

\* The server's own steps are invisible but for the handler (serve).
LEMMA ServeRecvStutters ==
  ASSUME IInv, serve_recv
  PROVE  UNCHANGED R!rpcVars
<1> USE IpcAssumption DEF Envs
<1>1. TypeOK /\ ServerInv /\ \A d \in Clients : ClientInv(d)
  BY DEF IInv
<1>2. \A d \in Clients : Phase(d)' = Phase(d)
  BY <1>1 DEF TypeOK, ServerInv, ClientInv, Active, Phase, Served,
     serve_recv, sys_ipc_recv, Goto
<1>3. UNCHANGED <<req, out, ret>>
  BY DEF serve_recv
<1>4. QED
  BY <1>2, <1>3, Stutter

\* The server sees a request (serve).
LEMMA ServeWakeStutters ==
  ASSUME IInv, serve_wake
  PROVE  UNCHANGED R!rpcVars
<1> USE IpcAssumption DEF Envs
<1>1. TypeOK /\ ServerInv /\ \A d \in Clients : ClientInv(d)
  BY DEF IInv
<1>2. \A d \in Clients : Phase(d)' = Phase(d)
  BY <1>1 DEF TypeOK, ServerInv, ClientInv, Active, Phase, Served, serve_wake, Goto, kern
<1>3. UNCHANGED <<req, out, ret>>
  BY DEF serve_wake
<1>4. QED
  BY <1>2, <1>3, Stutter

\* The server delivers the answer (the ipc_send of serve).
LEMMA ServeReplyStutters ==
  ASSUME IInv, serve_reply
  PROVE  UNCHANGED R!rpcVars
<1> USE IpcAssumption DEF Envs
<1>1. TypeOK /\ ServerInv /\ \A d \in Clients : ClientInv(d)
  BY DEF IInv
<1>2. \A d \in Clients : Phase(d)' = Phase(d)
  BY <1>1 DEF TypeOK, ServerInv, ClientInv, Active, Phase, Served,
     serve_reply, sys_ipc_try_send, CanSend, Goto
<1>3. UNCHANGED <<req, out, ret>>
  BY DEF serve_reply
<1>4. QED
  BY <1>2, <1>3, Stutter

\* The server drops the argument page (serve).
LEMMA ServeUnmapStutters ==
  ASSUME IInv, serve_unmap
  PROVE  UNCHANGED R!rpcVars
<1> USE IpcAssumption DEF Envs
<1>1. TypeOK /\ ServerInv /\ \A d \in Clients : ClientInv(d)
  BY DEF IInv
<1>2. \A d \in Clients : Phase(d)' = Phase(d)
  BY <1>1 DEF TypeOK, ServerInv, ClientInv, Active, Phase, Served, serve_unmap, Goto, kern
<1>3. UNCHANGED <<req, out, ret>>
  BY DEF serve_unmap
<1>4. QED
  BY <1>2, <1>3, Stutter

\* The server panics: the caller waits for ever (ipc_send).
LEMMA ServePanicStutters ==
  ASSUME IInv, serve_panic
  PROVE  UNCHANGED R!rpcVars
<1> USE IpcAssumption DEF Envs
<1>1. TypeOK /\ ServerInv /\ \A d \in Clients : ClientInv(d)
  BY DEF IInv
<1>2. \A d \in Clients : Phase(d)' = Phase(d)
  BY <1>1 DEF TypeOK, ServerInv, ClientInv, Active, Phase, Served,
     serve_panic, ipc_send_panic, Goto, kern
<1>3. UNCHANGED <<req, out, ret>>
  BY DEF serve_panic, ipc_send_panic
<1>4. QED
  BY <1>2, <1>3, Stutter

\* Starting a call is Call (the callers of fsipc).
LEMMA FsipcCalls ==
  ASSUME IInv, NEW c \in Clients, NEW t \in Types, fsipc(c, t)
  PROVE  R!Call(c, t)
<1> USE IpcAssumption DEF Envs
<1>1. TypeOK /\ ServerInv /\ \A d \in Clients : ClientInv(d)
  BY DEF IInv
<1>2. Phase(c) = "idle" /\ Phase(c)' = "called"
  BY <1>1 DEF TypeOK, ServerInv, ClientInv, Active, Phase, Served, fsipc, Goto, kern
<1>3. \A d \in Clients \ {c} : Phase(d)' = Phase(d)
  BY <1>1 DEF TypeOK, Phase, Served, fsipc, Goto, kern
<1>4. /\ out' = out
      /\ req' = [req EXCEPT ![c] = t]
      /\ ret' = [ret EXCEPT ![c] = None]
  BY DEF fsipc
<1>5. AbsPhase' = [AbsPhase EXCEPT ![c] = "called"]
  BY <1>2, <1>3, Zenon DEF AbsPhase
<1>6. AbsOut' = AbsOut
  BY <1>2, <1>3, <1>4 DEF AbsOut
<1>7. QED
  BY <1>2, <1>4, <1>5, <1>6 DEF R!Call, AbsPhase, AbsOut

\* What makes a step the Die of JosRpc (a client that is destroyed or panics).
LEMMA Dies ==
  ASSUME NEW c \in Clients,
         Phase(c)' = "dead",
         \A d \in Clients \ {c} : Phase(d)' = Phase(d),
         out' = out,
         req' = req,
         ret' = [ret EXCEPT ![c] = None]
  PROVE  R!Die(c)
<1>1. AbsPhase' = [AbsPhase EXCEPT ![c] = "dead"]
  BY Zenon DEF AbsPhase
<1>2. AbsOut' = [AbsOut EXCEPT ![c] = None]
  BY Zenon DEF AbsOut
<1>3. QED
  BY <1>1, <1>2 DEF R!Die, AbsPhase, AbsOut

\* A client that dies or panics is Die (env_destroy, ipc_send).
LEMMA DestroyDies ==
  ASSUME IInv, NEW c \in Clients, env_destroy(c) \/ fsipc_panic(c)
  PROVE  R!Die(c)
<1> USE IpcAssumption DEF Envs
<1>1. TypeOK /\ ServerInv /\ \A d \in Clients : ClientInv(d)
  BY DEF IInv
<1>2. CASE env_destroy(c)
  <2>1. Phase(c)' = "dead"
    BY <1>1, <1>2 DEF TypeOK, Phase, Served, env_destroy, Goto
  <2>2. \A d \in Clients \ {c} : Phase(d)' = Phase(d)
    BY <1>1, <1>2 DEF TypeOK, Phase, Served, env_destroy, Goto, kern
  <2>3. /\ out' = out
        /\ req' = req
        /\ ret' = [ret EXCEPT ![c] = None]
    BY <1>2 DEF env_destroy
  <2>4. QED
    BY <2>1, <2>2, <2>3, Dies, Zenon
<1>3. CASE fsipc_panic(c)
  <2>1. Phase(c)' = "dead"
    BY <1>1, <1>3 DEF TypeOK, Phase, Served, fsipc_panic, ipc_send_panic, Goto
  <2>2. \A d \in Clients \ {c} : Phase(d)' = Phase(d)
    BY <1>1, <1>3 DEF TypeOK, Phase, Served, fsipc_panic, ipc_send_panic, Goto,
       kern
  <2>3. /\ out' = out
        /\ req' = req
        /\ ret' = ret
        /\ ret[c] = None
    BY <1>1, <1>3 DEF ClientInv, fsipc_panic, ipc_send_panic
  <2>4. ret' = [ret EXCEPT ![c] = None]
    BY <1>1, <2>3 DEF TypeOK
  <2>5. QED
    BY <2>1, <2>2, <2>3, <2>4, Dies, Zenon
<1>4. QED
  BY <1>2, <1>3

\* The handler is Serve, for a client that is still alive (serve_handle).
LEMMA HandleServes ==
  ASSUME IInv, NEW r \in {"ok", "fail"}, serve_handle(r)
  PROVE  (\E c \in Clients : R!Serve(c, r)) \/ UNCHANGED R!rpcVars
<1> USE IpcAssumption DEF Envs
<1>1. TypeOK /\ ServerInv /\ \A d \in Clients : ClientInv(d)
  BY Zenon DEF IInv
<1>2. PICK w \in Clients : w = whom
  BY <1>1, Zenon DEF ServerInv, serve_handle
<1>3. at_pg[FS] = w /\ sreq = req[w] /\ Active(w)
  BY <1>1, <1>2, Zenon DEF ServerInv, Active, serve_handle
<1>4. /\ out' = [out EXCEPT ![w] = [type |-> req[w], arg |-> w, r |-> r]]
      /\ UNCHANGED <<req, ret>>
  BY <1>2, <1>3 DEF serve_handle
<1>5. \A d \in Clients \ {w} : Phase(d)' = Phase(d)
  BY <1>1, <1>2 DEF TypeOK, Phase, Served, serve_handle, Goto, kern
<1>6. /\ \A d \in Clients \ {w} : out'[d] = out[d]
      /\ out'[w] = [type |-> req[w], arg |-> w, r |-> r]
  BY <1>1, <1>4 DEF TypeOK
<1>7. CASE pc[w] = "dead"
  <2>1. Phase(w) = "dead" /\ Phase(w)' = "dead"
    BY <1>1, <1>2, <1>7 DEF TypeOK, Phase, Served, serve_handle, Goto
  <2>2. \A d \in Clients : Phase(d)' = Phase(d)
    BY <1>5, <2>1
  <2>3. \A d \in Clients : Phase(d) # "dead" => out'[d] = out[d]
    BY <1>6, <2>1, Zenon
  <2>4. QED
    BY <1>4, <2>2, <2>3, Stutter, Zenon
<1>8. CASE pc[w] # "dead"
  <2>1. Phase(w) = "called" /\ Phase(w)' = "served"
    BY <1>1, <1>2, <1>3, <1>8 DEF TypeOK, ClientInv, Phase, Served, serve_handle,
       Goto, kern
  <2>2. AbsPhase' = [AbsPhase EXCEPT ![w] = "served"]
    BY <1>5, <2>1, Zenon DEF AbsPhase
  <2>3. AbsOut' = [AbsOut EXCEPT ![w] = [type |-> req[w], arg |-> w, r |-> r]]
    BY <1>5, <1>6, <2>1, Zenon DEF AbsOut
  <2>4. QED
    BY <1>4, <2>1, <2>2, <2>3, Zenon DEF R!Serve, AbsPhase, AbsOut
<1>9. QED
  BY <1>7, <1>8

\* fsipc's return is Return, with the answer to the caller's own request.
LEMMA FsipcReturns ==
  ASSUME IInv, NEW c \in Clients, fsipc_return(c)
  PROVE  R!Return(c)
<1> USE IpcAssumption DEF Envs
<1>1. TypeOK /\ ServerInv /\ \A d \in Clients : ClientInv(d)
  BY DEF IInv
<1>2. Phase(c) = "served" /\ Phase(c)' = "idle"
  BY <1>1 DEF TypeOK, Phase, Served, fsipc_return, Goto
<1>3. \A d \in Clients \ {c} : Phase(d)' = Phase(d)
  BY <1>1 DEF TypeOK, Phase, Served, fsipc_return, Goto, kern
<1>4. /\ env_ipc_value[c] = out[c]
      /\ out[c].type = req[c]
      /\ req[c] = "other" /\ out[c].r = "ok" => buf[c] = out[c]
      /\ req[c] = "open" => (at_pg[c] # NoPage <=> out[c].r = "ok")
  BY <1>1 DEF ClientInv, Answers, fsipc_return
<1>5. /\ ret' = [ret EXCEPT ![c] = R!Result(out[c])]
      /\ out' = [out EXCEPT ![c] = None]
      /\ req' = req
  <2>1. (IF req[c] = "other" /\ env_ipc_value[c].r = "ok" THEN buf[c] ELSE None)
          = (IF out[c].type = "other" /\ out[c].r = "ok" THEN out[c] ELSE None)
    BY <1>4
  <2>2. (req[c] = "open" /\ at_pg[c] # NoPage)
          = (out[c].type = "open" /\ out[c].r = "ok")
    BY <1>4
  <2>3. QED
    BY <1>4, <2>1, <2>2, Zenon DEF fsipc_return, R!Result
<1>6. AbsPhase' = [AbsPhase EXCEPT ![c] = "idle"]
  BY <1>2, <1>3, Zenon DEF AbsPhase
<1>7. AbsOut' = [AbsOut EXCEPT ![c] = None]
  BY <1>1, <1>2, <1>3, <1>5, Zenon DEF AbsOut, TypeOK
<1>8. AbsOut[c] = out[c]
  BY <1>2 DEF AbsOut
<1>9. QED
  BY <1>2, <1>5, <1>6, <1>7, <1>8 DEF R!Return, AbsPhase, AbsOut

\* The initial states of JosIpc are initial states of JosRpc.
LEMMA InitMaps == Init => R!RpcInit
<1> SUFFICES ASSUME Init PROVE R!RpcInit
  OBVIOUS
<1>1. (CHOOSE t \in Types : TRUE) \in Types
  BY IpcAssumption
<1>2. \A c \in Clients : Phase(c) = "idle"
  BY IpcAssumption DEF Init, Phase, Served, Envs
<1>3. QED
  BY <1>1, <1>2 DEF Init, R!RpcInit

\* Every step of JosIpc is a step or a stutter of JosRpc.
LEMMA NextMaps == IInv /\ [Next]_vars => [R!RpcNext]_(R!rpcVars)
<1> SUFFICES ASSUME IInv, [Next]_vars PROVE R!RpcNext \/ UNCHANGED R!rpcVars
  OBVIOUS
<1>1. ASSUME NEW c \in Clients, Client(c)
      PROVE  R!RpcNext \/ UNCHANGED R!rpcVars
  <2>1. ASSUME NEW t \in Types, fsipc(c, t) PROVE R!RpcNext
    BY <2>1, FsipcCalls DEF R!RpcNext
  <2>2. CASE fsipc_panic(c) \/ env_destroy(c)
    BY <2>2, DestroyDies DEF R!RpcNext
  <2>3. CASE fsipc_return(c)
    BY <2>3, FsipcReturns DEF R!RpcNext
  <2>4. CASE fsipc_send(c) \/ fsipc_recv(c) \/ fd_close(c) \/ fork(c)
    BY <2>4, SendStutters, RecvStutters, CloseStutters, ForkStutters
  <2>5. QED
    BY <1>1, <2>1, <2>2, <2>3, <2>4 DEF Client, Rpc
<1>2. CASE Server
  <2>1. ASSUME NEW r \in {"ok", "fail"}, serve_handle(r)
        PROVE  R!RpcNext \/ UNCHANGED R!rpcVars
    BY <2>1, HandleServes DEF R!RpcNext
  <2>2. QED
    BY <1>2, <2>1, ServeRecvStutters, ServeWakeStutters, ServeReplyStutters,
       ServePanicStutters, ServeUnmapStutters DEF Server
<1>3. CASE UNCHANGED vars
  <2>1. \A d \in Clients : Phase(d)' = Phase(d)
    BY <1>3 DEF vars, kern, Phase, Served
  <2>2. UNCHANGED <<req, out, ret>>
    BY <1>3 DEF vars
  <2>3. QED
    BY <2>1, <2>2, Stutter
<1>4. QED
  BY <1>1, <1>2, <1>3 DEF Next

\* fsipc is a procedure call: every request is served exactly once, from its
\* caller's page, and answered to its caller, for any number of clients.
THEOREM Refinement == Spec => CallsAnswered
<1>1. QED
  BY InitMaps, NextMaps, Invariance, PTL DEF Spec, CallsAnswered, R!RpcSpec
=============================================================================
