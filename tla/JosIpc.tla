------------------------------- MODULE JosIpc -------------------------------
(* IPC and the file server's remote procedure calls: sys_ipc_try_send and    *)
(* sys_ipc_recv of kern/syscall.c, ipc_send and ipc_recv of lib/ipc.c, fsipc *)
(* of lib/file.c and the loop of serve() in fs/serv.c.  A system call is one *)
(* step (the big kernel lock); a program may be preempted between two.       *)

CONSTANTS
  Clients,   \* the programs that use files
  FS,        \* the file server
  NoEnv,     \* env_ipc_from = 0
  None,      \* a value nobody set
  NoPage,    \* srcva >= UTOP, or nothing mapped
  FdPage,    \* a page of the server's open-file table
  EnvsPage,  \* the first page of the kernel's envs array, mapped at UENVS
  Types,     \* the request codes in use
  MayDie     \* whether clients die and memory runs out

Envs == Clients \cup {FS}

ASSUME IpcAssumption ==
  /\ FS \notin Clients
  /\ NoEnv \notin Envs
  /\ Types # {} /\ Types \subseteq {"open", "sync", "other"}
  /\ MayDie \in BOOLEAN
  /\ NoPage # FdPage /\ NoPage # EnvsPage /\ FdPage # EnvsPage
  /\ {NoPage, FdPage, EnvsPage} \cap Clients = {}

VARIABLES
  env_ipc_recving, env_ipc_from, env_ipc_value,
  env_ipc_perm,    \* whether it holds PTE_P
  env_ipc_dstva,   \* "0", "pg" (the program's page address) or "UTOP"
  at_pg,           \* page mapped at that address: fsreq, or the Fd of open
  at_uenvs,        \* page mapped at UTOP = UENVS, in the table all share
  buf,             \* the answer in the client's fsipcbuf, if any
  cow,             \* whether the client's fsipcbuf is copy-on-write
  pc,              \* where a program is
  req,             \* the request of a client
  whom, sreq,      \* locals of serve()
  pg,              \* local of serve(): the page to send, if any
  out,             \* local r of serve(), for the client it answers
  ret              \* what fsipc returned

kern == <<env_ipc_recving, env_ipc_from, env_ipc_value, env_ipc_perm,
          env_ipc_dstva>>
vars == <<kern, at_pg, at_uenvs, buf, cow, pc, req, whom, sreq, pg, out, ret>>

\* A page is named by the client whose fsipcbuf it is.
Pages == Clients \cup {FdPage}
Outcomes == [type : Types, arg : Clients, r : {"ok", "fail"}]

Init ==
  /\ env_ipc_recving = [e \in Envs |-> FALSE]
  /\ env_ipc_from = [e \in Envs |-> NoEnv]
  /\ env_ipc_value = [e \in Envs |-> None]
  /\ env_ipc_perm = [e \in Envs |-> FALSE]
  /\ env_ipc_dstva = [e \in Envs |-> "0"]
  /\ at_pg = [e \in Envs |-> NoPage]
  /\ at_uenvs = EnvsPage
  /\ buf = [c \in Clients |-> None]
  /\ cow = [c \in Clients |-> FALSE]
  /\ pc = [e \in Envs |-> IF e = FS THEN "top" ELSE "idle"]
  /\ req = [c \in Clients |-> CHOOSE t \in Types : TRUE]
  /\ whom = NoEnv
  /\ sreq = CHOOSE t \in Types : TRUE
  /\ pg = NoPage
  /\ out = [c \in Clients |-> None]
  /\ ret = [c \in Clients |-> None]
-----------------------------------------------------------------------------
(* The two system calls.                                                     *)

Goto(e, l) == pc' = [pc EXCEPT ![e] = l]

\* Mutant: no test that the receiver is waiting.
CanSend_any(d) == pc[d] # "dead"

\* envid2env finds d, and d waits and nobody has sent to it yet.
CanSend(d) ==
  /\ pc[d] # "dead"
  /\ env_ipc_recving[d]
  /\ env_ipc_from[d] = NoEnv

\* s sends val, and page unless it is NoPage.  A page goes wherever dstva
\* points, UTOP included; env_ipc_perm is stored only with a page.
sys_ipc_try_send(s, d, val, page) ==
  /\ CanSend(d)
  /\ LET maps == page # NoPage /\ env_ipc_dstva[d] # "0"
     IN  /\ at_pg' = IF maps /\ env_ipc_dstva[d] = "pg"
                       THEN [at_pg EXCEPT ![d] = page] ELSE at_pg
         /\ at_uenvs' = IF maps /\ env_ipc_dstva[d] = "UTOP"
                          THEN page ELSE at_uenvs
         /\ env_ipc_perm' = IF maps THEN [env_ipc_perm EXCEPT ![d] = TRUE]
                                    ELSE env_ipc_perm
  /\ env_ipc_from' = [env_ipc_from EXCEPT ![d] = s]
  /\ env_ipc_recving' = [env_ipc_recving EXCEPT ![d] = FALSE]
  /\ env_ipc_value' = [env_ipc_value EXCEPT ![d] = val]
  /\ UNCHANGED env_ipc_dstva

\* Mutant: env_ipc_from keeps the previous sender.
sys_ipc_recv_from(e, dstva) ==
  /\ env_ipc_dstva' = [env_ipc_dstva EXCEPT ![e] = dstva]
  /\ env_ipc_recving' = [env_ipc_recving EXCEPT ![e] = TRUE]
  /\ UNCHANGED <<env_ipc_from, env_ipc_value, env_ipc_perm, at_pg, at_uenvs>>

sys_ipc_recv(e, dstva) ==
  /\ env_ipc_dstva' = [env_ipc_dstva EXCEPT ![e] = dstva]
  /\ env_ipc_recving' = [env_ipc_recving EXCEPT ![e] = TRUE]
  /\ env_ipc_from' = [env_ipc_from EXCEPT ![e] = NoEnv]
  /\ UNCHANGED <<env_ipc_value, env_ipc_perm, at_pg, at_uenvs>>

\* ipc_send panics on any error but -E_IPC_NOT_RECV: d was destroyed, the page
\* is not writable (it is copy-on-write), or there is no memory to map it.
\* panic loops on a breakpoint that enters the kernel monitor: e is stuck.
ipc_send_panic(e, d, page) ==
  /\ \/ pc[d] = "dead"
     \/ CanSend(d) /\ page \in Clients /\ cow[page]
     \/ MayDie /\ CanSend(d) /\ page # NoPage
  /\ Goto(e, "panic")
  /\ UNCHANGED <<kern, at_pg, at_uenvs, buf, cow, req, whom, sreq, pg, out, ret>>
-----------------------------------------------------------------------------
(* A client: the callers of fsipc in lib/file.c, fork, and fd_close.         *)

\* Mutant: the request does not go through fsipcbuf.
fsipc_cow(c, t) ==
  /\ pc[c] = "idle"
  /\ t = "open" => at_pg[c] = NoPage
  /\ req' = [req EXCEPT ![c] = t]
  /\ ret' = [ret EXCEPT ![c] = None]
  /\ Goto(c, "send")
  /\ UNCHANGED <<kern, at_pg, at_uenvs, buf, cow, whom, sreq, pg, out>>

\* The callers of fsipc write the request to fsipcbuf, which ends copy-on-write;
\* sync writes nothing.  fd_alloc gives open an address with no page.
fsipc(c, t) ==
  /\ pc[c] = "idle"
  /\ t = "open" => at_pg[c] = NoPage
  /\ req' = [req EXCEPT ![c] = t]
  /\ IF t = "sync" THEN UNCHANGED <<buf, cow>>
     ELSE /\ buf' = [buf EXCEPT ![c] = None]
          /\ cow' = [cow EXCEPT ![c] = FALSE]
  /\ ret' = [ret EXCEPT ![c] = None]
  /\ Goto(c, "send")
  /\ UNCHANGED <<kern, at_pg, at_uenvs, whom, sreq, pg, out>>

\* ipc_send(fsenv, type, &fsipcbuf, PTE_P | PTE_W | PTE_U), the try that works;
\* one that finds the server busy changes nothing.
fsipc_send(c) ==
  /\ pc[c] = "send"
  /\ ~cow[c]
  /\ sys_ipc_try_send(c, FS, req[c], c)
  /\ Goto(c, "sent")
  /\ UNCHANGED <<buf, cow, req, whom, sreq, pg, out, ret>>

fsipc_panic(c) ==
  /\ pc[c] = "send"
  /\ ipc_send_panic(c, FS, c)

\* Mutant: the reply is never given a page.
ReplyAddress_none(c) == "UTOP"

\* ipc_recv passes UTOP for NULL; only open gives an address.
ReplyAddress(c) == IF req[c] = "open" THEN "pg" ELSE "UTOP"

fsipc_recv(c) ==
  /\ pc[c] = "sent"
  /\ sys_ipc_recv(c, ReplyAddress(c))
  /\ Goto(c, "wait")
  /\ UNCHANGED <<buf, cow, req, whom, sreq, pg, out, ret>>

\* The client runs again: fsipc returns env_ipc_value, and the answer in
\* fsipcbuf is read.  (After an open that failed fd_close finds no page.)
fsipc_return(c) ==
  /\ pc[c] = "wait"
  /\ ~env_ipc_recving[c]
  /\ LET v == env_ipc_value[c]
     IN  ret' = [ret EXCEPT ![c] =
           [value |-> v,
            body |-> IF req[c] = "other" /\ v.r = "ok" THEN buf[c] ELSE None,
            fd |-> req[c] = "open" /\ at_pg[c] # NoPage]]
  /\ out' = [out EXCEPT ![c] = None]
  /\ Goto(c, "idle")
  /\ UNCHANGED <<kern, at_pg, at_uenvs, buf, cow, req, whom, sreq, pg>>

\* The last step of fd_close, after the flush.
fd_close(c) ==
  /\ pc[c] = "idle"
  /\ at_pg[c] # NoPage
  /\ at_pg' = [at_pg EXCEPT ![c] = NoPage]
  /\ UNCHANGED <<kern, at_uenvs, buf, cow, pc, req, whom, sreq, pg, out, ret>>

\* duppage makes every writable page of the parent copy-on-write.
fork(c) ==
  /\ pc[c] = "idle"
  /\ cow' = [cow EXCEPT ![c] = TRUE]
  /\ UNCHANGED <<kern, at_pg, at_uenvs, buf, pc, req, whom, sreq, pg, out, ret>>

\* A client exits, faults or is destroyed by its parent, at any point.
env_destroy(c) ==
  /\ MayDie
  /\ pc[c] # "dead"
  /\ at_pg' = [at_pg EXCEPT ![c] = NoPage]
  /\ ret' = [ret EXCEPT ![c] = None]
  /\ Goto(c, "dead")
  /\ UNCHANGED <<kern, at_uenvs, buf, cow, req, whom, sreq, pg, out>>
-----------------------------------------------------------------------------
(* The file server: serve().                                                 *)

serve_recv ==
  /\ pc[FS] = "top"
  /\ sys_ipc_recv(FS, "pg")
  /\ Goto(FS, "recv")
  /\ UNCHANGED <<buf, cow, req, whom, sreq, pg, out, ret>>

\* ipc_recv returns; a request without a page is left hanging.
serve_wake ==
  /\ pc[FS] = "recv"
  /\ ~env_ipc_recving[FS]
  /\ whom' = env_ipc_from[FS]
  /\ sreq' = env_ipc_value[FS]
  /\ Goto(FS, IF env_ipc_perm[FS] THEN "handle" ELSE "top")
  /\ UNCHANGED <<kern, at_pg, at_uenvs, buf, cow, req, pg, out, ret>>

\* serve_open or a handler: the argument is the page at fsreq, where the
\* handlers for reads and the like also leave their answer.
serve_handle(r) ==
  /\ pc[FS] = "handle"
  /\ at_pg[FS] \in Clients
  /\ LET o == [type |-> sreq, arg |-> at_pg[FS], r |-> r]
     IN  /\ out' = [out EXCEPT ![whom] = o]
         /\ buf' = IF sreq = "other" /\ r = "ok"
                     THEN [buf EXCEPT ![at_pg[FS]] = o] ELSE buf
  /\ pg' = IF sreq = "open" /\ r = "ok" THEN FdPage ELSE NoPage
  /\ Goto(FS, "reply")
  /\ UNCHANGED <<kern, at_pg, at_uenvs, cow, req, whom, sreq, ret>>

\* Mutant: one try, and the answer is dropped when the client is not there yet.
serve_reply_once ==
  /\ pc[FS] = "reply"
  /\ \/ sys_ipc_try_send(FS, whom, out[whom], pg)
     \/ ~CanSend(whom) /\ UNCHANGED <<kern, at_pg, at_uenvs>>
  /\ Goto(FS, "unmap")
  /\ UNCHANGED <<buf, cow, req, whom, sreq, pg, out, ret>>

\* ipc_send(whom, r, pg, perm), the try that works.
serve_reply ==
  /\ pc[FS] = "reply"
  /\ sys_ipc_try_send(FS, whom, out[whom], pg)
  /\ Goto(FS, "unmap")
  /\ UNCHANGED <<buf, cow, req, whom, sreq, pg, out, ret>>

serve_panic ==
  /\ pc[FS] = "reply"
  /\ ipc_send_panic(FS, whom, pg)

serve_unmap ==
  /\ pc[FS] = "unmap"
  /\ at_pg' = [at_pg EXCEPT ![FS] = NoPage]
  /\ Goto(FS, "top")
  /\ UNCHANGED <<kern, at_uenvs, buf, cow, req, whom, sreq, pg, out, ret>>
-----------------------------------------------------------------------------
Rpc(c) ==
  \/ fsipc_send(c)
  \/ fsipc_panic(c)
  \/ fsipc_recv(c)
  \/ fsipc_return(c)

Client(c) ==
  \/ \E t \in Types : fsipc(c, t)
  \/ Rpc(c)
  \/ fd_close(c)
  \/ fork(c)
  \/ env_destroy(c)

Server ==
  \/ serve_recv
  \/ serve_wake
  \/ \E r \in {"ok", "fail"} : serve_handle(r)
  \/ serve_reply
  \/ serve_panic
  \/ serve_unmap

Next == (\E c \in Clients : Client(c)) \/ Server

Spec == Init /\ [][Next]_vars

\* A program in the middle of fsipc, and the server, get the CPU again and
\* again (sched_yield); nothing makes a program start another call.
FairSpec ==
  /\ Spec
  /\ \A c \in Clients : WF_vars(Rpc(c))
  /\ WF_vars(Server)
-----------------------------------------------------------------------------
(* A program that sends the server a value without a page, as programs send  *)
(* each other (user/pingpong.c).                                             *)

send_value(c) ==
  /\ pc[c] = "idle"
  /\ sys_ipc_try_send(c, FS, "other", NoPage)
  /\ UNCHANGED <<buf, cow, pc, req, whom, sreq, pg, out, ret>>

AnyNext == Next \/ \E c \in Clients : send_value(c)

AnySpec == Init /\ [][AnyNext]_vars
-----------------------------------------------------------------------------
(* Properties.                                                               *)

\* Every variable has its type, and a program blocked in sys_ipc_recv gave an
\* address: NULL became UTOP in ipc_recv, never 0.
TypeOK ==
  /\ env_ipc_recving \in [Envs -> BOOLEAN]
  /\ env_ipc_from \in [Envs -> Envs \cup {NoEnv}]
  /\ \A c \in Clients : env_ipc_value[c] \in Outcomes \cup {None}
  /\ env_ipc_value[FS] \in Types \cup {None}
  /\ env_ipc_value = [e \in Envs |-> env_ipc_value[e]]
  /\ env_ipc_perm \in [Envs -> BOOLEAN]
  /\ env_ipc_dstva \in [Envs -> {"0", "pg", "UTOP"}]
  /\ at_pg \in [Envs -> Pages \cup {NoPage}]
  /\ at_uenvs \in Pages \cup {EnvsPage}
  /\ buf \in [Clients -> Outcomes \cup {None}]
  /\ cow \in [Clients -> BOOLEAN]
  /\ pc[FS] \in {"top", "recv", "handle", "reply", "unmap", "panic"}
  /\ \A c \in Clients :
       pc[c] \in {"idle", "send", "sent", "wait", "panic", "dead"}
  /\ pc = [e \in Envs |-> pc[e]]
  /\ req \in [Clients -> Types]
  /\ whom \in Clients \cup {NoEnv}
  /\ sreq \in Types
  /\ pg \in {FdPage, NoPage}
  /\ out \in [Clients -> Outcomes \cup {None}]
  /\ ret = [c \in Clients |-> ret[c]]
  /\ \A e \in Envs : env_ipc_recving[e] => env_ipc_dstva[e] # "0"

\* While the server works on a request and until it has answered, the page at
\* fsreq is the one the client it answers sent with that request, whoever
\* else sends meanwhile (serve, fs/serv.c: "All requests must contain an
\* argument page").
RequestPage ==
  pc[FS] \in {"handle", "reply", "unmap"} => at_pg[FS] = whom

\* When the server is blocked for the next request, no client that sent one is
\* still blocked for its answer: client and server never wait for each other
\* (the client may not have reached ipc_recv when the server answers, and then
\* ipc_send must try again).
NobodyForgotten ==
  pc[FS] = "recv" /\ env_ipc_recving[FS] =>
    \A c \in Clients : /\ pc[c] # "sent"
                       /\ pc[c] = "wait" => ~env_ipc_recving[c]

\* The page at UENVS stays the kernel's: with the programs of lib/, a page is
\* sent only to a program that asked for one (sys_ipc_try_send: "If the sender
\* wants to send a page but the receiver isn't asking for one, then no page
\* mapping is transferred").
UenvsIntact == at_uenvs = EnvsPage

\* ipc_send "keeps trying until it succeeds".  With memory to spare and nobody
\* dying, the only call of fsipc that ends in its panic is a sync made with a
\* request page that is still copy-on-write since a fork: sync writes nothing to
\* fsipcbuf, so that the page is not writable.  The server never panics.
OnlySyncPanics ==
  /\ pc[FS] # "panic"
  /\ \A c \in Clients : pc[c] = "panic" => req[c] = "sync" /\ cow[c]

\* A request the server took is answered and its client goes on.
TakenIsAnswered ==
  \A c \in Clients :
    (pc[FS] = "recv" /\ ~env_ipc_recving[FS] /\ env_ipc_from[FS] = c)
      ~> pc[c] = "idle"

\* While some client has a request it can send, the server goes on taking
\* requests: it is never left waiting with a receive that nobody can complete.
ServerKeepsServing ==
  (\E c \in Clients : pc[c] = "send" /\ ~cow[c]) ~> pc[FS] = "handle"

\* The answer to c's request is computed, or delivered already.
Served(c) ==
  \/ pc[c] = "wait" /\ ~env_ipc_recving[c]
  \/ pc[c] \in {"sent", "wait"} /\ pc[FS] \in {"reply", "panic"} /\ whom = c

\* Where the call of a client is, as its program sees it.
Phase(c) ==
  CASE pc[c] \in {"dead", "panic"} -> "dead"
    [] pc[c] = "idle" -> "idle"
    [] Served(c) -> "served"
    [] OTHER -> "called"

R == INSTANCE JosRpc WITH
       phase <- [c \in Clients |-> Phase(c)],
       out <- [c \in Clients |-> IF Phase(c) = "dead" THEN None ELSE out[c]]

\* fsipc is a procedure call: each request is served exactly once, from the
\* caller's own page, and its caller gets that answer and no other.
CallsAnswered == R!RpcSpec
=============================================================================
