------------------------------- MODULE JosRpc -------------------------------
(* What fsipc promises a program: a request is served exactly once, from the *)
(* argument page of the caller, and the caller gets the answer to that very  *)
(* request: its value, its response page and, for an open that succeeds,     *)
(* the page of the file descriptor.  JosIpc implements it.                   *)
CONSTANTS Clients, Types, None

VARIABLES
  phase,   \* where the call of a client is
  req,     \* the request code of the current or last call
  out,     \* what the file server computed for it
  ret      \* what fsipc gave back

rpcVars == <<phase, req, out, ret>>


\* Only reads and the like are answered in the page too.
Result(o) == [value |-> o,
              body |-> IF o.type = "other" /\ o.r = "ok" THEN o ELSE None,
              fd |-> o.type = "open" /\ o.r = "ok"]

RpcInit ==
  /\ phase = [c \in Clients |-> "idle"]
  /\ req \in [Clients -> Types]
  /\ out = [c \in Clients |-> None]
  /\ ret = [c \in Clients |-> None]

Call(c, t) ==
  /\ phase[c] = "idle"
  /\ phase' = [phase EXCEPT ![c] = "called"]
  /\ req' = [req EXCEPT ![c] = t]
  /\ ret' = [ret EXCEPT ![c] = None]
  /\ UNCHANGED out

Serve(c, r) ==
  /\ phase[c] = "called"
  /\ phase' = [phase EXCEPT ![c] = "served"]
  /\ out' = [out EXCEPT ![c] = [type |-> req[c], arg |-> c, r |-> r]]
  /\ UNCHANGED <<req, ret>>

Return(c) ==
  /\ phase[c] = "served"
  /\ phase' = [phase EXCEPT ![c] = "idle"]
  /\ ret' = [ret EXCEPT ![c] = Result(out[c])]
  /\ out' = [out EXCEPT ![c] = None]
  /\ UNCHANGED req

\* The client dies: its call, if any, never returns, and nobody will know
\* whether it was served.
Die(c) ==
  /\ phase' = [phase EXCEPT ![c] = "dead"]
  /\ out' = [out EXCEPT ![c] = None]
  /\ ret' = [ret EXCEPT ![c] = None]
  /\ UNCHANGED req

RpcNext ==
  \E c \in Clients :
    \/ \E t \in Types : Call(c, t)
    \/ \E r \in {"ok", "fail"} : Serve(c, r)
    \/ Return(c)
    \/ Die(c)

RpcSpec == RpcInit /\ [][RpcNext]_rpcVars
=============================================================================
