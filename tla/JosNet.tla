-------------------------------- MODULE JosNet --------------------------------
(***************************************************************************)
(* The network of JOS (lab6-net/net, kern/e1000.c): the network server     *)
(* with its request buffers and threads, the environments that poll for    *)
(* input, send output and keep time, the driver and, external to the       *)
(* repository, the E1000 card.                                             *)
(*                                                                         *)
(* A packet is its number: outgoing packets in the order in which lwIP     *)
(* sends them, incoming frames in the order in which the card takes them.  *)
(* A system call is one step, and the card works on the rings whenever it  *)
(* likes.  ipc_send and the ipc_recv it meets are one step (see JosIpc).   *)
(***************************************************************************)
EXTENDS Integers, FiniteSets, FiniteSetsExt

CONSTANTS
  Clients,
  QUEUE_SIZE,         \* request buffers of the network server
  MBOXSLOTS,          \* messages that the mailbox of a socket holds
  TXDESCS, RXDESCS,   \* descriptors of the two rings
  MaxOut, MaxIn,      \* bounds: packets sent, frames received
  MaxLost             \* bound: buffers that nobody gives back

ASSUME NetConstants ==
  /\ {QUEUE_SIZE, MBOXSLOTS, TXDESCS, RXDESCS} \subseteq Nat \ {0}
  /\ {MaxOut, MaxIn, MaxLost} \subseteq Nat
  /\ IsFiniteSet(Clients) /\ Clients \cap {"none", "input", "post", "stray"} = {}

VARIABLES
  tdt, tdh, txDD, txBuf, sent,                  \* transmit ring; packets on the wire
  rdt, rdh, rxDD, rxErr, rxBuf,                 \* receive ring
  next, taken, arrived,                         \* its reader; packets read, frames come
  outPage, output,                \* the page the output environment has; where it is
  inPage, input,                  \* the same of the input environment
  buse, va,                       \* buffers marked in use; that of the main thread, or -1
  page,                           \* whose page is mapped at a buffer
  threads,                        \* pairs: for whom a thread works, and in which buffer
  perm,                           \* whether env_ipc_perm of the server holds PTE_P
  client,                         \* a client is free, waits for an answer or is dead
  ns, made, timer, mbox           \* the server; lwIP's packets; messages in the mailbox

txVars == <<tdt, tdh, txDD, txBuf, sent>>
rxVars == <<rdt, rdh, rxDD, rxErr, rxBuf, next, taken, arrived>>
outVars == <<outPage, output>>
inVars == <<inPage, input>>
bufVars == <<buse, va, page, threads>>
nsVars == <<bufVars, perm, client, ns, made, timer, mbox>>
vars == <<txVars, rxVars, outVars, inVars, nsVars>>

Buffers == 0..(QUEUE_SIZE - 1)

\* The count of packets read stops here: one turn of the ring, and one more.
MaxTaken == RXDESCS + 1

Init ==
  /\ tdt = 0 /\ tdh = 0 /\ txDD = [i \in 0..(TXDESCS - 1) |-> TRUE]
  /\ txBuf = [i \in 0..(TXDESCS - 1) |-> 0] /\ sent = 0
  /\ rdt = RXDESCS - 1 /\ rdh = 0 /\ rxDD = [i \in 0..(RXDESCS - 1) |-> FALSE]
  /\ rxErr = {} /\ rxBuf = [i \in 0..(RXDESCS - 1) |-> 0] /\ next = 0 /\ taken = 0 /\ arrived = 0
  /\ outPage = 0 /\ output = "recv" /\ inPage = 0 /\ input = "poll"
  /\ buse = {} /\ va = -1 /\ page = [i \in Buffers |-> "none"] /\ threads = {}
  /\ perm = FALSE /\ client = [c \in Clients |-> "free"]
  /\ ns = "loop" /\ made = 0 /\ timer = "wait" /\ mbox = 0

-------------------------------------------------------------------------------
(***************************************************************************)
(* The card (external): it owns the descriptors from its head to the tail. *)
(***************************************************************************)

card_transmit ==
  /\ tdh # tdt
  /\ txDD' = [txDD EXCEPT ![tdh] = TRUE]
  /\ tdh' = (tdh + 1) % TXDESCS
  /\ sent' = txBuf[tdh]
  /\ UNCHANGED <<tdt, txBuf, rxVars, outVars, inVars, nsVars>>

\* A frame may come with errors.  One that finds no descriptor is lost, and not
\* counted.
card_receive ==
  /\ rdh # rdt /\ arrived < MaxIn
  /\ rxBuf' = [rxBuf EXCEPT ![rdh] = arrived + 1]
  /\ rxDD' = [rxDD EXCEPT ![rdh] = TRUE]
  /\ rxErr' \in {rxErr \cup {rdh}, rxErr \ {rdh}}
  /\ rdh' = (rdh + 1) % RXDESCS
  /\ arrived' = arrived + 1
  /\ UNCHANGED <<rdt, next, taken, txVars, outVars, inVars, nsVars>>

-------------------------------------------------------------------------------
(***************************************************************************)
(* The driver, and the environments that call it                           *)
(***************************************************************************)

\* output sends its page, and yields and tries again while the card is not
\* done with the descriptor at the tail (-E_TRANSMIT_RETRY).
e1000_transmit ==
  /\ output = "send" /\ txDD[tdt]
  /\ txBuf' = [txBuf EXCEPT ![tdt] = outPage]
  /\ txDD' = [txDD EXCEPT ![tdt] = FALSE]
  /\ tdt' = (tdt + 1) % TXDESCS
  /\ output' = "recv"
  /\ UNCHANGED <<tdh, sent, rxVars, outPage, inVars, nsVars>>

\* Mutant: the receive path skips a descriptor after each packet.
Next_skips(i) == (i + 2) % RXDESCS

\* next, after a packet.
Next_rx(i) == (i + 1) % RXDESCS

\* input polls; a packet is copied to the page it sends to the server, which
\* is the same page each time.  It tries again while there is none, and for ever
\* once a frame has come with errors: its descriptor is not passed over.
e1000_receive ==
  /\ input = "poll" /\ rxDD[next] /\ next \notin rxErr
  /\ inPage' = rxBuf[next]
  /\ rdt' = (rdt + 1) % RXDESCS
  /\ next' = Next_rx(next)
  /\ taken' = Min({taken + 1, MaxTaken})
  /\ input' = "send"
  /\ UNCHANGED <<rdh, rxDD, rxErr, rxBuf, arrived, txVars, outVars, nsVars>>

\* The end of sleep(50).
input_wakes ==
  /\ input = "sleep"
  /\ input' = "poll"
  /\ UNCHANGED <<inPage, txVars, rxVars, outVars, nsVars>>

\* TIMER_INTERVAL, or what process_timer has answered, is over.
timer_rings ==
  /\ timer = "wait"
  /\ timer' = "send"
  /\ UNCHANGED <<bufVars, perm, client, ns, made, mbox, txVars, rxVars, outVars, inVars>>

-------------------------------------------------------------------------------
(***************************************************************************)
(* The network server: threads that give way to each other only where they *)
(* wait, and a main thread that stops them all while it waits in ipc_recv. *)
(* The mailbox is that of the socket that the packets are for.             *)
(***************************************************************************)

\* Mutant: the last buffer is never found.
Free_short == Buffers \ (buse \cup {QUEUE_SIZE - 1})

Free == Buffers \ buse

\* The main thread takes a buffer and waits in ipc_recv.
get_buffer ==
  /\ ns = "loop" /\ Free # {}
  /\ va' = Min(Free) /\ buse' = buse \cup {Min(Free)}
  /\ ns' = "recv"
  /\ UNCHANGED <<page, threads, perm, client, made, timer, mbox, txVars, rxVars, outVars, inVars>>

\* panic("NS: buffer overflow")
overflow ==
  /\ ns = "loop" /\ Free = {}
  /\ ns' = "overflow"
  /\ UNCHANGED <<bufVars, perm, client, made, timer, mbox, txVars, rxVars, outVars, inVars>>

\* A timer request: process_timer lets the other threads run ...
serve_timer ==
  /\ ns = "recv" /\ timer = "send"
  /\ ns' = "timer"
  /\ UNCHANGED <<bufVars, perm, client, made, timer, mbox, txVars, rxVars, outVars, inVars>>

\* The main thread gives its buffer back and goes on.
put_buffer ==
  /\ buse' = buse \ {va} /\ va' = -1 /\ ns' = "run"
  /\ UNCHANGED <<page, threads, perm, client, made, mbox, txVars, rxVars, outVars, inVars>>

\* ... and answers.
process_timer == ns = "timer" /\ put_buffer /\ timer' = "wait"

\* A timer request of somebody else.
stray_timer == ns = "recv" /\ put_buffer /\ UNCHANGED timer

\* The buffers that are in use and that nobody will give back.
Lost == buse \ ({va} \cup {t[2] : t \in threads})

\* Mutant: the main thread gives the buffer back, as it does after the timer.
serve_request_puts(whom, p) ==
  /\ ns = "recv" /\ va' = -1
  /\ page' = [page EXCEPT ![va] = p]
  /\ threads' = threads \cup {<<whom, va>>} /\ ns' = "run"
  /\ buse' = buse \ {va}
  /\ UNCHANGED <<made, timer, mbox, txVars, rxVars, outVars, inPage>>

\* A request in the buffer at va, by which p is mapped there, gets a thread.
\* Without memory for the thread its buffer stays in use and nobody answers;
\* without memory for its arguments the server panics.
serve_request(whom, p) ==
  /\ ns = "recv" /\ va' = -1
  /\ page' = [page EXCEPT ![va] = p]
  /\ \/ threads' = threads \cup {<<whom, va>>} /\ ns' = "run"
     \/ Cardinality(Lost) < MaxLost /\ UNCHANGED threads /\ ns' = "run"
     \/ UNCHANGED threads /\ ns' = "panic"
  /\ UNCHANGED <<buse, made, timer, mbox, txVars, rxVars, outVars, inPage>>

\* A packet, after which input sleeps.
serve_input ==
  /\ input = "send" /\ input' = "sleep"
  /\ serve_request("input", "input")
  /\ perm' = TRUE /\ UNCHANGED client

\* A call of a client, which waits for its answer.
serve_call(c) ==
  /\ client[c] = "free" /\ client' = [client EXCEPT ![c] = "waits"]
  /\ serve_request(c, c)
  /\ perm' = TRUE /\ UNCHANGED input

\* "no argument page ... just leave it hanging": the buffer stays in use.
serve_hanging ==
  /\ ns = "recv" /\ ~perm /\ Cardinality(Lost) < MaxLost
  /\ va' = -1 /\ ns' = "run"
  /\ UNCHANGED <<buse, page, threads, perm, client, made, timer, mbox, txVars, rxVars, outVars, inVars>>

\* Once a request has come with a page, env_ipc_perm says so of every later
\* one, and one without gets a thread too.
serve_stray ==
  /\ perm
  /\ serve_request("stray", page[va])
  /\ UNCHANGED <<perm, client, input>>

\* A client exits, faults or is destroyed, in the middle of a call or not.
client_exits(c) ==
  /\ client[c] # "dead"
  /\ client' = [client EXCEPT ![c] = "dead"]
  /\ UNCHANGED <<bufVars, perm, ns, made, timer, mbox, txVars, rxVars, outVars, inVars>>

\* The threads run.
Running == ns \in {"run", "timer"}

\* The end of serve_thread, after the answer: put_buffer and sys_page_unmap.
done(t) ==
  /\ buse' = buse \ {t[2]} /\ page' = [page EXCEPT ![t[2]] = "none"]
  /\ threads' = threads \ {t} /\ UNCHANGED va

\* The call of a client ends; one that receives has emptied a slot.  The
\* ipc_send of the answer panics if the client is gone.
call_done(t) ==
  /\ Running /\ t[1] \in Clients
  /\ \/ /\ client[t[1]] = "waits" /\ client' = [client EXCEPT ![t[1]] = "free"]
        /\ done(t) /\ UNCHANGED ns
     \/ client[t[1]] = "dead" /\ ns' = "panic" /\ UNCHANGED <<bufVars, client>>
  /\ mbox' \in {mbox} \cup {m \in {mbox - 1} : m >= 0}
  /\ UNCHANGED <<perm, made, timer, txVars, rxVars, outVars, inVars>>

\* A thread without a page faults and the server panics, unless the code of
\* its request is unknown.
stray_done(t) ==
  /\ Running /\ t[1] = "stray"
  /\ \/ done(t) /\ UNCHANGED ns
     \/ ns' = "panic" /\ UNCHANGED bufVars
  /\ UNCHANGED <<perm, client, made, timer, mbox, txVars, rxVars, outVars, inVars>>

\* sys_mbox_trypost waits, in spite of its name, while there is no free slot.
sys_mbox_trypost(t) ==
  \/ mbox < MBOXSLOTS /\ mbox' = mbox + 1 /\ done(t)
  \/ mbox = MBOXSLOTS /\ t[1] = "input"
     /\ threads' = (threads \ {t}) \cup {<<"post", t[2]>>} /\ UNCHANGED <<mbox, buse, va, page>>

\* The thread of a packet: lwIP is done with it at once, or posts it.
jif_input(t) ==
  /\ Running /\ t[1] \in {"input", "post"}
  /\ \/ t[1] = "input" /\ done(t) /\ UNCHANGED mbox
     \/ sys_mbox_trypost(t)
  /\ UNCHANGED <<perm, client, ns, made, timer, txVars, rxVars, outVars, inVars>>

\* Mutant: low_level_output uses one page for all packets.
FilledPage_shared(k) == k

\* The page that output has, once low_level_output has filled one that it has
\* just allocated.
FilledPage(k) == outPage

\* A thread has lwIP send packet number made + 1 ...
low_level_output ==
  /\ Running /\ made < MaxOut
  /\ made' = made + 1 /\ ns' = "out"
  /\ outPage' = FilledPage(made + 1)
  /\ UNCHANGED <<bufVars, perm, client, timer, mbox, output, txVars, rxVars, inVars>>

\* ... and the whole server waits until output takes the page.
output_recv ==
  /\ ns = "out" /\ output = "recv"
  /\ outPage' = made /\ output' = "send"
  /\ ns' = IF va = -1 THEN "run" ELSE "timer"
  /\ UNCHANGED <<bufVars, perm, client, made, timer, mbox, txVars, rxVars, inVars>>

\* The main thread goes on once the new thread has had its turn, when no thread
\* is to be woken, or else after 32 yields: then a thread that waits to post may
\* be left waiting although a slot is free.
serve_loop ==
  /\ ns = "run" /\ \A t \in threads : t[1] \notin {"input", "stray"}
  /\ ns' = "loop"
  /\ UNCHANGED <<bufVars, perm, client, made, timer, mbox, txVars, rxVars, outVars, inVars>>

serve ==
  \/ get_buffer \/ overflow \/ serve_timer \/ process_timer \/ stray_timer
  \/ serve_input \/ serve_hanging \/ serve_stray \/ serve_loop
  \/ \E c \in Clients : serve_call(c)
  \/ \E t \in threads : call_done(t) \/ stray_done(t) \/ jif_input(t)
  \/ low_level_output \/ output_recv

Next ==
  \/ card_transmit \/ card_receive
  \/ e1000_transmit \/ e1000_receive \/ input_wakes \/ timer_rings
  \/ serve
  \/ \E c \in Clients : client_exits(c)

Spec == Init /\ [][Next]_vars

-------------------------------------------------------------------------------
(***************************************************************************)
(* Properties                                                              *)
(***************************************************************************)

\* Packets go on the wire in the order in which lwIP sent them, each once and
\* whole: whatever the card sends is the packet after the last one, although
\* output tries again while the ring is full and lwIP goes on with its next
\* packet meanwhile.
OutInOrder == [][card_transmit => sent' = sent + 1]_vars

\* Until the ring of receive descriptors has been used up once, the driver
\* delivers each frame once and in order.  It never clears the bit that says
\* that a descriptor has been filled, so this ends there.
FirstRound == input = "send" /\ taken <= RXDESCS => inPage = taken

\* The page that the request of a thread came with.
ArgumentPage(t) == CASE t[1] = "post" -> "input" [] t[1] = "stray" -> "none" [] OTHER -> t[1]

\* serve_thread works on its own request from beginning to end: no later
\* request is put over it, whatever the thread waits for, no other thread gives
\* its buffer back, and a request without a page never finds the page of an
\* earlier one.
OwnRequest ==
  \A t \in threads :
    /\ page[t[2]] = ArgumentPage(t)
    /\ va # t[2] /\ \A u \in threads : t[2] = u[2] => t = u

\* "NS: buffer overflow" takes more than a busy network: with a buffer to
\* spare over the clients, each in one call at a time, and the buffers that
\* were lost, it happens only while threads of packets wait for a full mailbox
\* and keep their buffers.
NoOverflow ==
  /\ Cardinality(Clients) + Cardinality(Lost) < QUEUE_SIZE
  /\ \A t \in threads : t[1] # "post"
  => ns # "overflow"
===============================================================================
