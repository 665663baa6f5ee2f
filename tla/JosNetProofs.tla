----------------------------- MODULE JosNetProofs -----------------------------
(***************************************************************************)
(* Proofs about JosNet, for any number of clients, buffers, descriptors    *)
(* and packets.  The two rings and the buffers of the server have an       *)
(* inductive invariant each.                                               *)
(***************************************************************************)
EXTENDS JosNet, FiniteSetTheorems, WellFoundedInduction, TLAPS

-------------------------------------------------------------------------------
(***************************************************************************)
(* Rings                                                                   *)
(***************************************************************************)

\* The place n after i in a ring of N descriptors, and how far i is ahead of h.
RingPos(i, n, N) == IF i + n < N THEN i + n ELSE i + n - N
Ahead(h, i, N) == IF i >= h THEN i - h ELSE i + N - h

\* What % is for: the next descriptor.
LEMMA Turn ==
  ASSUME NEW N \in Nat \ {0}, NEW i \in 0..(N - 1)
  PROVE  (i + 1) % N = RingPos(i, 1, N) /\ RingPos(i, 1, N) \in 0..(N - 1)
<1>1. CASE i + 1 < N
  <2>1. i + 1 \in 0..(N - 1)
    BY <1>1
  <2>2. (i + 1) % N = i + 1
    BY <2>1
  <2> QED BY <2>1, <2>2, <1>1 DEF RingPos
<1>2. CASE i + 1 = N
  <2>1. N % N = 0
    OBVIOUS
  <2> QED BY <1>2, <2>1 DEF RingPos
<1> QED BY <1>1, <1>2

\* The descriptors of the transmit ring.
TxDescs == 0..(TXDESCS - 1)

\* The card has put s packets on the wire and has w to go, from head h to tail t,
\* in the order of their numbers; it is done with the other descriptors.  If w is
\* TXDESCS the head is the tail, and the card takes the ring for empty.
TxRing(h, t, dd, buf, s, w) ==
  /\ h \in TxDescs /\ dd \in [TxDescs -> BOOLEAN] /\ buf \in [TxDescs -> Nat]
  /\ s \in Nat /\ w \in 0..TXDESCS /\ t = RingPos(h, w, TXDESCS)
  /\ \A i \in TxDescs : IF Ahead(h, i, TXDESCS) < w
                        THEN buf[i] = s + 1 + Ahead(h, i, TXDESCS) /\ ~dd[i]
                        ELSE dd[i]

\* The card sends the packet at the head: it is the next one.
LEMMA RingSends ==
  ASSUME NEW h, NEW t, NEW dd, NEW buf, NEW s, NEW w, TxRing(h, t, dd, buf, s, w), h # t
  PROVE  /\ buf[h] = s + 1
         /\ TxRing((h + 1) % TXDESCS, t, [dd EXCEPT ![h] = TRUE], buf, s + 1, w - 1)
<1> DEFINE g == (h + 1) % TXDESCS
           ee == [dd EXCEPT ![h] = TRUE]
<1>1. /\ h \in TxDescs /\ dd \in [TxDescs -> BOOLEAN] /\ buf \in [TxDescs -> Nat]
      /\ s \in Nat /\ w \in 0..TXDESCS /\ t = RingPos(h, w, TXDESCS) /\ TXDESCS \in Nat \ {0}
  BY NetConstants DEF TxRing
<1>2. g = RingPos(h, 1, TXDESCS) /\ g \in TxDescs
  BY <1>1, Turn DEF TxDescs
<1>3. w > 0 /\ w < TXDESCS
  BY <1>1 DEF RingPos, TxDescs
<1>4. Ahead(h, h, TXDESCS) = 0
  BY <1>1 DEF Ahead, TxDescs
<1>5. buf[h] = s + 1
  BY <1>1, <1>3, <1>4 DEF TxRing
<1>6. ee \in [TxDescs -> BOOLEAN] /\ \A i \in TxDescs : ee[i] = IF i = h THEN TRUE ELSE dd[i]
  BY <1>1
<1> HIDE DEF g, ee
<1>7. t = RingPos(g, w - 1, TXDESCS)
  <2>1. CASE h + 1 < TXDESCS
    BY <1>1, <1>2, <1>3, <2>1 DEF RingPos, TxDescs
  <2>2. CASE h + 1 = TXDESCS
    BY <1>1, <1>2, <1>3, <2>2 DEF RingPos, TxDescs
  <2> QED BY <1>1, <2>1, <2>2 DEF TxDescs
<1>8. ASSUME NEW i \in TxDescs
      PROVE  IF Ahead(g, i, TXDESCS) < w - 1
             THEN buf[i] = s + 1 + 1 + Ahead(g, i, TXDESCS) /\ ~ee[i]
             ELSE ee[i]
  <2>1. CASE i = h
    <3>1. Ahead(g, h, TXDESCS) = TXDESCS - 1
      BY <1>1, <1>2 DEF Ahead, RingPos, TxDescs
    <3>2. ~(Ahead(g, i, TXDESCS) < w - 1)
      BY <1>1, <2>1, <3>1
    <3> QED BY <1>6, <2>1, <3>2, Zenon
  <2>2. CASE i # h
    <3> DEFINE a == Ahead(h, i, TXDESCS)
               b == Ahead(g, i, TXDESCS)
    <3>1. b = a - 1 /\ a \in Nat /\ a > 0
      BY <1>1, <1>2, <2>2 DEF Ahead, RingPos, TxDescs
    <3>2. IF a < w THEN buf[i] = s + 1 + a /\ ~dd[i] ELSE dd[i]
      BY DEF TxRing
    <3>3. ee[i] = dd[i]
      BY <1>6, <2>2, Zenon
    <3> HIDE DEF a, b
    <3>4. CASE a < w
      BY <1>1, <3>1, <3>2, <3>3, <3>4 DEF b
    <3>5. CASE ~(a < w)
      BY <1>1, <3>1, <3>2, <3>3, <3>5 DEF b
    <3> QED BY <3>4, <3>5
  <2> QED BY <2>1, <2>2
<1>9. s + 1 \in Nat /\ w - 1 \in 0..TXDESCS
  BY <1>1, <1>3
<1>10. TxRing(g, t, ee, buf, s + 1, w - 1)
  BY <1>1, <1>2, <1>6, <1>7, <1>8, <1>9 DEF TxRing
<1> QED BY <1>5, <1>10 DEF g, ee

\* The driver puts a packet at the tail, where the card is done.
LEMMA RingFills ==
  ASSUME NEW h, NEW t, NEW dd, NEW buf, NEW s, NEW w, TxRing(h, t, dd, buf, s, w), dd[t],
         NEW x, x = s + w + 1
  PROVE  TxRing(h, (t + 1) % TXDESCS, [dd EXCEPT ![t] = FALSE], [buf EXCEPT ![t] = x], s, w + 1)
<1> DEFINE u == (t + 1) % TXDESCS
           ee == [dd EXCEPT ![t] = FALSE]
           cuf == [buf EXCEPT ![t] = x]
<1>1. /\ h \in TxDescs /\ dd \in [TxDescs -> BOOLEAN] /\ buf \in [TxDescs -> Nat]
      /\ s \in Nat /\ w \in 0..TXDESCS /\ t = RingPos(h, w, TXDESCS) /\ TXDESCS \in Nat \ {0}
  BY NetConstants DEF TxRing
<1>2. t \in TxDescs
  BY <1>1 DEF RingPos, TxDescs
<1>3. w < TXDESCS
  <2> SUFFICES ASSUME w = TXDESCS PROVE FALSE
    BY <1>1
  <2>1. t = h /\ Ahead(h, t, TXDESCS) < w
    BY <1>1 DEF RingPos, Ahead, TxDescs
  <2> QED BY <1>2, <2>1 DEF TxRing
<1>4. Ahead(h, t, TXDESCS) = w
  BY <1>1, <1>3 DEF RingPos, Ahead, TxDescs
<1>5. u = RingPos(t, 1, TXDESCS)
  BY <1>1, <1>2, Turn DEF TxDescs
<1>6. u = RingPos(h, w + 1, TXDESCS)
  BY <1>1, <1>3, <1>5 DEF RingPos, TxDescs
<1>7. /\ ee \in [TxDescs -> BOOLEAN] /\ \A i \in TxDescs : ee[i] = IF i = t THEN FALSE ELSE dd[i]
  BY <1>1, Zenon
<1>8. cuf \in [TxDescs -> Nat] /\ \A i \in TxDescs : cuf[i] = IF i = t THEN x ELSE buf[i]
  <2>1. x \in Nat
    BY <1>1
  <2> QED BY <1>1, <2>1, Zenon
<1> HIDE DEF u, ee, cuf
<1>9. ASSUME NEW i \in TxDescs
      PROVE  IF Ahead(h, i, TXDESCS) < w + 1
             THEN cuf[i] = s + 1 + Ahead(h, i, TXDESCS) /\ ~ee[i]
             ELSE ee[i]
  <2> DEFINE a == Ahead(h, i, TXDESCS)
  <2>1. CASE i = t
    <3>1. a = w /\ cuf[i] = x /\ ~ee[i]
      BY <1>2, <1>4, <1>7, <1>8, <2>1, Zenon
    <3> QED BY <1>1, <3>1
  <2>2. CASE i # t
    <3>1. a \in Nat /\ a # w
      BY <1>1, <2>2 DEF Ahead, RingPos, TxDescs
    <3>2. IF a < w THEN buf[i] = s + 1 + a /\ ~dd[i] ELSE dd[i]
      BY DEF TxRing
    <3>3. ee[i] = dd[i] /\ cuf[i] = buf[i]
      BY <1>7, <1>8, <2>2, Zenon
    <3> HIDE DEF a
    <3>4. a < w + 1 <=> a < w
      BY <1>1, <3>1
    <3> QED BY <3>2, <3>3, <3>4 DEF a
  <2> QED BY <2>1, <2>2
<1>10. w + 1 \in 0..TXDESCS
  BY <1>1, <1>3
<1>11. TxRing(h, u, ee, cuf, s, w + 1)
  BY <1>1, <1>6, <1>7, <1>8, <1>9, <1>10 DEF TxRing
<1> QED BY <1>11 DEF u, ee, cuf

-------------------------------------------------------------------------------
(***************************************************************************)
(* Output                                                                  *)
(***************************************************************************)

\* The packets that lwIP has sent and output has put in the ring.
Queued == made - (IF ns = "out" THEN 1 ELSE 0) - (IF output = "send" THEN 1 ELSE 0)

TxInv ==
  /\ made \in Nat /\ (output = "send" => outPage = Queued + 1)
  /\ TxRing(tdh, tdt, txDD, txBuf, sent, Queued - sent)

\* Nothing is in the ring.
LEMMA TxInit == Init => TxInv
<1> SUFFICES ASSUME Init PROVE TxInv
  OBVIOUS
<1>1. /\ tdt = 0 /\ tdh = 0 /\ txDD = [i \in TxDescs |-> TRUE] /\ txBuf = [i \in TxDescs |-> 0]
      /\ sent = 0 /\ made = 0 /\ ns = "loop" /\ output = "recv" /\ TXDESCS \in Nat \ {0}
  BY NetConstants DEF Init, TxDescs
<1>2. Queued = 0
  BY <1>1 DEF Queued
<1>3. TxRing(0, 0, txDD, txBuf, 0, 0)
  <2>1. 0 \in TxDescs /\ RingPos(0, 0, TXDESCS) = 0 /\ 0 \in 0..TXDESCS
    BY <1>1 DEF TxDescs, RingPos
  <2>2. \A i \in TxDescs : ~(Ahead(0, i, TXDESCS) < 0)
    BY <1>1 DEF TxDescs, Ahead
  <2> QED BY <1>1, <2>1, <2>2 DEF TxRing
<1> QED BY <1>1, <1>2, <1>3 DEF TxInv

\* Steps that send nothing.
LEMMA TxFrame ==
  ASSUME TxInv, UNCHANGED <<txVars, outVars, made>>, ns = "out" <=> ns' = "out"
  PROVE  TxInv'
<1>1. Queued' = Queued
  BY DEF Queued, outVars
<1> QED BY <1>1 DEF TxInv, txVars, outVars

\* Every step keeps the order of the packets in the ring, and the card puts the
\* next one on the wire.
LEMMA TxStep ==
  ASSUME TxInv, [Next]_vars
  PROVE  TxInv' /\ (card_transmit => sent' = sent + 1)
<1> DEFINE w == Queued - sent
<1>1. /\ made \in Nat /\ sent \in Nat /\ w \in Nat /\ Queued \in Int
      /\ TxRing(tdh, tdt, txDD, txBuf, sent, w)
  BY NetConstants DEF TxInv, TxRing, Queued
<1>2. ASSUME card_transmit PROVE TxInv' /\ sent' = sent + 1
  <2>1. /\ tdh # tdt /\ txDD' = [txDD EXCEPT ![tdh] = TRUE] /\ tdh' = (tdh + 1) % TXDESCS
        /\ sent' = txBuf[tdh] /\ tdt' = tdt /\ txBuf' = txBuf /\ Queued' = Queued
        /\ made' = made /\ output' = output /\ outPage' = outPage
    BY <1>2 DEF card_transmit, Queued, outVars, nsVars
  <2> HIDE DEF w
  <2>2. txBuf[tdh] = sent + 1 /\ TxRing(tdh', tdt, txDD', txBuf, sent + 1, w - 1)
    BY <1>1, <2>1, RingSends, Zenon
  <2>3. sent' = sent + 1 /\ Queued' - sent' = w - 1
    BY <1>1, <2>1, <2>2 DEF w
  <2> QED BY <2>1, <2>2, <2>3 DEF TxInv
<1>3. ASSUME e1000_transmit PROVE TxInv'
  <2>1. /\ output = "send" /\ txDD[tdt] /\ txBuf' = [txBuf EXCEPT ![tdt] = outPage]
        /\ txDD' = [txDD EXCEPT ![tdt] = FALSE] /\ tdt' = (tdt + 1) % TXDESCS
        /\ output' = "recv" /\ tdh' = tdh /\ sent' = sent /\ ns' = ns /\ made' = made
    BY <1>3 DEF e1000_transmit, nsVars
  <2>2. Queued' = Queued + 1 /\ outPage = sent + w + 1 /\ Queued' - sent' = w + 1
    BY <1>1, <2>1 DEF Queued, TxInv
  <2> HIDE DEF w
  <2>3. TxRing(tdh, tdt', txDD', txBuf', sent, w + 1)
    BY <1>1, <2>1, <2>2, RingFills, Zenon
  <2> QED BY <1>1, <2>1, <2>2, <2>3 DEF TxInv
<1>4. ASSUME low_level_output PROVE TxInv'
  <2>1. /\ ns \in {"run", "timer"} /\ made' = made + 1 /\ ns' = "out" /\ outPage' = outPage
        /\ output' = output /\ UNCHANGED txVars
    BY <1>4 DEF low_level_output, FilledPage, Running
  <2>2. Queued' = Queued
    BY <1>1, <2>1 DEF Queued
  <2> QED BY <1>1, <2>1, <2>2 DEF TxInv, txVars
<1>5. ASSUME output_recv PROVE TxInv'
  <2>1. /\ ns = "out" /\ output = "recv" /\ outPage' = made /\ output' = "send"
        /\ ns' \in {"run", "timer"} /\ made' = made /\ UNCHANGED txVars
    BY <1>5 DEF output_recv
  <2>2. Queued' = Queued /\ outPage' = Queued' + 1
    BY <1>1, <2>1 DEF Queued
  <2> QED BY <1>1, <2>1, <2>2 DEF TxInv, txVars
<1>6. ASSUME card_receive \/ e1000_receive \/ input_wakes \/ timer_rings \/ UNCHANGED vars
      PROVE  TxInv'
  <2>1. UNCHANGED <<txVars, outVars, made, ns>>
    BY <1>6, Zenon DEF card_receive, e1000_receive, input_wakes, timer_rings, vars, nsVars
  <2> QED BY <2>1, TxFrame
<1>7. ASSUME \E c \in Clients : client_exits(c) PROVE TxInv'
  <2>1. UNCHANGED <<txVars, outVars, made, ns>>
    BY <1>7, Zenon DEF client_exits
  <2> QED BY <2>1, TxFrame
<1>8. ASSUME get_buffer \/ overflow \/ serve_timer \/ process_timer \/ stray_timer \/ serve_loop
      PROVE  TxInv'
  <2>1. UNCHANGED <<txVars, outVars, made>> /\ ns # "out" /\ ns' # "out"
    BY <1>8 DEF get_buffer, overflow, serve_timer, process_timer, stray_timer, put_buffer, serve_loop
  <2> QED BY <2>1, TxFrame
<1>9. ASSUME serve_input \/ serve_hanging \/ serve_stray \/ \E c \in Clients : serve_call(c)
      PROVE  TxInv'
  <2>1. UNCHANGED <<txVars, outVars, made>> /\ ns # "out" /\ ns' # "out"
    BY <1>9 DEF serve_input, serve_hanging, serve_stray, serve_call, serve_request
  <2> QED BY <2>1, TxFrame
<1>10. ASSUME \E t \in threads : call_done(t) \/ stray_done(t) \/ jif_input(t) PROVE TxInv'
  <2>1. UNCHANGED <<txVars, outVars, made>> /\ ns # "out" /\ ns' # "out"
    BY <1>10 DEF call_done, stray_done, jif_input, Running
  <2> QED BY <2>1, TxFrame
<1>11. TxInv'
  BY <1>2, <1>3, <1>4, <1>5, <1>6, <1>7, <1>8, <1>9, <1>10, Zenon DEF Next, serve
<1> QED BY <1>2, <1>11, Zenon

\* Packets go on the wire in the order in which lwIP sent them, each once, for
\* any size of the ring, however often e1000_transmit is tried again.
THEOREM PacketsInOrder == Spec => OutInOrder
<1>1. Init => TxInv
  BY TxInit
<1>2. TxInv /\ [Next]_vars => TxInv'
  BY TxStep
<1>3. TxInv /\ [Next]_vars => [card_transmit => sent' = sent + 1]_vars
  BY TxStep
<1> QED BY <1>1, <1>2, <1>3, PTL DEF Spec, OutInOrder

-------------------------------------------------------------------------------
(***************************************************************************)
(* Input                                                                   *)
(***************************************************************************)

\* The receive ring in its first turn: descriptors that have not been read are
\* filled as far as the card has come, which is never past the tail.
FirstTurn ==
  /\ next = RingPos(0, taken, RXDESCS)
  /\ arrived \in 0..(taken + RXDESCS - 1)
  /\ rdh = RingPos(0, arrived, RXDESCS)
  /\ rdt = IF taken = 0 THEN RXDESCS - 1 ELSE taken - 1
  /\ \A i \in taken..(RXDESCS - 1) : /\ rxDD[i] <=> i < arrived
                                     /\ i < arrived => rxBuf[i] = i + 1
  /\ input = "send" => inPage = taken

RxDescs == 0..(RXDESCS - 1)

RxInv ==
  /\ taken \in 0..MaxTaken /\ arrived \in Nat
  /\ rxDD \in [RxDescs -> BOOLEAN] /\ rxBuf \in [RxDescs -> Nat]
  /\ taken <= RXDESCS => FirstTurn

\* Nothing has been received.
LEMMA RxInit == Init => RxInv
<1> SUFFICES ASSUME Init PROVE RxInv
  OBVIOUS
<1>1. /\ rdt = RXDESCS - 1 /\ rdh = 0 /\ rxDD = [i \in RxDescs |-> FALSE]
      /\ rxBuf = [i \in RxDescs |-> 0] /\ next = 0 /\ taken = 0 /\ arrived = 0
      /\ input = "poll" /\ RXDESCS \in Nat \ {0}
  BY NetConstants DEF Init, RxDescs
<1>2. taken \in 0..MaxTaken /\ rxDD \in [RxDescs -> BOOLEAN] /\ rxBuf \in [RxDescs -> Nat]
  BY <1>1 DEF MaxTaken
<1>3. \A i \in taken..(RXDESCS - 1) : (rxDD[i] <=> i < arrived) /\ (i < arrived => rxBuf[i] = i + 1)
  <2> SUFFICES ASSUME NEW i \in RxDescs PROVE ~rxDD[i] /\ ~(i < 0)
    BY <1>1 DEF RxDescs
  <2> QED BY <1>1 DEF RxDescs
<1>4. RingPos(0, 0, RXDESCS) = 0 /\ arrived \in 0..(taken + RXDESCS - 1)
  BY <1>1 DEF RingPos
<1> QED BY <1>1, <1>2, <1>3, <1>4, Zenon DEF RxInv, FirstTurn

\* A frame goes into the descriptor at the head, which nobody has yet to read.
LEMMA RxCard ==
  ASSUME RxInv, card_receive
  PROVE  RxInv'
<1>1. /\ RXDESCS \in Nat \ {0} /\ taken \in Nat /\ taken \in 0..MaxTaken
      /\ rxDD \in [RxDescs -> BOOLEAN] /\ rxBuf \in [RxDescs -> Nat] /\ MaxIn \in Nat
  BY NetConstants DEF RxInv, MaxTaken
<1>2. /\ rdh # rdt /\ rxBuf' = [rxBuf EXCEPT ![rdh] = arrived + 1]
      /\ rxDD' = [rxDD EXCEPT ![rdh] = TRUE] /\ rdh' = (rdh + 1) % RXDESCS
      /\ arrived' = arrived + 1 /\ rdt' = rdt /\ next' = next /\ taken' = taken
      /\ input' = input /\ inPage' = inPage
  BY DEF card_receive, inVars
<1>3. ASSUME taken <= RXDESCS PROVE FirstTurn'
  <2>1. /\ next = RingPos(0, taken, RXDESCS)
        /\ arrived \in 0..(taken + RXDESCS - 1)
        /\ rdh = RingPos(0, arrived, RXDESCS)
        /\ rdt = IF taken = 0 THEN RXDESCS - 1 ELSE taken - 1
        /\ \A i \in taken..(RXDESCS - 1) : /\ rxDD[i] <=> i < arrived
                                           /\ i < arrived => rxBuf[i] = i + 1
        /\ input = "send" => inPage = taken
    BY <1>3 DEF RxInv, FirstTurn
  <2>2. rdh \in RxDescs /\ arrived \in Nat
    BY <1>1, <1>3, <2>1 DEF RingPos, RxDescs
  <2>3. arrived # taken + RXDESCS - 1
    <3>1. CASE taken = 0
      BY <1>1, <1>2, <2>1, <3>1 DEF RingPos
    <3>2. CASE taken # 0
      BY <1>1, <1>2, <2>1, <3>2 DEF RingPos
    <3> QED BY <3>1, <3>2
  <2>4. arrived + 1 \in 0..(taken + RXDESCS - 1)
    BY <1>1, <2>1, <2>3
  <2>5. rdh' = RingPos(rdh, 1, RXDESCS)
    BY <1>1, <1>2, <2>2, Turn DEF RxDescs
  <2>6. rdh' = RingPos(0, arrived + 1, RXDESCS)
    <3>1. CASE arrived < RXDESCS
      BY <1>1, <2>1, <2>2, <2>5, <3>1 DEF RingPos
    <3>2. CASE ~(arrived < RXDESCS)
      BY <1>1, <1>3, <2>1, <2>2, <2>4, <2>5, <3>2 DEF RingPos
    <3> QED BY <3>1, <3>2
  <2>7. ASSUME NEW i \in taken..(RXDESCS - 1)
        PROVE  /\ rxDD'[i] <=> i < arrived + 1
               /\ i < arrived + 1 => rxBuf'[i] = i + 1
    <3>1. i \in RxDescs /\ i \in Nat
      BY <1>1 DEF RxDescs
    <3>2. (rxDD[i] <=> i < arrived) /\ (i < arrived => rxBuf[i] = i + 1)
      BY <2>1
    <3>3. /\ rxDD'[i] = IF i = rdh THEN TRUE ELSE rxDD[i]
          /\ rxBuf'[i] = IF i = rdh THEN arrived + 1 ELSE rxBuf[i]
      BY <1>1, <1>2, <3>1
    <3>4. CASE i = rdh
      <4>1. arrived = i
        BY <1>1, <2>1, <2>4, <3>4 DEF RingPos
      <4> QED BY <2>2, <3>3, <3>4, <4>1
    <3>5. CASE i # rdh
      <4>1. arrived # i
        BY <1>1, <2>1, <3>1, <3>5 DEF RingPos
      <4>2. i < arrived + 1 <=> i < arrived
        BY <2>2, <3>1, <4>1
      <4> QED BY <3>2, <3>3, <3>5, <4>2
    <3> QED BY <3>4, <3>5
  <2> QED BY <1>2, <2>1, <2>4, <2>6, <2>7 DEF FirstTurn
<1>4. rxDD' \in [RxDescs -> BOOLEAN]
  BY <1>1, <1>2, Zenon
<1>5. arrived' \in Nat /\ rxBuf' \in [RxDescs -> Nat]
  <2>1. arrived + 1 \in Nat
    BY DEF RxInv
  <2> QED BY <1>1, <1>2, <2>1, Zenon
<1> QED BY <1>1, <1>2, <1>3, <1>4, <1>5 DEF RxInv
\* The driver reads the descriptor at next and gives one back to the card.
LEMMA RxDriver ==
  ASSUME RxInv, e1000_receive
  PROVE  RxInv'
<1>1. /\ RXDESCS \in Nat \ {0} /\ taken \in Nat /\ taken \in 0..MaxTaken /\ arrived \in Nat
      /\ rxDD \in [RxDescs -> BOOLEAN] /\ rxBuf \in [RxDescs -> Nat] /\ MaxTaken = RXDESCS + 1
  BY NetConstants DEF RxInv, MaxTaken
<1>2. /\ input = "poll" /\ rxDD[next] /\ inPage' = rxBuf[next] /\ rdt' = (rdt + 1) % RXDESCS
      /\ next' = (next + 1) % RXDESCS /\ taken' = Min({taken + 1, MaxTaken}) /\ input' = "send"
      /\ rdh' = rdh /\ rxDD' = rxDD /\ rxBuf' = rxBuf /\ arrived' = arrived
  BY DEF e1000_receive, Next_rx
<1>3. taken' = IF taken <= RXDESCS THEN taken + 1 ELSE MaxTaken
  <2>1. CASE taken <= RXDESCS
    <3>1. taken + 1 \in {taken + 1, MaxTaken} /\ \A y \in {taken + 1, MaxTaken} : taken + 1 =< y
      BY <1>1, <2>1
    <3>2. \A x \in {taken + 1, MaxTaken} : (\A y \in {taken + 1, MaxTaken} : x =< y) => x = taken + 1
      BY <1>1, <2>1
    <3> QED BY <1>2, <2>1, <3>1, <3>2 DEF Min
  <2>2. CASE ~(taken <= RXDESCS)
    <3>1. MaxTaken \in {taken + 1, MaxTaken} /\ \A y \in {taken + 1, MaxTaken} : MaxTaken =< y
      BY <1>1, <2>2
    <3>2. \A x \in {taken + 1, MaxTaken} : (\A y \in {taken + 1, MaxTaken} : x =< y) => x = MaxTaken
      BY <1>1, <2>2
    <3> QED BY <1>2, <2>2, <3>1, <3>2 DEF Min
  <2> QED BY <2>1, <2>2
<1>4. taken' \in 0..MaxTaken
  BY <1>1, <1>3
<1>5. ASSUME taken' <= RXDESCS PROVE FirstTurn'
  <2>1. taken < RXDESCS /\ taken' = taken + 1
    BY <1>1, <1>3, <1>5
  <2>2. /\ next = RingPos(0, taken, RXDESCS)
        /\ arrived \in 0..(taken + RXDESCS - 1)
        /\ rdh = RingPos(0, arrived, RXDESCS)
        /\ rdt = IF taken = 0 THEN RXDESCS - 1 ELSE taken - 1
        /\ \A i \in taken..(RXDESCS - 1) : /\ rxDD[i] <=> i < arrived
                                           /\ i < arrived => rxBuf[i] = i + 1
    BY <1>1, <2>1 DEF RxInv, FirstTurn
  <2>3. next = taken
    BY <1>1, <2>1, <2>2 DEF RingPos
  <2>4. inPage' = taken + 1
    <3>1. taken \in taken..(RXDESCS - 1)
      BY <1>1, <2>1
    <3> QED BY <1>2, <2>2, <2>3, <3>1
  <2>5. next' = RingPos(taken, 1, RXDESCS)
    BY <1>1, <1>2, <2>1, <2>3, Turn
  <2>6. next' = RingPos(0, taken + 1, RXDESCS)
    BY <1>1, <2>5 DEF RingPos
  <2>7. rdt' = taken
    <3>1. rdt \in 0..(RXDESCS - 1)
      BY <1>1, <2>1, <2>2
    <3>2. rdt' = RingPos(rdt, 1, RXDESCS)
      BY <1>1, <1>2, <3>1, Turn
    <3>3. CASE taken = 0
      BY <1>1, <2>2, <3>2, <3>3 DEF RingPos
    <3>4. CASE taken # 0
      BY <1>1, <2>1, <2>2, <3>2, <3>4 DEF RingPos
    <3> QED BY <3>3, <3>4
  <2>8. rdt' = IF taken' = 0 THEN RXDESCS - 1 ELSE taken' - 1
    BY <1>1, <2>1, <2>7
  <2>9. arrived' \in 0..(taken' + RXDESCS - 1)
    BY <1>1, <1>2, <2>1, <2>2
  <2>10. \A i \in taken'..(RXDESCS - 1) : i \in taken..(RXDESCS - 1)
    BY <1>1, <2>1
  <2> QED BY <1>2, <2>1, <2>2, <2>4, <2>6, <2>8, <2>9, <2>10, Zenon DEF FirstTurn
<1> QED BY <1>1, <1>2, <1>4, <1>5 DEF RxInv

\* The other steps leave the ring alone; input sends its page on or polls again.
LEMMA RxFrame ==
  ASSUME RxInv, UNCHANGED <<rxVars, inPage>>, input' = "send" => input = "send"
  PROVE  RxInv'
BY DEF RxInv, FirstTurn, rxVars

\* Every step keeps the invariant of the receive ring.
LEMMA RxStep ==
  ASSUME RxInv, [Next]_vars
  PROVE  RxInv'
<1>1. CASE card_receive
  BY <1>1, RxCard
<1>2. CASE e1000_receive
  BY <1>2, RxDriver
<1>3. CASE input_wakes \/ serve_input
  <2>1. UNCHANGED <<rxVars, inPage>> /\ input' # "send"
    BY <1>3 DEF input_wakes, serve_input, serve_request
  <2> QED BY <2>1, RxFrame
<1>4. CASE \/ card_transmit \/ e1000_transmit \/ timer_rings \/ UNCHANGED vars
           \/ \E c \in Clients : client_exits(c)
  <2>1. UNCHANGED <<rxVars, inVars>>
    BY <1>4, Zenon DEF card_transmit, e1000_transmit, timer_rings, client_exits, vars
  <2> QED BY <2>1, RxFrame DEF inVars
<1>5. CASE \/ get_buffer \/ overflow \/ serve_timer \/ process_timer \/ stray_timer \/ serve_loop
           \/ low_level_output \/ output_recv
  <2>1. UNCHANGED <<rxVars, inVars>>
    BY <1>5, Zenon DEF get_buffer, overflow, serve_timer, process_timer, stray_timer, put_buffer,
       serve_loop, low_level_output, output_recv
  <2> QED BY <2>1, RxFrame DEF inVars
<1>6. CASE serve_hanging \/ serve_stray \/ \E c \in Clients : serve_call(c)
  <2>1. UNCHANGED <<rxVars, inVars>>
    BY <1>6, Zenon DEF serve_hanging, serve_stray, serve_call, serve_request, inVars
  <2> QED BY <2>1, RxFrame DEF inVars
<1>7. CASE \E t \in threads : call_done(t) \/ stray_done(t) \/ jif_input(t)
  <2>1. UNCHANGED <<rxVars, inVars>>
    BY <1>7, Zenon DEF call_done, stray_done, jif_input
  <2> QED BY <2>1, RxFrame DEF inVars
<1> QED BY <1>1, <1>2, <1>3, <1>4, <1>5, <1>6, <1>7 DEF Next, serve

\* Until the receive ring has been used up once, frame after frame is delivered,
\* none twice and none left out, for any number of descriptors.
THEOREM FirstRoundInOrder == Spec => []FirstRound
<1>1. Init => RxInv
  BY RxInit
<1>2. RxInv /\ [Next]_vars => RxInv'
  BY RxStep
<1>3. RxInv => FirstRound
  BY DEF RxInv, FirstTurn, FirstRound
<1> QED BY <1>1, <1>2, <1>3, PTL DEF Spec
-------------------------------------------------------------------------------
(***************************************************************************)
(* The buffers of the server                                               *)
(***************************************************************************)

Workers == Clients \cup {"input", "post", "stray"}

BufType ==
  /\ buse \subseteq Buffers /\ va \in Buffers \cup {-1}
  /\ page \in [Buffers -> Clients \cup {"input", "none"}]
  /\ threads \subseteq Workers \X Buffers
  /\ client \in [Clients -> {"free", "waits", "dead"}]

\* Nobody works in a buffer that is not in use, and nothing is mapped at such a
\* one, nor where the main thread receives.
PagesInv ==
  /\ OwnRequest
  /\ \A t \in threads : t[2] \in buse
  /\ \A i \in Buffers \ buse : page[i] = "none"
  /\ va # -1 => va \in buse /\ page[va] = "none"

\* A client has one thread at most, and waits for it unless it has died.
CallsInv ==
  /\ \A t \in threads : t[1] \in Clients => client[t[1]] # "free"
  /\ \A t, u \in threads : t[1] \in Clients /\ t[1] = u[1] => t = u

\* The main thread has a buffer from get_buffer until it passes it on or puts it
\* back.  When it comes back to its loop every new thread has had its turn, and
\* when no buffer is found all are in use.
PlaceInv ==
  /\ ns \in {"loop", "recv", "timer", "run", "out", "overflow", "panic"}
  /\ ns \in {"recv", "timer"} => va # -1
  /\ ns \in {"loop", "run", "overflow"} => va = -1
  /\ ns \in {"loop", "overflow"} => \A t \in threads : t[1] \notin {"input", "stray"}
  /\ ns = "overflow" => buse = Buffers

BufInv == BufType /\ PagesInv /\ CallsInv /\ PlaceInv

\* A set of numbers that is not empty has a least one, the buffer get_buffer takes.
LEMMA MinIn ==
  ASSUME NEW B, B \subseteq Nat, B # {}
  PROVE  Min(B) \in B
<1> DEFINE R == OpToRel(<, Nat)
<1>1. IsWellFoundedOn(R, Nat)
  BY NatLessThanWellFounded
<1>2. \A x, y \in Nat : <<y, x>> \in R <=> y < x
  BY DEF OpToRel
<1> HIDE DEF R
<1>3. PICK x \in B : \A y \in B : ~(<<y, x>> \in R)
  BY <1>1, WFMin, Zenon
<1>4. \A y \in B : x =< y
  <2> TAKE y \in B
  <2>1. x \in Nat /\ y \in Nat
    OBVIOUS
  <2>2. ~(y < x)
    BY <1>2, <1>3, <2>1, Zenon
  <2> QED BY <2>1, <2>2
<1> QED BY <1>4, Zenon DEF Min

\* -1 is no buffer.
LEMMA NoBuffer == -1 \notin Buffers
BY NetConstants DEF Buffers

\* The page of a thread's request, case by case.
LEMMA ArgumentPages ==
  ASSUME NEW t
  PROVE  /\ t[1] = "post" => ArgumentPage(t) = "input"
         /\ t[1] = "stray" => ArgumentPage(t) = "none"
         /\ t[1] \notin {"post", "stray"} => ArgumentPage(t) = t[1]
BY DEF ArgumentPage

\* A thread of a typed set is a pair.
LEMMA Pairs ==
  ASSUME BufType, NEW t \in threads
  PROVE  t = <<t[1], t[2]>> /\ t[1] \in Workers /\ t[2] \in Buffers
BY DEF BufType

\* A thread ends: the others keep their buffers and pages.
LEMMA DonePages ==
  ASSUME BufType, PagesInv, NEW t \in threads, done(t)
  PROVE  PagesInv' /\ (client' = client => BufType')
<1>1. /\ buse' = buse \ {t[2]} /\ page' = [page EXCEPT ![t[2]] = "none"]
      /\ threads' = threads \ {t} /\ va' = va
  BY DEF done
<1>2. t[2] \in Buffers /\ va # t[2]
  BY Pairs DEF PagesInv, OwnRequest
<1>3. \A u \in threads' : u \in threads /\ u[2] \in Buffers /\ u[2] # t[2]
  BY <1>1, Pairs DEF PagesInv, OwnRequest
<1>4. \A i \in Buffers : page'[i] = IF i = t[2] THEN "none" ELSE page[i]
  BY <1>1, <1>2 DEF BufType
<1>5. OwnRequest'
  <2> SUFFICES ASSUME NEW u \in threads'
               PROVE  /\ page'[u[2]] = ArgumentPage(u)
                      /\ va' # u[2] /\ \A x \in threads' : u[2] = x[2] => u = x
    BY DEF OwnRequest, ArgumentPage
  <2> QED BY <1>1, <1>3, <1>4 DEF PagesInv, OwnRequest
<1>6. \A u \in threads' : u[2] \in buse'
  BY <1>1, <1>3 DEF PagesInv
<1>7. \A i \in Buffers \ buse' : page'[i] = "none"
  BY <1>1, <1>4 DEF PagesInv
<1>8. va' # -1 => va' \in buse' /\ page'[va'] = "none"
  BY <1>1, <1>2, <1>4 DEF PagesInv, BufType
<1>9. ASSUME client' = client PROVE BufType'
  BY <1>1, <1>9 DEF BufType
<1> QED BY <1>5, <1>6, <1>7, <1>8, <1>9 DEF PagesInv

\* Threads that end, and clients that die, leave a client with one thread.
LEMMA CallsKept ==
  ASSUME CallsInv, threads' \subseteq threads,
         \A c \in Clients : client'[c] = client[c] \/ client'[c] # "free"
  PROVE  CallsInv'
BY DEF CallsInv

\* A step that leaves the buffers and the clients alone.
LEMMA BufFrame ==
  ASSUME BufInv, UNCHANGED <<bufVars, client>>
  PROVE  BufType' /\ PagesInv' /\ CallsInv'
<1>1. UNCHANGED <<buse, va, page, threads, client>>
  BY Zenon DEF bufVars
<1> QED BY <1>1 DEF BufInv, BufType, PagesInv, OwnRequest, ArgumentPage, CallsInv

\* All buffers are free.
LEMMA BufInit == Init => BufInv
<1> SUFFICES ASSUME Init PROVE BufInv
  OBVIOUS
<1>1. /\ buse = {} /\ va = -1 /\ page = [i \in Buffers |-> "none"] /\ threads = {}
      /\ client = [c \in Clients |-> "free"] /\ ns = "loop"
  BY DEF Init
<1> QED BY <1>1 DEF BufInv, BufType, PagesInv, OwnRequest, CallsInv, PlaceInv

\* get_buffer takes a buffer that is not in use.
LEMMA BufTake ==
  ASSUME BufInv, get_buffer
  PROVE  BufInv'
<1> DEFINE i == Min(Free)
<1>1. /\ ns = "loop" /\ Free # {} /\ va' = i /\ buse' = buse \cup {i} /\ ns' = "recv"
      /\ page' = page /\ threads' = threads /\ client' = client
  BY DEF get_buffer
<1>2. Free \subseteq Nat
  BY NetConstants DEF Free, Buffers
<1>3. i \in Free
  BY <1>1, <1>2, MinIn, Zenon
<1> HIDE DEF i
<1>4. i \in Buffers /\ i \notin buse /\ i # -1
  BY <1>3, NoBuffer DEF Free
<1>5. BufType' /\ CallsInv'
  BY <1>1, <1>4 DEF BufInv, BufType, CallsInv
<1>6. OwnRequest'
  <2> SUFFICES ASSUME NEW u \in threads
               PROVE  /\ page[u[2]] = ArgumentPage(u)
                      /\ i # u[2] /\ \A x \in threads : u[2] = x[2] => u = x
    BY <1>1 DEF OwnRequest, ArgumentPage
  <2> QED BY <1>4 DEF BufInv, PagesInv, OwnRequest
<1>7. PagesInv'
  BY <1>1, <1>4, <1>6 DEF BufInv, PagesInv
<1> QED BY <1>1, <1>4, <1>5, <1>7 DEF BufInv, PlaceInv

\* The main thread puts its buffer back after a request of the timer.
LEMMA BufTimer ==
  ASSUME BufInv, process_timer \/ stray_timer
  PROVE  BufInv'
<1>1. /\ ns \in {"recv", "timer"} /\ buse' = buse \ {va} /\ va' = -1 /\ ns' = "run"
      /\ page' = page /\ threads' = threads /\ client' = client
  BY DEF process_timer, stray_timer, put_buffer
<1>2. va \in Buffers /\ va # -1
  BY <1>1 DEF BufInv, PlaceInv, BufType
<1>3. BufType' /\ CallsInv'
  BY <1>1 DEF BufInv, BufType, CallsInv
<1>4. OwnRequest'
  <2> SUFFICES ASSUME NEW u \in threads
               PROVE  /\ page[u[2]] = ArgumentPage(u)
                      /\ -1 # u[2] /\ \A x \in threads : u[2] = x[2] => u = x
    BY <1>1 DEF OwnRequest, ArgumentPage
  <2>1. u[2] \in Buffers
    BY Pairs DEF BufInv
  <2> QED BY <2>1, NoBuffer DEF BufInv, PagesInv, OwnRequest
<1>5. PagesInv'
  BY <1>1, <1>2, <1>4 DEF BufInv, PagesInv, OwnRequest
<1> QED BY <1>1, <1>3, <1>5 DEF BufInv, PlaceInv

\* A request that gets no thread keeps its buffer; p is mapped there.
LEMMA BufKept ==
  ASSUME BufInv, NEW p \in Clients \cup {"input", "none"}, va # -1, va' = -1,
         page' = [page EXCEPT ![va] = p], threads' = threads, buse' = buse
  PROVE  PagesInv'
<1>1. va \in Buffers /\ va \in buse
  BY DEF BufInv, BufType, PagesInv
<1>2. \A i \in Buffers : page'[i] = IF i = va THEN p ELSE page[i]
  BY <1>1 DEF BufInv, BufType
<1>3. OwnRequest'
  <2> SUFFICES ASSUME NEW u \in threads
               PROVE  /\ page'[u[2]] = ArgumentPage(u)
                      /\ -1 # u[2] /\ \A x \in threads : u[2] = x[2] => u = x
    BY DEF OwnRequest, ArgumentPage
  <2>1. u[2] \in Buffers
    BY Pairs DEF BufInv
  <2> QED BY <1>2, <2>1, NoBuffer DEF BufInv, PagesInv, OwnRequest
<1> QED BY <1>1, <1>2, <1>3 DEF BufInv, PagesInv

\* A new thread works in the buffer in which its request came.
LEMMA BufSpawn ==
  ASSUME BufInv, NEW w \in Workers, NEW p \in Clients \cup {"input", "none"}, va # -1, va' = -1,
         page' = [page EXCEPT ![va] = p], threads' = threads \cup {<<w, va>>}, buse' = buse,
         ArgumentPage(<<w, va>>) = p
  PROVE  PagesInv'
<1> DEFINE n == <<w, va>>
<1>1. va \in Buffers /\ va \in buse /\ n[1] = w /\ n[2] = va
  BY DEF BufInv, BufType, PagesInv
<1>2. \A i \in Buffers : page'[i] = IF i = va THEN p ELSE page[i]
  BY <1>1 DEF BufInv, BufType
<1>3. ArgumentPage(n) = p
  OBVIOUS
<1> HIDE DEF n
<1>4. \A u \in threads : u[2] \in Buffers /\ u[2] # va
  BY Pairs DEF BufInv, PagesInv, OwnRequest
<1>5. threads' = threads \cup {n}
  BY DEF n
<1>6. OwnRequest'
  <2> SUFFICES ASSUME NEW u \in threads \cup {n}
               PROVE  /\ page'[u[2]] = ArgumentPage(u)
                      /\ -1 # u[2] /\ \A x \in threads \cup {n} : u[2] = x[2] => u = x
    BY <1>5 DEF OwnRequest, ArgumentPage
  <2>1. CASE u = n
    BY <1>1, <1>2, <1>3, <1>4, <2>1, NoBuffer
  <2>2. CASE u \in threads
    BY <1>1, <1>2, <1>4, <2>2, NoBuffer DEF BufInv, PagesInv, OwnRequest
  <2> QED BY <2>1, <2>2
<1>7. \A u \in threads' : u[2] \in buse'
  BY <1>1, <1>5 DEF BufInv, PagesInv
<1> QED BY <1>1, <1>2, <1>6, <1>7 DEF BufInv, PagesInv

\* A request gets a thread, or none for want of memory.
LEMMA BufRequest ==
  ASSUME BufInv, NEW w \in Workers, NEW p \in Clients \cup {"input", "none"}, serve_request(w, p),
         \A i \in Buffers : ArgumentPage(<<w, i>>) = p,
         \/ w \notin Clients /\ client' = client
         \/ w \in Clients /\ client[w] = "free" /\ client' = [client EXCEPT ![w] = "waits"]
  PROVE  BufInv'
<1>1. /\ ns = "recv" /\ va' = -1 /\ page' = [page EXCEPT ![va] = p] /\ buse' = buse
      /\ ns' \in {"run", "panic"}
      /\ threads' = threads \/ threads' = threads \cup {<<w, va>>}
  BY Zenon DEF serve_request
<1>2. va # -1 /\ va \in Buffers
  BY <1>1 DEF BufInv, PlaceInv, BufType
<1>3. PagesInv'
  BY <1>1, <1>2, BufKept, BufSpawn, Zenon
<1>4. client' \in [Clients -> {"free", "waits", "dead"}]
  BY DEF BufInv, BufType
<1>5. BufType'
  BY <1>1, <1>2, <1>4 DEF BufInv, BufType
<1>6. CallsInv'
  <2> DEFINE n == <<w, va>>
  <2>1. n[1] = w /\ threads' \subseteq threads \cup {n}
    BY <1>1
  <2> HIDE DEF n
  <2>2. CASE w \notin Clients /\ client' = client
    BY <2>1, <2>2 DEF BufInv, CallsInv
  <2>3. CASE w \in Clients /\ client[w] = "free" /\ client' = [client EXCEPT ![w] = "waits"]
    <3>1. \A c \in Clients : client'[c] = IF c = w THEN "waits" ELSE client[c]
      BY <2>3 DEF BufInv, BufType
    <3>2. \A t \in threads : t[1] \in Clients => client[t[1]] # "free" /\ t[1] # w
      BY <2>3 DEF BufInv, CallsInv
    <3> QED BY <2>1, <3>1, <3>2 DEF BufInv, CallsInv
  <2> QED BY <2>2, <2>3
<1>7. PlaceInv'
  BY <1>1 DEF PlaceInv
<1> QED BY <1>3, <1>5, <1>6, <1>7 DEF BufInv

\* A request without a page that is left hanging.
LEMMA BufHangs ==
  ASSUME BufInv, serve_hanging
  PROVE  BufInv'
<1>1. /\ ns = "recv" /\ va' = -1 /\ ns' = "run"
      /\ buse' = buse /\ page' = page /\ threads' = threads /\ client' = client
  BY DEF serve_hanging
<1>2. va # -1 /\ va \in Buffers /\ page[va] = "none"
  BY <1>1 DEF BufInv, PlaceInv, BufType, PagesInv
<1>3. page' = [page EXCEPT ![va] = "none"]
  BY <1>1, <1>2 DEF BufInv, BufType
<1>4. PagesInv'
  BY <1>1, <1>2, <1>3, BufKept, Zenon
<1>5. BufType' /\ CallsInv'
  BY <1>1 DEF BufInv, BufType, CallsInv
<1> QED BY <1>1, <1>4, <1>5 DEF BufInv, PlaceInv

\* While threads run they keep within what PlaceInv says.
LEMMA PlaceRuns ==
  ASSUME PlaceInv, Running, ns' = ns \/ ns' = "panic", va' = va
  PROVE  PlaceInv'
BY DEF PlaceInv, Running

\* The call of a client ends.
LEMMA BufCall ==
  ASSUME BufInv, NEW t \in threads, call_done(t)
  PROVE  BufInv'
<1>1. Running /\ t[1] \in Clients
  BY DEF call_done
<1>2. CASE /\ client[t[1]] = "waits" /\ client' = [client EXCEPT ![t[1]] = "free"]
           /\ done(t) /\ UNCHANGED ns
  <2>1. PagesInv'
    BY <1>2, DonePages DEF BufInv
  <2>2. /\ buse' = buse \ {t[2]} /\ page' = [page EXCEPT ![t[2]] = "none"]
        /\ threads' = threads \ {t} /\ va' = va
    BY <1>2 DEF done
  <2>3. BufType'
    BY <1>1, <1>2, <2>2 DEF BufInv, BufType
  <2>4. CallsInv'
    <3>1. \A c \in Clients : client'[c] = IF c = t[1] THEN "free" ELSE client[c]
      BY <1>2 DEF BufInv, BufType
    <3>2. \A u \in threads' : u \in threads /\ u[1] # t[1]
      BY <1>1, <2>2 DEF BufInv, CallsInv
    <3> QED BY <3>1, <3>2 DEF BufInv, CallsInv
  <2>5. PlaceInv'
    BY <1>1, <1>2, <2>2, PlaceRuns DEF BufInv
  <2> QED BY <2>1, <2>3, <2>4, <2>5 DEF BufInv
<1>3. CASE ns' = "panic" /\ UNCHANGED <<bufVars, client>>
  <2>1. PlaceInv'
    BY <1>1, <1>3, PlaceRuns DEF BufInv, bufVars
  <2> QED BY <1>3, <2>1, BufFrame DEF BufInv
<1> QED BY <1>2, <1>3 DEF call_done

\* A thread without a page ends, or takes the server with it.
LEMMA BufStray ==
  ASSUME BufInv, NEW t \in threads, stray_done(t)
  PROVE  BufInv'
<1>1. Running /\ client' = client /\ (ns' = ns \/ ns' = "panic")
  BY DEF stray_done
<1>2. CASE done(t)
  <2>1. PagesInv' /\ BufType' /\ va' = va /\ threads' \subseteq threads
    BY <1>1, <1>2, DonePages, Zenon DEF BufInv, done
  <2>2. CallsInv' /\ PlaceInv'
    BY <1>1, <2>1, CallsKept, PlaceRuns DEF BufInv
  <2> QED BY <2>1, <2>2 DEF BufInv
<1>3. CASE UNCHANGED bufVars
  <2>1. PlaceInv'
    BY <1>1, <1>3, PlaceRuns DEF BufInv, bufVars
  <2> QED BY <1>1, <1>3, <2>1, BufFrame DEF BufInv
<1> QED BY <1>2, <1>3 DEF stray_done

\* The thread of a packet ends, or waits for a slot of the mailbox.
LEMMA BufPacket ==
  ASSUME BufInv, NEW t \in threads, jif_input(t)
  PROVE  BufInv'
<1>1. Running /\ client' = client /\ ns' = ns
  BY DEF jif_input
<1>2. CASE done(t)
  <2>1. PagesInv' /\ BufType' /\ va' = va /\ threads' \subseteq threads
    BY <1>1, <1>2, DonePages, Zenon DEF BufInv, done
  <2>2. CallsInv' /\ PlaceInv'
    BY <1>1, <2>1, CallsKept, PlaceRuns DEF BufInv
  <2> QED BY <2>1, <2>2 DEF BufInv
<1>3. CASE /\ t[1] = "input" /\ threads' = (threads \ {t}) \cup {<<"post", t[2]>>}
           /\ UNCHANGED <<buse, va, page>>
  <2> DEFINE n == <<"post", t[2]>>
  <2>1. /\ t[2] \in Buffers /\ t[2] \in buse /\ va # t[2] /\ page[t[2]] = "input"
        /\ \A u \in threads \ {t} : u[2] # t[2]
    BY <1>3, Pairs, ArgumentPages DEF BufInv, PagesInv, OwnRequest
  <2>2. n[1] = "post" /\ n[2] = t[2] /\ ArgumentPage(n) = "input" /\ n \in Workers \X Buffers
    BY <2>1, ArgumentPages DEF Workers
  <2>3. threads' = (threads \ {t}) \cup {n}
    BY <1>3
  <2> HIDE DEF n
  <2>4. OwnRequest'
    <3> SUFFICES ASSUME NEW u \in (threads \ {t}) \cup {n}
                 PROVE  /\ page[u[2]] = ArgumentPage(u)
                        /\ va # u[2] /\ \A x \in (threads \ {t}) \cup {n} : u[2] = x[2] => u = x
      BY <1>3, <2>3 DEF OwnRequest, ArgumentPage
    <3>1. CASE u = n
      BY <2>1, <2>2, <3>1
    <3>2. CASE u \in threads \ {t}
      BY <2>1, <2>2, <3>2 DEF BufInv, PagesInv, OwnRequest
    <3> QED BY <3>1, <3>2
  <2>5. PagesInv'
    BY <1>3, <2>1, <2>2, <2>3, <2>4 DEF BufInv, PagesInv
  <2>6. BufType'
    BY <1>1, <1>3, <2>2, <2>3 DEF BufInv, BufType
  <2>7. n[1] \notin Clients
    BY <2>2, NetConstants
  <2>8. CallsInv'
    BY <1>1, <2>3, <2>7 DEF BufInv, CallsInv
  <2>9. PlaceInv'
    BY <1>1, <1>3, PlaceRuns DEF BufInv
  <2> QED BY <2>5, <2>6, <2>8, <2>9 DEF BufInv
<1> QED BY <1>2, <1>3, Zenon DEF jif_input, sys_mbox_trypost

\* The server goes from one place to another, and no buffer changes hands.
LEMMA BufMoves ==
  ASSUME BufInv,
         overflow \/ serve_timer \/ serve_loop \/ low_level_output \/ output_recv
  PROVE  BufInv'
<1>1. UNCHANGED <<bufVars, client>>
  BY Zenon DEF overflow, serve_timer, serve_loop, low_level_output, output_recv
<1>2. BufType' /\ PagesInv' /\ CallsInv' /\ va' = va /\ threads' = threads /\ buse' = buse
  BY <1>1, BufFrame, Zenon DEF bufVars
<1>3. PlaceInv'
  <2>1. CASE overflow
    <3>1. ns = "loop" /\ ns' = "overflow" /\ Free = {}
      BY <2>1 DEF overflow
    <3>2. buse = Buffers
      BY <3>1 DEF Free, BufInv, BufType
    <3> QED BY <1>2, <3>1, <3>2 DEF BufInv, PlaceInv
  <2>2. CASE serve_timer
    BY <1>2, <2>2 DEF serve_timer, BufInv, PlaceInv
  <2>3. CASE serve_loop
    BY <1>2, <2>3 DEF serve_loop, BufInv, PlaceInv
  <2>4. CASE low_level_output
    BY <1>2, <2>4 DEF low_level_output, BufInv, PlaceInv
  <2>5. CASE output_recv
    BY <1>2, <2>5 DEF output_recv, BufInv, PlaceInv
  <2> QED BY <2>1, <2>2, <2>3, <2>4, <2>5
<1> QED BY <1>2, <1>3 DEF BufInv

\* Every step keeps the invariant of the buffers.
LEMMA BufStep ==
  ASSUME BufInv, [Next]_vars
  PROVE  BufInv'
<1>1. CASE get_buffer
  BY <1>1, BufTake
<1>2. CASE process_timer \/ stray_timer
  BY <1>2, BufTimer
<1>3. CASE serve_input
  <2>1. \A i \in Buffers : ArgumentPage(<<"input", i>>) = "input"
    BY ArgumentPages
  <2>2. "input" \in Workers /\ "input" \notin Clients
    BY NetConstants DEF Workers
  <2>3. serve_request("input", "input") /\ client' = client
    BY <1>3 DEF serve_input
  <2> QED BY <2>1, <2>2, <2>3, BufRequest
<1>4. CASE serve_stray
  <2>1. \A i \in Buffers : ArgumentPage(<<"stray", i>>) = "none"
    BY ArgumentPages
  <2>2. "stray" \in Workers /\ "stray" \notin Clients
    BY NetConstants DEF Workers
  <2>3. serve_request("stray", page[va]) /\ client' = client
    BY <1>4 DEF serve_stray
  <2>4. page[va] = "none"
    BY <2>3 DEF serve_request, BufInv, PlaceInv, PagesInv
  <2> QED BY <2>1, <2>2, <2>3, <2>4, BufRequest
<1>5. ASSUME NEW c \in Clients, serve_call(c) PROVE BufInv'
  <2>1. c \in Workers /\ c \notin {"post", "stray"}
    BY NetConstants DEF Workers
  <2>2. \A i \in Buffers : ArgumentPage(<<c, i>>) = c
    BY <2>1, ArgumentPages
  <2>3. /\ serve_request(c, c)
        /\ client[c] = "free" /\ client' = [client EXCEPT ![c] = "waits"]
    BY <1>5 DEF serve_call
  <2> QED BY <2>1, <2>2, <2>3, BufRequest, Zenon
<1>6. CASE serve_hanging
  BY <1>6, BufHangs
<1>7. ASSUME NEW t \in threads, call_done(t) \/ stray_done(t) \/ jif_input(t) PROVE BufInv'
  BY <1>7, BufCall, BufStray, BufPacket
<1>8. CASE overflow \/ serve_timer \/ serve_loop \/ low_level_output \/ output_recv
  BY <1>8, BufMoves
<1>9. CASE \/ card_transmit \/ card_receive \/ e1000_transmit \/ e1000_receive
           \/ input_wakes \/ timer_rings \/ UNCHANGED vars
  <2>1. UNCHANGED <<bufVars, client, ns>>
    BY <1>9, Zenon DEF card_transmit, card_receive, e1000_transmit, e1000_receive, input_wakes,
       timer_rings, vars, nsVars
  <2>2. PlaceInv'
    BY <2>1 DEF BufInv, PlaceInv, bufVars
  <2> QED BY <2>1, <2>2, BufFrame DEF BufInv
<1>10. ASSUME NEW c \in Clients, client_exits(c) PROVE BufInv'
  <2>1. /\ UNCHANGED <<buse, va, page, threads, ns>>
        /\ client' = [client EXCEPT ![c] = "dead"]
    BY <1>10, Zenon DEF client_exits, bufVars
  <2>2. BufType' /\ \A d \in Clients : client'[d] = client[d] \/ client'[d] = "dead"
    BY <2>1 DEF BufInv, BufType
  <2>3. CallsInv'
    BY <2>1, <2>2, CallsKept DEF BufInv
  <2>4. PagesInv' /\ PlaceInv'
    BY <2>1 DEF BufInv, PagesInv, OwnRequest, ArgumentPage, PlaceInv
  <2> QED BY <2>2, <2>3, <2>4 DEF BufInv
<1> QED BY <1>1, <1>2, <1>3, <1>4, <1>5, <1>6, <1>7, <1>8, <1>9, <1>10, Zenon DEF Next, serve

\* The invariant of the buffers holds in every state.
THEOREM BuffersInvariant == Spec => []BufInv
<1>1. Init => BufInv
  BY BufInit
<1>2. BufInv /\ [Next]_vars => BufInv'
  BY BufStep
<1> QED BY <1>1, <1>2, PTL DEF Spec

\* Each thread of the server works on its own request until its end, for any
\* number of buffers, clients and packets, whoever dies and whatever memory
\* there is.
THEOREM OwnRequests == Spec => []OwnRequest
<1>1. BufInv => OwnRequest
  BY DEF BufInv, PagesInv
<1> QED BY <1>1, BuffersInvariant, PTL

\* "NS: buffer overflow": with a buffer to spare over the clients and the buffers
\* lost, the server does not run out of them while no packet waits to be posted.
THEOREM BuffersSuffice == Spec => []NoOverflow
<1>1. BufInv => NoOverflow
  <2> SUFFICES ASSUME BufInv, ns = "overflow", \A t \in threads : t[1] # "post",
                      Cardinality(Clients) + Cardinality(Lost) < QUEUE_SIZE
               PROVE  FALSE
    BY DEF NoOverflow
  <2>1. QUEUE_SIZE \in Nat \ {0} /\ IsFiniteSet(Clients)
    BY NetConstants
  <2>2. buse = Buffers /\ va \notin Buffers
    BY NoBuffer DEF BufInv, PlaceInv
  <2>3. \A t \in threads : t[1] \in Clients
    BY Pairs DEF BufInv, PlaceInv, Workers
  <2> DEFINE B == Buffers \ Lost
             th(i) == CHOOSE t \in threads : t[2] = i
             g == [i \in B |-> th(i)[1]]
  <2>4. \A i \in B : th(i) \in threads /\ th(i)[2] = i
    <3> SUFFICES ASSUME NEW i \in B PROVE \E t \in threads : t[2] = i
      OBVIOUS
    <3> QED BY <2>2 DEF Lost
  <2>5. g \in [B -> Clients]
    BY <2>3, <2>4
  <2>6. \A i, j \in B : g[i] = g[j] => i = j
    <3> SUFFICES ASSUME NEW i \in B, NEW j \in B, th(i)[1] = th(j)[1] PROVE i = j
      OBVIOUS
    <3>1. th(i) = th(j)
      BY <2>3, <2>4 DEF BufInv, CallsInv
    <3> QED BY <2>4, <3>1
  <2>7. g \in Injection(B, Clients)
    BY <2>5, <2>6 DEF Injection, IsInjective
  <2>8. Cardinality(B) <= Cardinality(Clients)
    BY <2>1, <2>7, FS_Injection
  <2>9. IsFiniteSet(Buffers) /\ Cardinality(Buffers) = QUEUE_SIZE
    BY <2>1, FS_Interval DEF Buffers
  <2>10. Lost \subseteq Buffers /\ Buffers \cap Lost = Lost
    BY <2>2 DEF Lost
  <2>11. Cardinality(B) = QUEUE_SIZE - Cardinality(Lost)
    BY <2>9, <2>10, FS_Difference
  <2>12. Cardinality(Lost) \in Nat /\ Cardinality(Clients) \in Nat
    BY <2>1, <2>9, <2>10, FS_Subset, FS_CardinalityType
  <2> HIDE DEF B
  <2> QED BY <2>1, <2>8, <2>11, <2>12
<1> QED BY <1>1, BuffersInvariant, PTL
===============================================================================
