--------------------------- MODULE TcpTypeProofs ---------------------------
(***************************************************************************)
(* Type correctness of module Tcp, for every value of its constants, and   *)
(* what each operation on the socket leaves alone of the receive side.     *)
(***************************************************************************)
EXTENDS Tcp, TLAPS, WellFoundedInduction, SequenceTheorems

(***************************************************************************)
(* Before: no byte can have been received.  Receiving: bytes in sequence   *)
(* are accepted.  In the other states the stream from the peer has ended.  *)
(***************************************************************************)
Before == {"CLOSE", "SYN_SENT"}

Receiving == {"SYN_RECEIVED"} \cup TextStates

\* t is s after an operation that receives no data: the receive queue is the
\* same, the out-of-order queue is the same or dropped, and rcv_nxt is the same
\* as long as data are still accepted.
Keeps(s, t) ==
    /\ t \in Tsk
    /\ t.rq = s.rq
    /\ t.ofo = s.ofo \/ t.ofo = << >>
    /\ t.state \in Before => s.state \in Before
    /\ t.state \in Receiving => s.state \in Receiving /\ t.rcv_nxt = s.rcv_nxt

\* Operations that receive no data compose.
LEMMA KeepsTransitive ==
    ASSUME NEW s, NEW t, NEW u, Keeps(s, t), Keeps(t, u)
    PROVE  Keeps(s, u)
BY DEF Keeps

\* Doing nothing receives no data.
LEMMA KeepsReflexive ==
    ASSUME NEW s \in Tsk
    PROVE  Keeps(s, s)
BY DEF Keeps

\* The types of the fields, one by one.
LEMMA Fields ==
    ASSUME NEW s \in Tsk
    PROVE  /\ s.state \in TcpStates
           /\ s.snd_una \in Nat /\ s.snd_nxt \in Nat /\ s.rcv_nxt \in Nat
           /\ s.inflight \in Nat /\ s.backoff \in Nat /\ s.rto \in Nat
           /\ s.delacks \in Nat
           /\ s.wq \in Seq(WriteSkb) /\ s.rq \in Seq(ReadSkb)
           /\ s.ofo \in Seq(ReadSkb)
           /\ s.poll \in SUBSET PollEvents
           /\ s.thread \in [TimerKinds -> Nat] /\ s.armed \in [TimerKinds -> Nat]
           /\ s.fin \in BOOLEAN /\ s.psh \in BOOLEAN
           /\ s.sleep \in WaitStates /\ s.recv_wait \in WaitStates
BY DEF Tsk

----------------------------------------------------------------------------
(* Leading(n, S): the longest prefix of 1..n within S. *)

\* The least-number principle.
LEMMA NatMin ==
    ASSUME NEW T, T \subseteq Nat, T # {}
    PROVE \E x \in T : \A y \in T : x <= y
<1> DEFINE R == {ss \in Nat \X Nat : ss[1] < ss[2]}
<1>1. IsWellFoundedOn(R, Nat)
  BY NatLessThanWellFounded DEF OpToRel
<1> HIDE DEF R
<1>2. PICK x \in T : \A y \in T : ~ (<<y, x>> \in R)
  BY <1>1, WFMin
<1>3. \A y \in T : ~ (y < x)
  BY <1>2 DEF R
<1> QED
  BY <1>3

\* Leading finds such a prefix: everything in it is in S and it ends at n or
\* before the first index outside S.
LEMMA LeadingSpec ==
    ASSUME NEW n \in Nat, NEW S
    PROVE  /\ Leading(n, S) \in 0..n
           /\ 1..Leading(n, S) \subseteq S
           /\ Leading(n, S) = n \/ Leading(n, S) + 1 \notin S
<1> DEFINE T == {k \in 0..n : k = n \/ k + 1 \notin S}
<1>1. T \subseteq Nat /\ n \in T
  OBVIOUS
<1>2. PICK k \in T : \A y \in T : k <= y
  BY <1>1, NatMin
<1>3. \A j \in 1..k : j \in S
  <2> SUFFICES ASSUME NEW j \in 1..k, j \notin S PROVE FALSE
    OBVIOUS
  <2>1. j - 1 \in T
    OBVIOUS
  <2> QED
    BY <2>1, <1>2
<1>4. \E m \in 0..n : 1..m \subseteq S /\ (m = n \/ m + 1 \notin S)
  BY <1>2, <1>3
<1> QED
  BY <1>4 DEF Leading

----------------------------------------------------------------------------
(* Timers and the end of the connection *)

\* What timer_add returns, and the null pointer, are values of a timer slot.
LEMMA SlotTyping ==
    /\ NoTimer \in TimerSlot
    /\ \A k \in TimerKinds : timer_add(k) \in TimerSlot
BY DEF NoTimer, TimerSlot, timer_add, TimerKinds

\* timer_release keeps the counts of timers that run on without a pointer.
LEMMA ReleaseTyping ==
    ASSUME NEW s \in Tsk, NEW slot \in TimerSlot
    PROVE  timer_release(s.armed, slot) \in [TimerKinds -> Nat]
<1>1. s.armed \in [TimerKinds -> Nat]
  BY DEF Tsk
<1>2. slot.kind \in TimerKinds \cup {"none"}
  BY DEF TimerSlot
<1> QED
  BY <1>1, <1>2 DEF timer_release

\* Arming, releasing and cancelling the socket's timers receives no data.
LEMMA TimersKeep ==
    ASSUME NEW s \in Tsk
    PROVE  /\ Keeps(s, tcp_release_rto_timer(s))
           /\ Keeps(s, tcp_release_delack_timer(s))
           /\ Keeps(s, tcp_stop_rto_timer(s))
           /\ Keeps(s, tcp_stop_delack_timer(s))
           /\ Keeps(s, tcp_clear_timers(s))
           /\ tcp_clear_timers(s).state = s.state
           /\ Keeps(s, tcp_rearm_user_timeout(s))
<1>1. /\ timer_release(s.armed, s.retransmit) \in [TimerKinds -> Nat]
      /\ timer_release(s.armed, s.delack) \in [TimerKinds -> Nat]
  BY ReleaseTyping DEF Tsk
<1>2. Keeps(s, tcp_release_rto_timer(s))
  BY <1>1, SlotTyping DEF tcp_release_rto_timer, Tsk, Keeps
<1>3. Keeps(s, tcp_release_delack_timer(s))
  BY <1>1, SlotTyping DEF tcp_release_delack_timer, Tsk, Keeps
<1>4. Keeps(s, tcp_stop_rto_timer(s)) /\ Keeps(s, tcp_stop_delack_timer(s))
  BY SlotTyping DEF tcp_stop_rto_timer, tcp_stop_delack_timer, Tsk, Keeps
<1>5. Keeps(s, tcp_clear_timers(s)) /\ tcp_clear_timers(s).state = s.state
  BY SlotTyping DEF tcp_clear_timers, Tsk, Keeps
<1>6. Keeps(s, tcp_rearm_user_timeout(s))
  BY SlotTyping DEF tcp_rearm_user_timeout, Tsk, TimerKinds, Keeps
<1> QED
  BY <1>2, <1>3, <1>4, <1>5, <1>6

\* Rearming the retransmission timer receives no data.
LEMMA RearmRtoKeeps ==
    ASSUME NEW s \in Tsk
    PROVE  Keeps(s, tcp_rearm_rto_timer(s))
<1> DEFINE a == tcp_release_rto_timer(s)
           k == IF s.state = "SYN_SENT" THEN "conn" ELSE "rto"
           b == [a EXCEPT !.retransmit = timer_add(k)]
<1>1. Keeps(s, a) /\ a \in Tsk
  BY TimersKeep DEF Keeps
<1>2. timer_add(k) \in TimerSlot
  BY SlotTyping DEF TimerKinds
<1>3. tcp_rearm_rto_timer(s) = b
  BY DEF tcp_rearm_rto_timer
<1> HIDE DEF a, k
<1>4. Keeps(a, b)
  BY <1>1, <1>2 DEF Keeps, Tsk
<1> HIDE DEF b
<1> QED
  BY <1>1, <1>3, <1>4, KeepsTransitive

\* Entering TIME_WAIT receives no data.
LEMMA TimeWaitKeeps ==
    ASSUME NEW s \in Tsk
    PROVE  Keeps(s, tcp_enter_time_wait(s))
<1> DEFINE a == tcp_clear_timers(s)
           b == [a EXCEPT !.state = "TIME_WAIT", !.linger = timer_add("2msl")]
<1>1. Keeps(s, a) /\ a \in Tsk
  BY TimersKeep DEF Keeps
<1>2. timer_add("2msl") \in TimerSlot /\ "TIME_WAIT" \in TcpStates
  BY SlotTyping DEF TimerKinds, TcpStates
<1>3. tcp_enter_time_wait(s) = b
  BY DEF tcp_enter_time_wait
<1> HIDE DEF a
<1>4. Keeps(a, b)
  BY <1>1, <1>2 DEF Keeps, Tsk, Before, Receiving, TextStates
<1> HIDE DEF b
<1> QED
  BY <1>1, <1>3, <1>4, KeepsTransitive

\* Waking the threads that sleep on the socket receives no data.
LEMMA WakingKeeps ==
    ASSUME NEW s \in Tsk
    PROVE  /\ Keeps(s, tcp_recv_notify(s))
           /\ Keeps(s, tcp_notify_user(s))
           /\ Keeps(s, sock_connected(s))
           /\ Keeps(s, tcp_handle_fin_state(s))
<1>1. wait_wakeup(s.recv_wait) \in WaitStates /\ wait_wakeup(s.sleep) \in WaitStates
  BY DEF wait_wakeup, WaitStates, Tsk
<1>2. Keeps(s, tcp_recv_notify(s)) /\ Keeps(s, tcp_notify_user(s))
  BY <1>1 DEF tcp_recv_notify, tcp_notify_user, Keeps, Tsk
<1>3. Keeps(s, sock_connected(s))
  BY <1>1 DEF sock_connected, Keeps, Tsk, SocketStates, Errors, PollEvents
<1>4. Keeps(s, tcp_handle_fin_state(s))
  BY DEF tcp_handle_fin_state, Keeps, Tsk, TcpStates, Before, Receiving, TextStates
<1> QED
  BY <1>2, <1>3, <1>4

\* Ending the connection (tcp_done, tcp_free, socket_delete) receives no data.
LEMMA DoneKeeps ==
    ASSUME NEW s \in Tsk
    PROVE  Keeps(s, tcp_done(s)) /\ tcp_done(s) \in Tsk
<1> DEFINE a == [s EXCEPT !.state = "CLOSING"]
           b == tcp_clear_timers(a)
           c == [b EXCEPT !.ofo = << >>, !.sleep = wait_wakeup(b.sleep)]
           d == socket_delete(c)
<1>1. Keeps(s, a) /\ a \in Tsk
  BY DEF Keeps, Tsk, TcpStates, Before, Receiving, TextStates
<1>2. Keeps(a, b) /\ b \in Tsk
  BY <1>1, TimersKeep DEF Keeps
<1>3. tcp_done(s) = d
  BY DEF tcp_done, tcp_free
<1> HIDE DEF a, b
<1>4. Keeps(b, c) /\ c \in Tsk
  <2>1. wait_wakeup(b.sleep) \in WaitStates
    BY <1>2 DEF wait_wakeup, WaitStates, Tsk
  <2>2. << >> \in Seq(ReadSkb)
    OBVIOUS
  <2> QED
    BY <1>2, <2>1, <2>2 DEF Keeps, Tsk
<1> HIDE DEF c
<1>5. Keeps(c, d)
  <2> DEFINE m == [c.armed EXCEPT !["gc"] = @ + 1]
             e == [c EXCEPT !.ss = "DISCONNECTING", !.armed = m]
  <2>1. m \in [TimerKinds -> Nat]
    <3>1. c.armed \in [TimerKinds -> Nat] /\ "gc" \in TimerKinds
      BY <1>4 DEF Tsk, TimerKinds
    <3> QED
      BY <3>1
  <2>2. d = IF c.ss = "DISCONNECTING" THEN c ELSE e
    BY DEF socket_delete
  <2> HIDE DEF m, d
  <2>3. Keeps(c, e)
    BY <1>4, <2>1 DEF Keeps, Tsk, SocketStates
  <2> QED
    BY <1>4, <2>2, <2>3, KeepsReflexive
<1> HIDE DEF d
<1> QED
  BY <1>1, <1>2, <1>3, <1>4, <1>5, KeepsTransitive DEF Keeps

----------------------------------------------------------------------------
(* tcp_output.c *)

\* Handing a segment to the network receives no data.
LEMMA TransmitKeeps ==
    ASSUME NEW s \in Tsk, NEW skb \in WriteSkb, NEW seq \in Nat
    PROVE  /\ Keeps(s, tcp_transmit_skb(s, skb, seq))
           /\ tcp_transmit_skb(s, skb, seq) \in Tsk
           /\ tcp_transmit_skb(s, skb, seq).wq = s.wq
<1> DEFINE g == [seq |-> seq, dlen |-> skb.dlen, data |-> skb.data,
                 syn |-> skb.syn, fin |-> skb.fin, rst |-> FALSE,
                 ack |-> ~skb.syn]
           w == s.wire \cup {g}
           n == IF skb.syn THEN s.acked ELSE s.rcv_nxt
           t == [s EXCEPT !.wire = w, !.acked = n]
<1>1. g \in Segment
  BY DEF Segment, WriteSkb
<1>2. w \in SUBSET Segment
  <2>1. s.wire \in SUBSET Segment
    BY DEF Tsk
  <2> QED
    BY <1>1, <2>1
<1>3. n \in Nat
  BY DEF Tsk
<1>4. tcp_transmit_skb(s, skb, seq) = t
  BY DEF tcp_transmit_skb
<1> HIDE DEF w, n
<1>5. Keeps(s, t) /\ t \in Tsk /\ t.wq = s.wq
  BY <1>2, <1>3 DEF Keeps, Tsk
<1> QED
  BY <1>4, <1>5

\* A queued segment that is given its sequence number is still one.
LEMMA NumberedTyping ==
    ASSUME NEW skb \in WriteSkb, NEW seq \in Nat
    PROVE  Numbered(skb, seq) \in WriteSkb /\ SeqAfter(skb, seq) \in Nat
<1> DEFINE e == seq + skb.dlen
<1>1. e \in Nat
  BY DEF WriteSkb
<1> HIDE DEF e
<1>2. [skb EXCEPT !.seq = seq, !.end_seq = e] \in WriteSkb
  BY <1>1 DEF WriteSkb
<1> QED
  BY <1>1, <1>2 DEF e, Numbered, SeqAfter

\* Queueing a segment for transmission receives no data.
LEMMA QueueTransmitKeeps ==
    ASSUME NEW s \in Tsk, NEW skb \in WriteSkb
    PROVE  /\ Keeps(s, tcp_queue_transmit_skb(s, skb))
           /\ tcp_queue_transmit_skb(s, skb) \in Tsk
<1> DEFINE a == IF s.wq = << >> THEN tcp_rearm_rto_timer(s) ELSE s
           b == tcp_transmit_skb(a, skb, a.snd_nxt)
           k == b.inflight + 1
           n == SeqAfter(skb, a.snd_nxt)
           w == Append(b.wq, Numbered(skb, a.snd_nxt))
           v == Append(a.wq, skb)
<1>1. Keeps(s, a) /\ a \in Tsk
  BY RearmRtoKeeps, KeepsReflexive DEF Keeps
<1>2. tcp_queue_transmit_skb(s, skb) =
        IF a.inflight = 0
        THEN [b EXCEPT !.inflight = k, !.snd_nxt = n, !.wq = w]
        ELSE [a EXCEPT !.wq = v]
  BY DEF tcp_queue_transmit_skb
<1> HIDE DEF a
<1>3. a.snd_nxt \in Nat /\ a.wq \in Seq(WriteSkb)
  BY <1>1 DEF Tsk
<1>4. Keeps(a, b) /\ b \in Tsk
  BY <1>1, <1>3, TransmitKeeps
<1> HIDE DEF b
<1>5. k \in Nat /\ n \in Nat /\ w \in Seq(WriteSkb) /\ v \in Seq(WriteSkb)
  <2>1. b.wq \in Seq(WriteSkb) /\ b.inflight \in Nat
    BY <1>4 DEF Tsk
  <2>2. Numbered(skb, a.snd_nxt) \in WriteSkb /\ n \in Nat
    BY <1>3, NumberedTyping
  <2> HIDE DEF n
  <2> QED
    BY <1>3, <2>1, <2>2
<1> HIDE DEF k, n, w, v
<1>6. Keeps(b, [b EXCEPT !.inflight = k, !.snd_nxt = n, !.wq = w])
  BY <1>4, <1>5 DEF Keeps, Tsk
<1>7. Keeps(a, [a EXCEPT !.wq = v])
  BY <1>1, <1>5 DEF Keeps, Tsk
<1>8. Keeps(s, tcp_queue_transmit_skb(s, skb))
  BY <1>1, <1>2, <1>4, <1>6, <1>7, KeepsTransitive
<1> QED
  BY <1>8 DEF Keeps

\* Sending queued segments receives no data.
LEMMA SendQueuedKeeps ==
    ASSUME NEW s \in Tsk, NEW i \in 1..Len(s.wq)
    PROVE  /\ Keeps(s, SendQueued(s, i))
           /\ SendQueued(s, i) \in Tsk
           /\ Len(SendQueued(s, i).wq) = Len(s.wq)
<1> DEFINE skb == s.wq[i]
           a == tcp_transmit_skb(s, skb, s.snd_nxt)
           n == SeqAfter(skb, s.snd_nxt)
           w == [a.wq EXCEPT ![i] = Numbered(skb, s.snd_nxt)]
           t == [a EXCEPT !.snd_nxt = n, !.wq = w]
<1>1. s.wq \in Seq(WriteSkb) /\ s.snd_nxt \in Nat
  BY DEF Tsk
<1>2. skb \in WriteSkb
  BY <1>1
<1>3. SendQueued(s, i) = t
  BY DEF SendQueued
<1> HIDE DEF skb
<1>4. Keeps(s, a) /\ a \in Tsk /\ a.wq = s.wq
  BY <1>1, <1>2, TransmitKeeps
<1> HIDE DEF a
<1>5. n \in Nat /\ w \in Seq(WriteSkb) /\ Len(w) = Len(s.wq)
  <2>1. Numbered(skb, s.snd_nxt) \in WriteSkb
    BY <1>1, <1>2, NumberedTyping
  <2>2. n \in Nat
    BY <1>1, <1>2, NumberedTyping
  <2> HIDE DEF n
  <2> QED
    BY <1>1, <1>4, <2>1, <2>2
<1> HIDE DEF n, w
<1>6. Keeps(a, t) /\ t \in Tsk /\ t.wq = w
  BY <1>4, <1>5 DEF Keeps, Tsk
<1> HIDE DEF t
<1> QED
  BY <1>3, <1>4, <1>5, <1>6, KeepsTransitive

\* Sending what the window allows receives no data.
LEMMA SendNextKeeps ==
    ASSUME NEW s \in Tsk, NEW amount \in 1..3, amount <= Len(s.wq)
    PROVE  Keeps(s, tcp_send_next(s, amount))
<1> DEFINE a == SendQueued(s, 1)
           b == IF amount >= 2 THEN SendQueued(a, 2) ELSE a
           c == IF amount >= 3 THEN SendQueued(b, 3) ELSE b
<1>0. s.wq \in Seq(WriteSkb) /\ Len(s.wq) \in Nat
  BY DEF Tsk
<1>1. Keeps(s, a) /\ a \in Tsk /\ Len(a.wq) = Len(s.wq)
  BY <1>0, SendQueuedKeeps
<1>2. tcp_send_next(s, amount) = c
  BY DEF tcp_send_next
<1> HIDE DEF a
<1>3. Keeps(a, b) /\ b \in Tsk /\ Len(b.wq) = Len(s.wq)
  BY <1>0, <1>1, SendQueuedKeeps, KeepsReflexive
<1> HIDE DEF b
<1>4. Keeps(b, c)
  BY <1>0, <1>3, SendQueuedKeeps, KeepsReflexive
<1> HIDE DEF c
<1> QED
  BY <1>1, <1>2, <1>3, <1>4, KeepsTransitive

\* Sending an acknowledgment receives no data.
LEMMA SendAckKeeps ==
    ASSUME NEW s \in Tsk
    PROVE  Keeps(s, tcp_send_ack(s)) /\ tcp_send_ack(s).state = s.state
BY DEF tcp_send_ack, Keeps, Tsk

\* Segments without data, sent outside the write queue.
LEMMA ControlTyping ==
    ASSUME NEW seq \in Nat, NEW syn \in BOOLEAN, NEW rst \in BOOLEAN,
           NEW ack \in BOOLEAN
    PROVE  [seq |-> seq, dlen |-> 0, data |-> 0, syn |-> syn, fin |-> FALSE,
            rst |-> rst, ack |-> ack] \in Segment
BY DEF Segment

\* Answering a SYN receives no data.
LEMMA SynackKeeps ==
    ASSUME NEW s \in Tsk
    PROVE  Keeps(s, tcp_send_synack(s))
<1> DEFINE g == [seq |-> s.snd_nxt, dlen |-> 0, data |-> 0, syn |-> TRUE,
                 fin |-> FALSE, rst |-> FALSE, ack |-> TRUE]
           w == s.wire \cup {g}
           t == [s EXCEPT !.wire = w, !.acked = s.rcv_nxt]
<1>1. s.snd_nxt \in Nat /\ s.rcv_nxt \in Nat /\ s.wire \in SUBSET Segment
  BY DEF Tsk
<1>2. w \in SUBSET Segment
  BY <1>1, ControlTyping
<1>3. tcp_send_synack(s) = s \/ tcp_send_synack(s) = t
  BY DEF tcp_send_synack
<1> HIDE DEF w
<1>4. Keeps(s, t)
  BY <1>1, <1>2 DEF Keeps, Tsk
<1> HIDE DEF t
<1> QED
  BY <1>3, <1>4, KeepsReflexive

\* Sending a reset receives no data.
LEMMA ResetKeeps ==
    ASSUME NEW s \in Tsk
    PROVE  Keeps(s, tcp_send_reset(s)) /\ tcp_send_reset(s) \in Tsk
<1> DEFINE g == [seq |-> s.snd_nxt, dlen |-> 0, data |-> 0, syn |-> FALSE,
                 fin |-> FALSE, rst |-> TRUE, ack |-> FALSE]
           w == s.wire \cup {g}
           t == [s EXCEPT !.snd_una = s.snd_nxt, !.wire = w]
<1>1. s.snd_nxt \in Nat /\ s.wire \in SUBSET Segment
  BY DEF Tsk
<1>2. w \in SUBSET Segment
  BY <1>1, ControlTyping
<1>3. tcp_send_reset(s) = t
  BY DEF tcp_send_reset
<1> HIDE DEF w
<1>4. Keeps(s, t)
  BY <1>1, <1>2 DEF Keeps, Tsk
<1> QED
  BY <1>3, <1>4 DEF Keeps

\* Aborting a connection receives no data.
LEMMA AbortKeeps ==
    ASSUME NEW s \in Tsk
    PROVE  Keeps(s, tcp_abort(s))
BY ResetKeeps, DoneKeeps, KeepsTransitive DEF tcp_abort

\* Queueing a FIN receives no data.
LEMMA QueueFinKeeps ==
    ASSUME NEW s \in Tsk
    PROVE  Keeps(s, tcp_queue_fin(s)) /\ tcp_queue_fin(s) \in Tsk
<1>1. [seq |-> 0, end_seq |-> 0, dlen |-> 0, data |-> 0, syn |-> FALSE,
       fin |-> TRUE] \in WriteSkb
  BY DEF WriteSkb
<1> QED
  BY <1>1, QueueTransmitKeeps DEF tcp_queue_fin

\* The delayed acknowledgment's handler receives no data.
LEMMA SendDelackKeeps ==
    ASSUME NEW s \in Tsk
    PROVE  Keeps(s, tcp_send_delack(s))
<1> DEFINE a == [s EXCEPT !.delacks = 0]
           b == tcp_release_delack_timer(a)
<1>1. Keeps(s, a) /\ a \in Tsk
  BY DEF Keeps, Tsk
<1> HIDE DEF a
<1>2. Keeps(a, b) /\ b \in Tsk
  BY <1>1, TimersKeep DEF Keeps
<1>3. tcp_send_delack(s) = tcp_send_ack(b)
  BY DEF tcp_send_delack, a
<1> HIDE DEF b
<1> QED
  BY <1>1, <1>2, <1>3, SendAckKeeps, KeepsTransitive

\* The number of buffers tcp_send cuts len bytes into, and the bytes left for
\* each of them.
LEMMA Cutting ==
    ASSUME NEW len \in Nat \ {0}
    PROVE  /\ (len + SMSS - 1) \div SMSS \in Nat \ {0}
           /\ \A i \in 0..((len + SMSS - 1) \div SMSS) - 1 : i * SMSS \in Nat /\ i * SMSS < len
<1> DEFINE n == (len + SMSS - 1) \div SMSS
<1>1. SMSS \in Nat \ {0}
  BY TcpConstants
<1>2. /\ n \in Int /\ n * SMSS <= len + SMSS - 1
      /\ len + SMSS - 1 < n * SMSS + SMSS
  BY <1>1
<1> HIDE DEF n
<1>3. n > 0
  BY <1>1, <1>2
<1>4. ASSUME NEW i \in 0..n-1 PROVE i * SMSS \in Nat /\ i * SMSS < len
  <2>1. i * SMSS <= (n - 1) * SMSS
    BY <1>1, <1>2, <1>3
  <2> QED
    BY <1>1, <1>2, <1>3, <2>1
<1> QED
  BY <1>2, <1>3, <1>4 DEF n

\* tcp_send cuts the bytes into segments and receives no data.
LEMMA SendKeeps ==
    ASSUME NEW s \in Tsk, NEW pos \in Nat, NEW len \in Nat \ {0}
    PROVE  Keeps(s, tcp_send(s, pos, len))
<1> DEFINE n == (len + SMSS - 1) \div SMSS
           Skb(i) == [seq |-> 0, end_seq |-> 0,
                      dlen |-> MinOf(SMSS, len - (i - 1) * SMSS),
                      data |-> pos + (i - 1) * SMSS,
                      syn |-> FALSE, fin |-> FALSE]
           first == tcp_queue_transmit_skb(s, Skb(1))
           w == first.wq \o [i \in 1..(n - 1) |-> Skb(i + 1)]
           b == [first EXCEPT !.wq = w]
<1>1. n \in Nat \ {0} /\ \A i \in 0..n-1 : i * SMSS \in Nat /\ i * SMSS < len
  BY Cutting
<1>2. tcp_send(s, pos, len) = tcp_rearm_user_timeout(b)
  BY DEF tcp_send
<1> HIDE DEF n
<1>3. \A i \in 1..n : Skb(i) \in WriteSkb
  <2> SUFFICES ASSUME NEW i \in 1..n PROVE Skb(i) \in WriteSkb
    OBVIOUS
  <2> DEFINE m == (i - 1) * SMSS
             d == MinOf(SMSS, len - m)
  <2>1. m \in Nat /\ m < len
    BY <1>1
  <2> HIDE DEF m
  <2>2. d \in Nat /\ pos + m \in Nat
    BY <2>1, TcpConstants DEF MinOf
  <2>3. Skb(i) = [seq |-> 0, end_seq |-> 0, dlen |-> d, data |-> pos + m,
                  syn |-> FALSE, fin |-> FALSE]
    BY DEF m
  <2> HIDE DEF d, Skb
  <2> QED
    BY <2>2, <2>3 DEF WriteSkb
<1> HIDE DEF Skb
<1>4. Keeps(s, first) /\ first \in Tsk
  BY <1>1, <1>3, QueueTransmitKeeps
<1> HIDE DEF first
<1>5. w \in Seq(WriteSkb)
  <2>1. first.wq \in Seq(WriteSkb)
    BY <1>4 DEF Tsk
  <2>2. [i \in 1..(n - 1) |-> Skb(i + 1)] \in Seq(WriteSkb)
    <3>1. n - 1 \in Nat /\ \A i \in 1..(n - 1) : Skb(i + 1) \in WriteSkb
      BY <1>1, <1>3
    <3> QED
      BY <3>1
  <2> QED
    BY <2>1, <2>2
<1> HIDE DEF w
<1>6. Keeps(first, b) /\ b \in Tsk
  BY <1>4, <1>5 DEF Keeps, Tsk
<1> HIDE DEF b
<1> QED
  BY <1>2, <1>4, <1>6, TimersKeep, KeepsTransitive

\* tcp_connect starts with nothing received.
LEMMA ConnectKeeps ==
    ASSUME NEW s \in Tsk, s.state = "CLOSE"
    PROVE  Keeps(s, tcp_connect(s)) /\ tcp_connect(s) \in Tsk
<1> DEFINE a == [s EXCEPT !.snd_una = ISS, !.snd_nxt = ISS, !.rcv_nxt = 0,
                          !.state = "SYN_SENT"]
           skb == [seq |-> 0, end_seq |-> 0, dlen |-> 0, data |-> 0,
                   syn |-> TRUE, fin |-> FALSE]
           b == tcp_queue_transmit_skb(a, skb)
           n == b.snd_nxt + 1
           c == [b EXCEPT !.snd_nxt = n]
<1>1. Keeps(s, a) /\ a \in Tsk
  BY TcpConstants DEF Keeps, Tsk, TcpStates, Before, Receiving, TextStates
<1>2. skb \in WriteSkb
  BY DEF WriteSkb
<1>3. tcp_connect(s) = c
  BY DEF tcp_connect
<1> HIDE DEF a, skb
<1>4. Keeps(a, b) /\ b \in Tsk
  BY <1>1, <1>2, QueueTransmitKeeps
<1> HIDE DEF b
<1>5. n \in Nat
  BY <1>4, Fields
<1> HIDE DEF n
<1>6. Keeps(b, c) /\ c \in Tsk
  BY <1>4, <1>5 DEF Keeps, Tsk
<1> HIDE DEF c
<1> QED
  BY <1>1, <1>3, <1>4, <1>6, KeepsTransitive

\* The retransmission of a SYN, or giving up on it, receives no data.
LEMMA ConnectRtoKeeps ==
    ASSUME NEW s \in Tsk
    PROVE  Keeps(s, tcp_connect_rto(s))
<1> DEFINE a == tcp_release_rto_timer(s)
           p == a.poll \cup {"OUT", "ERR", "HUP"}
           b == [a EXCEPT !.err = "ETIMEDOUT", !.poll = p]
           c == tcp_transmit_skb(a, Head(a.wq), a.snd_una)
           k == c.backoff + 1
           d == [c EXCEPT !.backoff = k]
<1>1. Keeps(s, a) /\ a \in Tsk
  BY TimersKeep DEF Keeps
<1>2. tcp_connect_rto(s) =
        IF a.state # "SYN_SENT" THEN a
        ELSE IF a.backoff > TCP_CONN_RETRIES THEN tcp_done(b)
        ELSE IF a.wq = << >> THEN a
        ELSE tcp_rearm_rto_timer(d)
  BY DEF tcp_connect_rto
<1> HIDE DEF a
<1>3. Keeps(a, b) /\ b \in Tsk
  <2>1. p \in SUBSET PollEvents
    BY <1>1 DEF Tsk, PollEvents
  <2> HIDE DEF p
  <2> QED
    BY <1>1, <2>1 DEF Keeps, Tsk, Errors
<1> HIDE DEF b
<1>4. ASSUME a.wq # << >> PROVE Keeps(a, d) /\ d \in Tsk
  <2>1. Head(a.wq) \in WriteSkb /\ a.snd_una \in Nat
    <3>1. a.wq \in Seq(WriteSkb) /\ a.snd_una \in Nat
      BY <1>1 DEF Tsk
    <3> QED
      BY <1>4, <3>1
  <2>2. Keeps(a, c) /\ c \in Tsk
    BY <1>1, <2>1, TransmitKeeps
  <2> HIDE DEF c
  <2>3. k \in Nat
    BY <2>2, Fields
  <2> HIDE DEF k
  <2>4. Keeps(c, d) /\ d \in Tsk
    BY <2>2, <2>3 DEF Keeps, Tsk
  <2> HIDE DEF d
  <2> QED
    BY <2>2, <2>4, KeepsTransitive
<1> HIDE DEF d
<1> QED
  BY <1>1, <1>2, <1>3, <1>4, DoneKeeps, RearmRtoKeeps, KeepsTransitive

\* The retransmission handler receives no data.
LEMMA RetransmissionKeeps ==
    ASSUME NEW s \in Tsk
    PROVE  Keeps(s, tcp_retransmission_timeout(s))
<1> DEFINE a == tcp_release_rto_timer(s)
           b == [a EXCEPT !.backoff = 0]
           c == tcp_transmit_skb(a, Head(a.wq), a.snd_una)
           d == tcp_done(c)
           e == [d EXCEPT !.err = "ETIMEDOUT", !.poll = d.poll \cup {"OUT", "ERR", "HUP"}]
           f == [c EXCEPT !.rto = 2 * c.rto, !.backoff = c.backoff + 1,
                          !.retransmit = timer_add("rto")]
<1>1. Keeps(s, a) /\ a \in Tsk
  BY TimersKeep DEF Keeps
<1>2. tcp_retransmission_timeout(s) =
        IF a.wq = << >> THEN tcp_notify_user(b)
        ELSE IF a.rto > RTO_MAX THEN e
        ELSE IF Head(a.wq).fin THEN tcp_handle_fin_state(f)
        ELSE f
  BY DEF tcp_retransmission_timeout
<1> HIDE DEF a
<1>3. Keeps(a, b) /\ b \in Tsk
  BY <1>1 DEF Keeps, Tsk
<1> HIDE DEF b
<1>4. ASSUME a.wq # << >> PROVE Keeps(a, e) /\ Keeps(a, f) /\ f \in Tsk
  <2>1. Head(a.wq) \in WriteSkb /\ a.snd_una \in Nat
    <3>1. a.wq \in Seq(WriteSkb) /\ a.snd_una \in Nat
      BY <1>1 DEF Tsk
    <3> QED
      BY <1>4, <3>1
  <2>2. Keeps(a, c) /\ c \in Tsk
    BY <1>1, <2>1, TransmitKeeps
  <2> HIDE DEF c
  <2>3. Keeps(c, d) /\ d \in Tsk
    BY <2>2, DoneKeeps
  <2> HIDE DEF d
  <2>4. Keeps(d, e)
    <3> DEFINE p == d.poll \cup {"OUT", "ERR", "HUP"}
    <3>1. p \in SUBSET PollEvents
      BY <2>3 DEF Tsk, PollEvents
    <3> HIDE DEF p
    <3>2. Keeps(d, [d EXCEPT !.err = "ETIMEDOUT", !.poll = p])
      BY <2>3, <3>1 DEF Keeps, Tsk, Errors
    <3> QED
      BY <3>2 DEF p
  <2>5. Keeps(c, f) /\ f \in Tsk
    <3> DEFINE r == 2 * c.rto
               k == c.backoff + 1
               q == timer_add("rto")
    <3>1. r \in Nat /\ k \in Nat
      BY <2>2, Fields
    <3>2. q \in TimerSlot
      BY SlotTyping DEF TimerKinds
    <3> HIDE DEF r, k, q
    <3>3. /\ Keeps(c, [c EXCEPT !.rto = r, !.backoff = k, !.retransmit = q])
          /\ [c EXCEPT !.rto = r, !.backoff = k, !.retransmit = q] \in Tsk
      BY <2>2, <3>1, <3>2 DEF Keeps, Tsk
    <3> QED
      BY <3>3 DEF r, k, q
  <2> HIDE DEF e, f
  <2> QED
    BY <2>2, <2>3, <2>4, <2>5, KeepsTransitive
<1> HIDE DEF e, f
<1> QED
  BY <1>1, <1>2, <1>3, <1>4, WakingKeeps, KeepsTransitive

----------------------------------------------------------------------------
(* tcp_data.c *)

\* tcp_data_insert_ordered adds at most the new buffer, wherever it puts it.
LEMMA InsertOrdered ==
    ASSUME NEW ofo \in Seq(ReadSkb), NEW skb \in ReadSkb
    PROVE  /\ tcp_data_insert_ordered(ofo, skb) \in Seq(ReadSkb)
           /\ \A j \in 1..Len(tcp_data_insert_ordered(ofo, skb)) :
                 \/ tcp_data_insert_ordered(ofo, skb)[j] = skb
                 \/ \E i \in 1..Len(ofo) :
                       tcp_data_insert_ordered(ofo, skb)[j] = ofo[i]
<1> DEFINE stops == {j \in 1..Len(ofo) :
                       \/ ofo[j].seq = skb.seq
                       \/ /\ skb.seq < ofo[j].seq
                          /\ skb.seq + skb.dlen <= ofo[j].seq}
           n == Leading(Len(ofo), 1..Len(ofo) \ stops)
           left == SubSeq(ofo, 1, n)
           right == SubSeq(ofo, n + 1, Len(ofo))
<1>1. n \in 0..Len(ofo)
  BY LeadingSpec
<1>2. tcp_data_insert_ordered(ofo, skb) =
        IF n = Len(ofo) THEN Append(ofo, skb)
        ELSE IF ofo[n + 1].seq = skb.seq THEN ofo
        ELSE left \o << skb >> \o right
  BY DEF tcp_data_insert_ordered
<1> HIDE DEF n
<1>3. /\ left \in Seq(ReadSkb) /\ Len(left) = n
      /\ right \in Seq(ReadSkb) /\ Len(right) = Len(ofo) - n
      /\ \A i \in 1..n : left[i] = ofo[i]
      /\ \A i \in 1..(Len(ofo) - n) : right[i] = ofo[n + i]
  <2>1. n \in Nat /\ Len(ofo) \in Nat /\ n <= Len(ofo)
    BY <1>1
  <2>2. \A i \in 1..n : i \in 1..Len(ofo)
    BY <2>1
  <2>3. \A i \in (n + 1)..Len(ofo) : i \in 1..Len(ofo)
    BY <2>1
  <2>4. left \in Seq(ReadSkb) /\ right \in Seq(ReadSkb)
    BY <2>1, <2>2, <2>3, SubSeqProperties
  <2> QED
    BY <2>1, <2>2, <2>3, <2>4, SubSeqProperties
<1> HIDE DEF left, right
<1>4. /\ left \o << skb >> \o right \in Seq(ReadSkb)
      /\ \A j \in 1..Len(left \o << skb >> \o right) :
            \/ (left \o << skb >> \o right)[j] = skb
            \/ \E i \in 1..Len(ofo) : (left \o << skb >> \o right)[j] = ofo[i]
  <2> DEFINE l == left \o << skb >>
  <2>1. /\ l \in Seq(ReadSkb) /\ Len(l) = n + 1 /\ l[n + 1] = skb
        /\ \A i \in 1..n : l[i] = ofo[i]
    BY <1>1, <1>3
  <2> HIDE DEF l
  <2>2. l \o right \in Seq(ReadSkb) /\ Len(l \o right) = Len(ofo) + 1
    BY <1>1, <1>3, <2>1
  <2>3. ASSUME NEW j \in 1..Len(l \o right)
        PROVE  (l \o right)[j] = skb \/ \E i \in 1..Len(ofo) : (l \o right)[j] = ofo[i]
    <3>1. CASE j <= n
      <4>1. (l \o right)[j] = ofo[j] /\ j \in 1..Len(ofo)
        BY <1>1, <1>3, <2>1, <3>1
      <4> QED
        BY <4>1
    <3>2. CASE j = n + 1
      BY <1>1, <1>3, <2>1, <3>2
    <3>3. CASE j > n + 1
      <4>1. (l \o right)[j] = right[j - (n + 1)] /\ j - (n + 1) \in 1..(Len(ofo) - n)
        BY <1>1, <1>3, <2>1, <2>2, <3>3
      <4>2. (l \o right)[j] = ofo[j - 1] /\ j - 1 \in 1..Len(ofo)
        BY <1>1, <1>3, <2>2, <4>1
      <4> QED
        BY <4>2
    <3> QED
      BY <1>1, <2>2, <3>1, <3>2, <3>3
  <2> QED
    BY <2>2, <2>3 DEF l
<1>5. /\ Append(ofo, skb) \in Seq(ReadSkb)
      /\ \A j \in 1..Len(Append(ofo, skb)) :
            \/ Append(ofo, skb)[j] = skb
            \/ \E i \in 1..Len(ofo) : Append(ofo, skb)[j] = ofo[i]
  BY AppendProperties
<1> QED
  BY <1>2, <1>4, <1>5

\* How many buffers tcp_consume_ofo_queue moves, and that each starts where
\* the one before it ends.
Consumed(s) ==
    Leading(Len(s.ofo), {j \in 1..Len(s.ofo) :
                           s.ofo[j].seq = IF j = 1 THEN s.rcv_nxt
                                          ELSE s.ofo[j-1].seq + s.ofo[j-1].dlen})

\* What tcp_consume_ofo_queue does to the receive side.
LEMMA ConsumeEffect ==
    ASSUME NEW s \in Tsk
    PROVE  /\ Consumed(s) \in 0..Len(s.ofo)
           /\ \A j \in 1..Consumed(s) :
                 s.ofo[j].seq = IF j = 1 THEN s.rcv_nxt
                                ELSE s.ofo[j-1].seq + s.ofo[j-1].dlen
           /\ tcp_consume_ofo_queue(s) \in Tsk
           /\ tcp_consume_ofo_queue(s).state = s.state
           /\ Consumed(s) = 0 => tcp_consume_ofo_queue(s) = s
           /\ Consumed(s) # 0 =>
                 /\ tcp_consume_ofo_queue(s).rcv_nxt =
                       s.ofo[Consumed(s)].seq + s.ofo[Consumed(s)].dlen
                 /\ tcp_consume_ofo_queue(s).rq = s.rq \o SubSeq(s.ofo, 1, Consumed(s))
                 /\ tcp_consume_ofo_queue(s).ofo =
                       SubSeq(s.ofo, Consumed(s) + 1, Len(s.ofo))
<1> DEFINE n == Consumed(s)
           r == s.ofo[n].seq + s.ofo[n].dlen
           q == s.rq \o SubSeq(s.ofo, 1, n)
           o == SubSeq(s.ofo, n + 1, Len(s.ofo))
           t == [s EXCEPT !.rcv_nxt = r, !.rq = q, !.ofo = o]
<1>1. s.ofo \in Seq(ReadSkb) /\ s.rq \in Seq(ReadSkb) /\ Len(s.ofo) \in Nat
  BY Fields
<1>2. /\ n \in 0..Len(s.ofo)
      /\ \A j \in 1..n :
            s.ofo[j].seq = IF j = 1 THEN s.rcv_nxt
                           ELSE s.ofo[j-1].seq + s.ofo[j-1].dlen
  BY <1>1, LeadingSpec DEF Consumed
<1>3. tcp_consume_ofo_queue(s) = IF n = 0 THEN s ELSE t
  BY DEF tcp_consume_ofo_queue, Consumed
<1> HIDE DEF n
<1>4. ASSUME n # 0
      PROVE  t \in Tsk /\ t.state = s.state /\ t.rcv_nxt = r /\ t.rq = q /\ t.ofo = o
  <2>1. s.ofo[n] \in ReadSkb
    BY <1>1, <1>2, <1>4
  <2>2. r \in Nat
    BY <2>1 DEF ReadSkb
  <2>3. SubSeq(s.ofo, 1, n) \in Seq(ReadSkb) /\ o \in Seq(ReadSkb)
    <3>1. \A i \in 1..n : i \in 1..Len(s.ofo)
      BY <1>1, <1>2
    <3>2. \A i \in (n + 1)..Len(s.ofo) : i \in 1..Len(s.ofo)
      BY <1>1, <1>2
    <3> QED
      BY <1>1, <1>2, <3>1, <3>2, SubSeqProperties
  <2>4. q \in Seq(ReadSkb)
    BY <1>1, <2>3
  <2> HIDE DEF r, q, o
  <2> QED
    BY <2>2, <2>3, <2>4 DEF Tsk
<1> HIDE DEF t
<1> QED
  BY <1>2, <1>3, <1>4 DEF n

\* The buffer tcp_data_queue makes of a segment.
Received(th) == [seq |-> th.seq, dlen |-> th.dlen, data |-> th.data, psh |-> th.psh]

\* An in-sequence segment joins the receive queue, then what it makes in-sequence
\* follows it; any other goes to the out-of-order queue.
LEMMA DataQueueEffect ==
    ASSUME NEW s \in Tsk, NEW th \in InSegment
    PROVE  /\ tcp_data_queue(s, th) \in Tsk
           /\ tcp_data_queue(s, th).state = s.state
           /\ th.seq = s.rcv_nxt =>
                 LET a == [s EXCEPT !.rcv_nxt = s.rcv_nxt + th.dlen,
                                    !.rq = Append(s.rq, Received(th))]
                 IN  /\ a \in Tsk
                     /\ tcp_data_queue(s, th).rq = tcp_consume_ofo_queue(a).rq
                     /\ tcp_data_queue(s, th).ofo = tcp_consume_ofo_queue(a).ofo
                     /\ tcp_data_queue(s, th).rcv_nxt = tcp_consume_ofo_queue(a).rcv_nxt
           /\ th.seq # s.rcv_nxt =>
                 /\ tcp_data_queue(s, th).rq = s.rq
                 /\ tcp_data_queue(s, th).rcv_nxt = s.rcv_nxt
                 /\ tcp_data_queue(s, th).ofo =
                       tcp_data_insert_ordered(s.ofo, Received(th))
<1> DEFINE skb == Received(th)
           m == s.rcv_nxt + th.dlen
           q == Append(s.rq, skb)
           a == [s EXCEPT !.rcv_nxt = m, !.rq = q]
           b == tcp_consume_ofo_queue(a)
           p == b.poll \cup {"IN"}
           c == [b EXCEPT !.poll = p]
           o == tcp_data_insert_ordered(s.ofo, skb)
           d == [s EXCEPT !.ofo = o]
<1>1. /\ s.rcv_nxt \in Nat /\ s.rq \in Seq(ReadSkb) /\ s.ofo \in Seq(ReadSkb)
      /\ th.dlen \in Nat
  BY Fields DEF InSegment
<1>2. skb \in ReadSkb
  BY DEF Received, ReadSkb, InSegment
<1>3. tcp_data_queue(s, th) =
        IF th.seq = s.rcv_nxt THEN tcp_recv_notify(c) ELSE tcp_send_ack(d)
  BY DEF tcp_data_queue, Received
<1> HIDE DEF skb
<1>4. m \in Nat /\ q \in Seq(ReadSkb) /\ o \in Seq(ReadSkb)
  BY <1>1, <1>2, InsertOrdered
<1> HIDE DEF m, q, o
<1>5. a \in Tsk /\ a.state = s.state
  BY <1>4 DEF Tsk
<1> HIDE DEF a
<1>6. b \in Tsk /\ b.state = s.state
  BY <1>5, ConsumeEffect
<1> HIDE DEF b
<1>7. /\ c \in Tsk /\ c.state = s.state /\ c.rq = b.rq /\ c.ofo = b.ofo
      /\ c.rcv_nxt = b.rcv_nxt
  <2>1. p \in SUBSET PollEvents
    BY <1>6, Fields DEF PollEvents
  <2> HIDE DEF p
  <2> QED
    BY <1>6, <2>1 DEF Tsk
<1> HIDE DEF c
<1>8. /\ tcp_recv_notify(c) \in Tsk /\ tcp_recv_notify(c).state = s.state
      /\ tcp_recv_notify(c).rq = b.rq /\ tcp_recv_notify(c).ofo = b.ofo
      /\ tcp_recv_notify(c).rcv_nxt = b.rcv_nxt
  <2>1. wait_wakeup(c.recv_wait) \in WaitStates
    BY <1>7, Fields DEF wait_wakeup, WaitStates
  <2> QED
    BY <1>7, <2>1 DEF tcp_recv_notify, Tsk
<1>9. d \in Tsk /\ d.state = s.state /\ d.rq = s.rq /\ d.ofo = o /\ d.rcv_nxt = s.rcv_nxt
  BY <1>4 DEF Tsk
<1> HIDE DEF d
<1>10. /\ tcp_send_ack(d) \in Tsk /\ tcp_send_ack(d).state = s.state
       /\ tcp_send_ack(d).rq = s.rq /\ tcp_send_ack(d).ofo = o
       /\ tcp_send_ack(d).rcv_nxt = s.rcv_nxt
  BY <1>9 DEF tcp_send_ack, Tsk
<1>11. CASE th.seq = s.rcv_nxt
  BY <1>3, <1>5, <1>8, <1>11 DEF a, b, m, q, skb
<1>12. CASE th.seq # s.rcv_nxt
  BY <1>3, <1>10, <1>12 DEF o, skb
<1> QED
  BY <1>11, <1>12

----------------------------------------------------------------------------
(* tcp_input.c *)

\* Removing acknowledged segments from the write queue receives no data.
LEMMA CleanKeeps ==
    ASSUME NEW s \in Tsk, NEW una \in Nat
    PROVE  /\ Keeps(s, tcp_clean_rto_queue(s, una))
           /\ tcp_clean_rto_queue(s, una) \in Tsk
           /\ tcp_clean_rto_queue(s, una).state = s.state
           /\ tcp_clean_rto_queue(s, una).rcv_nxt = s.rcv_nxt
<1> DEFINE n == Leading(Len(s.wq), {j \in 1..Len(s.wq) :
                           s.wq[j].seq > 0 /\ s.wq[j].end_seq <= una})
           w == SubSeq(s.wq, n + 1, Len(s.wq))
           k == IF s.inflight > n THEN s.inflight - n ELSE 0
           a == [s EXCEPT !.wq = w, !.inflight = k]
<1>1. s.wq \in Seq(WriteSkb) /\ Len(s.wq) \in Nat /\ s.inflight \in Nat
  BY Fields
<1>2. n \in 0..Len(s.wq)
  BY <1>1, LeadingSpec
<1>3. tcp_clean_rto_queue(s, una) =
        IF a.wq = << >> \/ a.inflight = 0 THEN tcp_stop_rto_timer(a) ELSE a
  BY DEF tcp_clean_rto_queue
<1> HIDE DEF n
<1>4. w \in Seq(WriteSkb) /\ k \in Nat
  <2>1. \A i \in (n + 1)..Len(s.wq) : s.wq[i] \in WriteSkb
    BY <1>1, <1>2
  <2>2. w \in Seq(WriteSkb)
    BY <1>1, <1>2, <2>1, SubSeqProperties
  <2>3. k \in Nat
    BY <1>1, <1>2
  <2> QED
    BY <2>2, <2>3
<1> HIDE DEF w, k
<1>5. Keeps(s, a) /\ a \in Tsk /\ a.state = s.state /\ a.rcv_nxt = s.rcv_nxt
  BY <1>4 DEF Keeps, Tsk
<1> HIDE DEF a
<1>6. /\ Keeps(a, tcp_stop_rto_timer(a))
      /\ tcp_stop_rto_timer(a).state = a.state
      /\ tcp_stop_rto_timer(a).rcv_nxt = a.rcv_nxt
  BY <1>5, TimersKeep DEF tcp_stop_rto_timer, Tsk
<1> QED
  BY <1>3, <1>5, <1>6, KeepsTransitive DEF Keeps

\* The handling of a received reset receives no data.
LEMMA ResetSocketKeeps ==
    ASSUME NEW s \in Tsk
    PROVE  Keeps(s, tcp_reset(s))
<1> DEFINE e == IF s.state = "SYN_SENT" THEN "ECONNREFUSED"
                ELSE IF s.state = "CLOSE_WAIT" THEN "EPIPE" ELSE "ECONNRESET"
           a == [s EXCEPT !.poll = {"OUT", "ERR", "HUP"}, !.err = e]
<1>1. e \in Errors /\ {"OUT", "ERR", "HUP"} \in SUBSET PollEvents
  BY DEF Errors, PollEvents
<1>2. tcp_reset(s) = tcp_done(a)
  BY DEF tcp_reset
<1> HIDE DEF e
<1>3. Keeps(s, a) /\ a \in Tsk
  BY <1>1 DEF Keeps, Tsk
<1> HIDE DEF a
<1> QED
  BY <1>2, <1>3, DoneKeeps, KeepsTransitive

\* A segment in SYN_SENT receives nothing, or starts the peer's stream at the
\* sequence number after its SYN.
LEMMA SynsentEffect ==
    ASSUME NEW s \in Tsk, NEW th \in InSegment
    PROVE  \/ Keeps(s, tcp_synsent(s, th))
           \/ /\ th.syn
              /\ Keeps([s EXCEPT !.rcv_nxt = th.seq + 1, !.state = "ESTABLISHED"],
                       tcp_synsent(s, th))
<1> DEFINE m == th.seq + 1
           a == [s EXCEPT !.rcv_nxt = m]
           a2 == [a EXCEPT !.snd_una = th.ack_seq]
           b == IF th.ack THEN tcp_clean_rto_queue(a2, th.ack_seq) ELSE a
           c == [b EXCEPT !.state = "ESTABLISHED", !.snd_una = b.snd_nxt,
                          !.backoff = 0, !.rto = RTO_INIT]
           d == sock_connected(tcp_rearm_user_timeout(tcp_send_ack(c)))
           e == [b EXCEPT !.state = "SYN_RECEIVED", !.snd_una = ISS]
           f == tcp_send_synack(e)
           z == [s EXCEPT !.rcv_nxt = m, !.state = "ESTABLISHED"]
<1>1. th.seq \in Nat /\ th.ack_seq \in Nat
  BY DEF InSegment
<1>2. \/ tcp_synsent(s, th) = s
      \/ tcp_synsent(s, th) = tcp_reset(s)
      \/ th.syn /\ tcp_synsent(s, th) = d
      \/ th.syn /\ tcp_synsent(s, th) = f
  BY DEF tcp_synsent
<1>3. m \in Nat
  BY <1>1
<1> HIDE DEF m
<1>4. /\ a \in Tsk /\ a.rcv_nxt = m /\ a.rq = s.rq /\ a.ofo = s.ofo
      /\ a2 \in Tsk /\ a2.rcv_nxt = m /\ a2.rq = s.rq /\ a2.ofo = s.ofo
      /\ z \in Tsk /\ z.rcv_nxt = m /\ z.rq = s.rq /\ z.ofo = s.ofo
      /\ z.state = "ESTABLISHED"
  BY <1>1, <1>3 DEF Tsk, TcpStates
<1> HIDE DEF a, a2, z
<1>5. b \in Tsk /\ b.rcv_nxt = m /\ b.rq = s.rq /\ (b.ofo = s.ofo \/ b.ofo = << >>)
  BY <1>1, <1>4, CleanKeeps DEF Keeps
<1> HIDE DEF b
<1> HIDE DEF m
<1>6. Keeps(z, c) /\ c \in Tsk
  <2> DEFINE u == b.snd_nxt
             r == RTO_INIT
  <2>1. u \in Nat /\ r \in Nat /\ "ESTABLISHED" \in TcpStates
    BY <1>5, Fields, TcpConstants DEF TcpStates
  <2>2. c = [b EXCEPT !.state = "ESTABLISHED", !.snd_una = u, !.backoff = 0, !.rto = r]
    OBVIOUS
  <2> HIDE DEF c, u, r
  <2>3. /\ c \in Tsk /\ c.state = "ESTABLISHED" /\ c.rq = b.rq /\ c.ofo = b.ofo
        /\ c.rcv_nxt = b.rcv_nxt
    BY <1>5, <2>1, <2>2 DEF Tsk
  <2> QED
    BY <1>4, <1>5, <2>3 DEF Keeps, Before, Receiving, TextStates
<1>7. Keeps(z, e) /\ e \in Tsk
  <2> DEFINE i == ISS
  <2>1. i \in Nat /\ "SYN_RECEIVED" \in TcpStates
    BY TcpConstants DEF TcpStates
  <2>2. e = [b EXCEPT !.state = "SYN_RECEIVED", !.snd_una = i]
    OBVIOUS
  <2> HIDE DEF e, i
  <2>3. /\ e \in Tsk /\ e.state = "SYN_RECEIVED" /\ e.rq = b.rq /\ e.ofo = b.ofo
        /\ e.rcv_nxt = b.rcv_nxt
    BY <1>5, <2>1, <2>2 DEF Tsk
  <2> QED
    BY <1>4, <1>5, <2>3 DEF Keeps, Before, Receiving, TextStates
<1> HIDE DEF c, e
<1>8. Keeps(c, d)
  <2> DEFINE c1 == tcp_send_ack(c)
             c2 == tcp_rearm_user_timeout(c1)
  <2>1. Keeps(c, c1) /\ c1 \in Tsk
    BY <1>6, SendAckKeeps DEF Keeps
  <2> HIDE DEF c1
  <2>2. Keeps(c1, c2) /\ c2 \in Tsk
    BY <2>1, TimersKeep DEF Keeps
  <2> HIDE DEF c2
  <2>3. Keeps(c2, sock_connected(c2))
    BY <2>2, WakingKeeps
  <2>4. d = sock_connected(c2)
    BY DEF c1, c2
  <2> QED
    BY <2>1, <2>2, <2>3, <2>4, KeepsTransitive
<1>9. Keeps(e, f)
  BY <1>7, SynackKeeps
<1> HIDE DEF d, f
<1>10. Keeps(s, s) /\ Keeps(s, tcp_reset(s)) /\ Keeps(z, d) /\ Keeps(z, f)
  BY <1>6, <1>7, <1>8, <1>9, KeepsReflexive, KeepsTransitive, ResetSocketKeeps
<1> QED
  BY <1>2, <1>10 DEF z, m

\* The states of a connection whose handshake is over.
Synchronized == TcpStates \ (Before \cup {"SYN_RECEIVED"})

\* A round-trip measurement touches the timeout only.
LEMMA RttKeeps ==
    ASSUME NEW s \in Tsk, NEW r \in Nat
    PROVE  Keeps(s, tcp_rtt(s, r)) /\ tcp_rtt(s, r).state = s.state
BY DEF tcp_rtt, Keeps, Tsk

\* An acknowledgment receives nothing and ends the handshake.
LEMMA ProcessAckKeeps ==
    ASSUME NEW s \in Tsk, NEW th \in InSegment, NEW r \in Nat
    PROVE  /\ Keeps(s, ProcessAck(s, th, r))
           /\ ProcessAck(s, th, r).state =
                 IF s.state = "SYN_RECEIVED" THEN "ESTABLISHED" ELSE s.state
<1> DEFINE a == IF s.state = "SYN_RECEIVED"
                THEN [s EXCEPT !.state = "ESTABLISHED"] ELSE s
           u == th.ack_seq
           b == [a EXCEPT !.snd_una = u]
           c == tcp_rtt(b, r)
           d == tcp_clean_rto_queue(c, u)
<1>1. u \in Nat
  BY DEF InSegment
<1>2. ProcessAck(s, th, r) = a \/ ProcessAck(s, th, r) = d
  BY DEF ProcessAck
<1> HIDE DEF u
<1>3. /\ Keeps(s, a) /\ a \in Tsk
      /\ a.state = IF s.state = "SYN_RECEIVED" THEN "ESTABLISHED" ELSE s.state
  BY DEF Keeps, Tsk, TcpStates, Before, Receiving, TextStates
<1> HIDE DEF a
<1>4. Keeps(a, b) /\ b \in Tsk /\ b.state = a.state
  BY <1>1, <1>3 DEF Keeps, Tsk
<1> HIDE DEF b
<1>5. Keeps(b, c) /\ c \in Tsk /\ c.state = b.state
  BY <1>4, RttKeeps DEF Keeps
<1> HIDE DEF c
<1>6. Keeps(c, d) /\ d.state = c.state
  BY <1>1, <1>5, CleanKeeps
<1> HIDE DEF d
<1> QED
  BY <1>2, <1>3, <1>4, <1>5, <1>6, KeepsTransitive

\* An empty write queue moves the closing handshake on.
LEMMA QueueEmptiedKeeps ==
    ASSUME NEW s \in Tsk, NEW th \in InSegment, s.state \in Synchronized
    PROVE  /\ Keeps(s, QueueEmptied(s, th))
           /\ QueueEmptied(s, th).state \in Synchronized
<1> DEFINE a == [s EXCEPT !.state = "FIN_WAIT_2"]
           b == [s EXCEPT !.state = "TIME_WAIT"]
           c == [s EXCEPT !.fin = TRUE]
<1>1. s.state = "FIN_WAIT_1" => Keeps(s, a) /\ a.state \in Synchronized
  BY DEF Keeps, Tsk, TcpStates, Before, Receiving, TextStates, Synchronized
<1>2. Keeps(s, b) /\ b.state \in Synchronized
  BY DEF Keeps, Tsk, TcpStates, Before, Receiving, TextStates, Synchronized
<1>3. Keeps(s, c) /\ c \in Tsk /\ c.state = s.state
  BY DEF Keeps, Tsk
<1> HIDE DEF c
<1>4. Keeps(s, tcp_send_ack(c)) /\ tcp_send_ack(c).state = s.state
  BY <1>3, SendAckKeeps, KeepsTransitive
<1>5. \/ QueueEmptied(s, th) = s
      \/ QueueEmptied(s, th) = a /\ s.state = "FIN_WAIT_1"
      \/ QueueEmptied(s, th) = b
      \/ QueueEmptied(s, th) = tcp_send_ack(c)
  BY DEF QueueEmptied, c
<1> HIDE DEF a, b
<1> QED
  BY <1>1, <1>2, <1>4, <1>5, KeepsReflexive

\* A FIN ends the peer's stream: whatever the state, none follows in which
\* data are accepted.
LEMMA ProcessFinKeeps ==
    ASSUME NEW s \in Tsk, NEW th \in InSegment, NEW expected \in BOOLEAN,
           s.state \in Synchronized
    PROVE  Keeps(s, ProcessFin(s, th, expected))
<1> DEFINE n == s.rcv_nxt + 1
           p == s.poll \cup {"IN"}
           a == [s EXCEPT !.rcv_nxt = n, !.fin = TRUE, !.poll = p]
           b == tcp_send_ack(a)
           c == tcp_recv_notify(b)
           d == tcp_enter_time_wait(c)
           cw == [c EXCEPT !.state = "CLOSE_WAIT"]
           cl == [c EXCEPT !.state = "CLOSING"]
<1>1. n \in Nat /\ p \in SUBSET PollEvents
  BY Fields DEF PollEvents
<1>2. \/ ProcessFin(s, th, expected) = s
      \/ ProcessFin(s, th, expected) = cw
      \/ ProcessFin(s, th, expected) = cl
      \/ ProcessFin(s, th, expected) = d
      \/ ProcessFin(s, th, expected) = c /\ s.state \notin TextStates
  BY DEF ProcessFin, TextStates
<1> HIDE DEF n, p
<1>3. a \in Tsk /\ a.state = s.state /\ a.rq = s.rq /\ a.ofo = s.ofo
  BY <1>1 DEF Tsk
<1> HIDE DEF a
<1>4. b \in Tsk /\ b.state = s.state /\ b.rq = s.rq /\ b.ofo = s.ofo
  BY <1>3 DEF tcp_send_ack, Tsk
<1> HIDE DEF b
<1>5. c \in Tsk /\ c.state = s.state /\ c.rq = s.rq /\ c.ofo = s.ofo
  <2>1. wait_wakeup(b.recv_wait) \in WaitStates
    BY <1>4, Fields DEF wait_wakeup, WaitStates
  <2> QED
    BY <1>4, <2>1 DEF tcp_recv_notify, Tsk
<1> HIDE DEF c
<1>6. Keeps(s, c) \/ s.state \in TextStates
  BY <1>5 DEF Keeps, Synchronized, Receiving, Before
<1>7. Keeps(s, cw) /\ Keeps(s, cl)
  BY <1>5 DEF Keeps, Tsk, TcpStates, Receiving, TextStates, Before
<1>8. Keeps(s, d)
  <2>1. Keeps(c, d)
    BY <1>5, TimeWaitKeeps
  <2>2. d.state = "TIME_WAIT"
    <3>1. tcp_clear_timers(c) \in Tsk
      BY <1>5, TimersKeep DEF Keeps
    <3> QED
      BY <3>1 DEF tcp_enter_time_wait, Tsk
  <2> HIDE DEF d
  <2> QED
    BY <1>5, <2>1, <2>2 DEF Keeps, Receiving, TextStates, Before
<1> HIDE DEF d, cw, cl
<1> QED
  BY <1>2, <1>6, <1>7, <1>8, KeepsReflexive

\* Sending the next flight or an acknowledgment receives nothing.
LEMMA SendMoreOrAckKeeps ==
    ASSUME NEW s \in Tsk, NEW th \in InSegment, NEW expected \in BOOLEAN
    PROVE  Keeps(s, SendMoreOrAck(s, th, expected))
<1> DEFINE a == tcp_stop_delack_timer(s)
           pending == MinOf(Len(a.wq), 3)
           big == th.dlen > DELACK_LEN
           n == a.delacks + 1
           b == [a EXCEPT !.delacks = n]
           c == IF big /\ ~th.psh THEN b ELSE a
           d == tcp_send_next(a, pending)
           k == d.inflight + pending
           e == [d EXCEPT !.inflight = k]
           f == [c EXCEPT !.delacks = 0]
           g == [c EXCEPT !.delack = timer_add("delack")]
<1>1. \/ SendMoreOrAck(s, th, expected) = s
      \/ pending > 0 /\ SendMoreOrAck(s, th, expected) = tcp_rearm_rto_timer(e)
      \/ SendMoreOrAck(s, th, expected) = tcp_send_ack(f)
      \/ SendMoreOrAck(s, th, expected) = g
      \/ SendMoreOrAck(s, th, expected) = c
  BY DEF SendMoreOrAck
<1>2. Keeps(s, a) /\ a \in Tsk
  BY TimersKeep DEF Keeps
<1> HIDE DEF a
<1>3. pending \in 0..3 /\ pending <= Len(a.wq)
  <2> DEFINE l == Len(a.wq)
  <2>1. l \in Nat
    BY <1>2, Fields
  <2>2. pending = IF l <= 3 THEN l ELSE 3
    BY DEF MinOf
  <2> HIDE DEF l, pending
  <2>3. pending \in 0..3 /\ pending <= l
    BY <2>1, <2>2
  <2> QED
    BY <2>3 DEF l
<1>4. n \in Nat
  BY <1>2, Fields
<1> HIDE DEF pending, big, n
<1>5. Keeps(a, c) /\ c \in Tsk
  <2>1. Keeps(a, b) /\ b \in Tsk
    BY <1>2, <1>4 DEF Keeps, Tsk
  <2> HIDE DEF b
  <2> QED
    BY <1>2, <2>1, KeepsReflexive
<1> HIDE DEF c
<1>6. ASSUME pending > 0 PROVE Keeps(s, tcp_rearm_rto_timer(e))
  <2>1. pending \in 1..3
    BY <1>3, <1>6
  <2>2. Keeps(a, d) /\ d \in Tsk
    BY <1>2, <1>3, <2>1, SendNextKeeps DEF Keeps
  <2> HIDE DEF d
  <2>3. k \in Nat
    BY <1>3, <2>2, Fields
  <2> HIDE DEF k
  <2>4. Keeps(d, e) /\ e \in Tsk
    BY <2>2, <2>3 DEF Keeps, Tsk
  <2> HIDE DEF e
  <2> QED
    BY <1>2, <2>2, <2>4, RearmRtoKeeps, KeepsTransitive
<1>7. Keeps(s, tcp_send_ack(f))
  <2>1. Keeps(c, f) /\ f \in Tsk
    BY <1>5 DEF Keeps, Tsk
  <2> HIDE DEF f
  <2> QED
    BY <1>2, <1>5, <2>1, SendAckKeeps, KeepsTransitive
<1>8. Keeps(s, g)
  <2>1. timer_add("delack") \in TimerSlot
    BY SlotTyping DEF TimerKinds
  <2>2. Keeps(c, g)
    BY <1>5, <2>1 DEF Keeps, Tsk
  <2> HIDE DEF g
  <2> QED
    BY <1>2, <1>5, <2>2, KeepsTransitive
<1>9. Keeps(s, s) /\ Keeps(s, c)
  BY <1>2, <1>5, KeepsReflexive, KeepsTransitive
<1> HIDE DEF e, f, g
<1> QED
  BY <1>1, <1>6, <1>7, <1>8, <1>9

\* What tcp_input_state does after the ACK: a step that keeps the stream, at
\* most one call of tcp_data_queue, and a step that keeps it again.
LEMMA ProcessRestEffect ==
    ASSUME NEW s \in Tsk, NEW th \in InSegment, s.state \in Synchronized
    PROVE  \E a \in Tsk :
              /\ Keeps(s, a)
              /\ \/ Keeps(a, ProcessRest(s, th))
                 \/ /\ a.state \in TextStates /\ (th.psh \/ th.dlen > 0)
                    /\ Keeps(tcp_data_queue(a, th), ProcessRest(s, th))
<1> DEFINE a == QueueEmptied(s, th)
           expected == th.seq = a.rcv_nxt
           b == ProcessText(a, th)
           c == ProcessFin(b, th, expected)
           d == SendMoreOrAck(c, th, expected)
<1>1. Keeps(s, a) /\ a \in Tsk /\ a.state \in Synchronized
  BY QueueEmptiedKeeps DEF Keeps
<1>2. ProcessRest(s, th) = d
  BY DEF ProcessRest
<1> HIDE DEF a
<1>3. /\ b \in Tsk /\ b.state = a.state
      /\ \/ b = a
         \/ /\ b = tcp_data_queue(a, th)
            /\ a.state \in TextStates /\ (th.psh \/ th.dlen > 0)
  BY <1>1, DataQueueEffect DEF ProcessText
<1> HIDE DEF b
<1>4. expected \in BOOLEAN
  OBVIOUS
<1> HIDE DEF expected
<1>5. Keeps(b, c) /\ c \in Tsk
  BY <1>1, <1>3, <1>4, ProcessFinKeeps DEF Keeps
<1> HIDE DEF c
<1>6. Keeps(b, d)
  BY <1>4, <1>5, SendMoreOrAckKeeps, KeepsTransitive
<1> HIDE DEF d
<1> QED
  BY <1>1, <1>2, <1>3, <1>6

----------------------------------------------------------------------------
(* The peer and its segments *)

\* Whatever may arrive is a segment.
LEMMA InFlightTyping ==
    ASSUME peer \in PeerType
    PROVE  InFlight \subseteq InSegment
<1>1. NoFlags \in InSegment
  BY DEF NoFlags, InSegment
<1>2. ISS + 1 \in Nat /\ IRS \in Nat /\ PeerBytes \in Nat
  BY TcpConstants, TcpRunConstants
<1>3. Handshake \subseteq InSegment
  <2> DEFINE n == ISS + 1
  <2>1. n \in Nat
    BY <1>2
  <2>2. \A th \in Handshake :
           \/ th = [NoFlags EXCEPT !.syn = TRUE, !.seq = IRS]
           \/ th = [NoFlags EXCEPT !.rst = TRUE, !.ack = TRUE, !.ack_seq = n]
           \/ th = [NoFlags EXCEPT !.syn = TRUE, !.seq = IRS, !.ack = TRUE,
                                   !.ack_seq = n]
    BY DEF Handshake
  <2> HIDE DEF n
  <2>3. [NoFlags EXCEPT !.syn = TRUE, !.seq = IRS] \in InSegment
    BY <1>1, <1>2 DEF InSegment
  <2>4. [NoFlags EXCEPT !.rst = TRUE, !.ack = TRUE, !.ack_seq = n] \in InSegment
    BY <1>1, <2>1 DEF InSegment
  <2>5. [NoFlags EXCEPT !.syn = TRUE, !.seq = IRS, !.ack = TRUE,
                        !.ack_seq = n] \in InSegment
    BY <1>1, <1>2, <2>1 DEF InSegment
  <2> QED
    BY <2>2, <2>3, <2>4, <2>5
<1>4. Resets \subseteq InSegment
  <2>1. peer.rst \in Nat
    BY DEF PeerType
  <2>2. [NoFlags EXCEPT !.rst = TRUE, !.seq = peer.rst] \in InSegment
    BY <1>1, <2>1 DEF InSegment
  <2> QED
    BY <2>2 DEF Resets
<1>5. ASSUME NEW p \in peer.hist
      PROVE  PeerData(p) \cup PeerFin(p) \cup PeerAck(p) \subseteq InSegment
  <2>1. p.snd \in Nat /\ p.ack \in Nat
    BY DEF PeerType
  <2>2. PeerData(p) \subseteq InSegment
    <3> SUFFICES ASSUME NEW x \in (0..PeerBytes) \X (0..PeerBytes) \X BOOLEAN,
                        x[1] < x[2]
                 PROVE  [NoFlags EXCEPT !.seq = IRS + 1 + x[1], !.data = x[1] + 1,
                            !.dlen = x[2] - x[1], !.ack = TRUE,
                            !.ack_seq = p.ack, !.psh = x[3]] \in InSegment
      BY DEF PeerData
    <3> DEFINE q == IRS + 1 + x[1]
               m == x[1] + 1
               l == x[2] - x[1]
               f == x[3]
    <3>1. q \in Nat /\ m \in Nat /\ l \in Nat /\ f \in BOOLEAN
      BY <1>2
    <3> HIDE DEF q, m, l, f
    <3>2. [NoFlags EXCEPT !.seq = q, !.data = m, !.dlen = l, !.ack = TRUE,
                          !.ack_seq = p.ack, !.psh = f] \in InSegment
      BY <1>1, <2>1, <3>1 DEF InSegment
    <3> QED
      BY <3>2 DEF q, m, l, f
  <2>3. PeerFin(p) \subseteq InSegment
    <3> SUFFICES ASSUME NEW lo \in 0..PeerBytes
                 PROVE  [NoFlags EXCEPT !.seq = IRS + 1 + lo, !.data = lo + 1,
                            !.dlen = PeerBytes - lo, !.ack = TRUE,
                            !.ack_seq = p.ack, !.fin = TRUE] \in InSegment
      BY DEF PeerFin
    <3> DEFINE q == IRS + 1 + lo
               m == lo + 1
               l == PeerBytes - lo
    <3>1. q \in Nat /\ m \in Nat /\ l \in Nat
      BY <1>2
    <3> HIDE DEF q, m, l
    <3>2. [NoFlags EXCEPT !.seq = q, !.data = m, !.dlen = l, !.ack = TRUE,
                          !.ack_seq = p.ack, !.fin = TRUE] \in InSegment
      BY <1>1, <2>1, <3>1 DEF InSegment
    <3> QED
      BY <3>2 DEF q, m, l
  <2>4. PeerAck(p) \subseteq InSegment
    <3> DEFINE q == IRS + 1 + p.snd
    <3>1. q \in Nat
      BY <1>2, <2>1
    <3> HIDE DEF q
    <3>2. [NoFlags EXCEPT !.seq = q, !.ack = TRUE, !.ack_seq = p.ack] \in InSegment
      BY <1>1, <2>1, <3>1 DEF InSegment
    <3> QED
      BY <3>2 DEF PeerAck, q
  <2> QED
    BY <2>2, <2>3, <2>4
<1> QED
  BY <1>3, <1>4, <1>5 DEF InFlight

----------------------------------------------------------------------------
(* The actions *)

\* Until connect() the socket is as socket() left it.
Fresh == app.pc = "start" => tsk = NewSock /\ delivered = << >>

TypeInv == TypeOK /\ Fresh

\* A well-typed step that receives nothing and delivers nothing.
QuietStep == TypeOK' /\ Keeps(tsk, tsk') /\ delivered' = delivered

\* Such a step of anybody but the application.
LEMMA QuietSocketStep ==
    ASSUME TypeOK, Keeps(tsk, tsk'), UNCHANGED << app, wrote, delivered, peer >>
    PROVE  QuietStep
BY DEF QuietStep, Keeps, TypeOK

\* connect() and its return.
LEMMA ConnectSteps ==
    ASSUME TypeInv, Connect \/ ConnectWoken \/ ConnectFree
    PROVE  QuietStep
<1>1. tsk \in Tsk /\ app \in AppType
  BY DEF TypeInv, TypeOK
<1>2. CASE Connect
  <2> DEFINE a == tcp_connect(tsk)
             w == IF app.nonblock THEN "idle" ELSE "asleep"
             b == [a EXCEPT !.ss = "CONNECTING", !.err = "EINPROGRESS", !.sleep = w]
  <2>1. tsk.state = "CLOSE"
    BY <1>2 DEF TypeInv, Fresh, Connect, NewSock
  <2>2. Keeps(tsk, a) /\ a \in Tsk
    BY <1>1, <2>1, ConnectKeeps
  <2>3. w \in WaitStates
    BY DEF WaitStates
  <2>4. tsk' = b
    BY <1>2 DEF Connect
  <2> HIDE DEF a, w
  <2>5. Keeps(a, b)
    BY <2>2, <2>3 DEF Keeps, Tsk, SocketStates, Errors
  <2> HIDE DEF b
  <2>6. app' \in AppType
    BY <1>1, <1>2 DEF Connect, AppType, AppPcs
  <2> QED
    BY <1>2, <2>2, <2>4, <2>5, <2>6, KeepsTransitive
       DEF QuietStep, TypeInv, TypeOK, Keeps, Connect
<1>3. CASE ConnectWoken
  <2> DEFINE c == IF tsk.err = "0" THEN "CONNECTED" ELSE tsk.ss
             b == [tsk EXCEPT !.sleep = "idle", !.ss = c]
  <2>1. c \in SocketStates
    BY <1>1 DEF Tsk, SocketStates
  <2>2. tsk' = b
    BY <1>3 DEF ConnectWoken
  <2> HIDE DEF c
  <2>3. Keeps(tsk, b)
    BY <1>1, <2>1 DEF Keeps, Tsk, WaitStates
  <2> HIDE DEF b
  <2>4. app' \in AppType
    BY <1>1, <1>3 DEF ConnectWoken, AppType, AppPcs, Returns
  <2> QED
    BY <1>3, <2>2, <2>3, <2>4 DEF QuietStep, TypeInv, TypeOK, Keeps, ConnectWoken
<1>4. CASE ConnectFree
  <2>1. Keeps(tsk, [tsk EXCEPT !.freed = TRUE])
    BY <1>1 DEF Keeps, Tsk
  <2>2. app' \in AppType
    BY <1>1, <1>4 DEF ConnectFree, AppType, AppPcs
  <2> QED
    BY <1>4, <2>1, <2>2 DEF QuietStep, TypeInv, TypeOK, Keeps, ConnectFree
<1> QED
  BY <1>2, <1>3, <1>4

\* write() and close().
LEMMA WriteCloseSteps ==
    ASSUME TypeOK, (\E len \in WriteSizes : Write(len)) \/ Close
    PROVE  QuietStep
<1>1. tsk \in Tsk /\ app \in AppType /\ wrote \in Nat
  BY DEF TypeOK
<1>2. ASSUME NEW len \in WriteSizes, Write(len) PROVE QuietStep
  <2>1. len \in Nat \ {0} /\ wrote + 1 \in Nat /\ wrote + len \in Nat
    BY <1>1, TcpRunConstants
  <2>2. Keeps(tsk, tsk')
    BY <1>1, <1>2, <2>1, SendKeeps DEF Write
  <2> QED
    BY <1>2, <2>1, <2>2 DEF QuietStep, TypeOK, Keeps, Write
<1>3. CASE Close
  <2> DEFINE a == [tsk EXCEPT !.state = "FIN_WAIT_1"]
             b == [tsk EXCEPT !.err = "EBADF"]
  <2>1. Keeps(tsk, tcp_done(tsk)) /\ Keeps(tsk, tcp_queue_fin(tsk))
    BY <1>1, DoneKeeps, QueueFinKeeps
  <2>2. (Keeps(tsk, a) /\ a \in Tsk) \/ tsk.state # "ESTABLISHED"
    BY <1>1 DEF Keeps, Tsk, TcpStates, Before, Receiving, TextStates
  <2>3. Keeps(tsk, b)
    BY <1>1 DEF Keeps, Tsk, Errors
  <2>4. \/ tsk' = tcp_done(tsk)
        \/ tsk.state = "ESTABLISHED" /\ tsk' = tcp_queue_fin(a)
        \/ tsk' = tcp_queue_fin(tsk)
        \/ tsk' = b
    BY <1>3 DEF Close
  <2> HIDE DEF a, b
  <2>5. Keeps(tsk, tsk')
    BY <2>1, <2>2, <2>3, <2>4, QueueFinKeeps, KeepsTransitive
  <2>6. app' \in AppType
    BY <1>1, <1>3 DEF Close, AppType, AppPcs
  <2> QED
    BY <1>3, <2>5, <2>6 DEF QuietStep, TypeOK, Keeps, Close
<1> QED
  BY <1>2, <1>3

\* read(), but for the copying of a buffer.
LEMMA ReadSteps ==
    ASSUME TypeOK, ReadAtEnd \/ (\E len \in ReadSizes : Read(len)) \/ CopyDone \/ ReadWoken
    PROVE  QuietStep
<1>1. tsk \in Tsk /\ app \in AppType
  BY DEF TypeOK
<1>2. CASE ReadAtEnd
  <2>1. Keeps(tsk, tsk) /\ Keeps(tsk, [tsk EXCEPT !.fin = FALSE])
    BY <1>1 DEF Keeps, Tsk
  <2>2. app' \in AppType
    BY <1>1, <1>2 DEF ReadAtEnd, AppType, Returns
  <2> QED
    BY <1>2, <2>1, <2>2 DEF QuietStep, TypeOK, Keeps, ReadAtEnd
<1>3. ASSUME NEW len \in ReadSizes, Read(len) PROVE QuietStep
  <2>1. len \in Nat
    BY TcpRunConstants
  <2>2. app' \in AppType
    BY <1>1, <1>3, <2>1 DEF Read, AppType, AppPcs
  <2> QED
    BY <1>1, <1>3, <2>2, KeepsReflexive DEF QuietStep, TypeOK, Keeps, Read
<1>4. CASE CopyDone
  <2> DEFINE p == tsk.poll \ {"IN"}
             s == IF tsk.rq = << >> /\ ~tsk.fin
                  THEN [tsk EXCEPT !.poll = p] ELSE tsk
             a == [s EXCEPT !.psh = FALSE]
             b == [s EXCEPT !.recv_wait = "asleep"]
  <2>1. tsk' = tcp_rearm_user_timeout(a) \/ tsk' = s \/ tsk' = b
    BY <1>4 DEF CopyDone
  <2>2. p \in SUBSET PollEvents
    BY <1>1, Fields
  <2> HIDE DEF p
  <2>3. Keeps(tsk, s) /\ s \in Tsk
    BY <1>1, <2>2 DEF Keeps, Tsk
  <2> HIDE DEF s
  <2>4. Keeps(s, a) /\ a \in Tsk /\ Keeps(s, b)
    BY <2>3 DEF Keeps, Tsk, WaitStates
  <2> HIDE DEF a, b
  <2>5. Keeps(tsk, tsk')
    BY <2>1, <2>3, <2>4, TimersKeep, KeepsTransitive
  <2>6. app' \in AppType
    BY <1>1, <1>4 DEF CopyDone, AppType, AppPcs, Returns
  <2> QED
    BY <1>4, <2>5, <2>6 DEF QuietStep, TypeOK, Keeps, CopyDone
<1>5. CASE ReadWoken
  <2>1. Keeps(tsk, [tsk EXCEPT !.recv_wait = "idle"])
    BY <1>1 DEF Keeps, Tsk, WaitStates
  <2>2. app' \in AppType
    BY <1>1, <1>5 DEF ReadWoken, AppType, AppPcs
  <2> QED
    BY <1>5, <2>1, <2>2 DEF QuietStep, TypeOK, Keeps, ReadWoken
<1> QED
  BY <1>2, <1>3, <1>4, <1>5

\* The copying of a buffer: n of its bytes are delivered and leave the queue.
LEMMA CopySkbEffect ==
    ASSUME TypeOK, CopySkb
    PROVE  /\ TypeOK'
           /\ tsk'.state = tsk.state /\ tsk'.rcv_nxt = tsk.rcv_nxt
           /\ tsk'.ofo = tsk.ofo
           /\ tsk.rq # << >> /\ app.pc = "copy" /\ app'.pc = "copy"
           /\ \E n \in 0..tsk.rq[1].dlen :
                 /\ delivered' = delivered \o [i \in 1..n |-> tsk.rq[1].data + i - 1]
                 /\ \/ n = tsk.rq[1].dlen /\ tsk'.rq = Tail(tsk.rq)
                    \/ tsk'.rq = [tsk.rq EXCEPT ![1] =
                                     [tsk.rq[1] EXCEPT !.dlen = tsk.rq[1].dlen - n,
                                                       !.data = tsk.rq[1].data + n]]
<1> DEFINE skb == tsk.rq[1]
           n == MinOf(skb.dlen, app.want - app.rlen)
           f == [i \in 1..n |-> skb.data + i - 1]
           l == skb.dlen - n
           m == skb.data + n
           p == tsk.psh \/ skb.psh
           q == Tail(tsk.rq)
           r == [tsk.rq EXCEPT ![1] = [skb EXCEPT !.dlen = l, !.data = m]]
           a == [tsk EXCEPT !.rq = q, !.psh = p]
           b == [tsk EXCEPT !.rq = r]
<1>1. /\ tsk \in Tsk /\ app \in AppType /\ tsk.rq \in Seq(ReadSkb)
      /\ delivered \in Seq(Nat) /\ app.want \in Nat /\ app.rlen \in Nat
  BY Fields DEF TypeOK, AppType
<1>2. tsk.rq # << >> /\ app.rlen < app.want /\ app.pc = "copy"
  BY DEF CopySkb
<1>3. skb \in ReadSkb /\ Head(tsk.rq) = skb /\ 1 \in 1..Len(tsk.rq)
  BY <1>1, <1>2
<1>4. /\ delivered' = delivered \o f
      /\ app' = [app EXCEPT !.rlen = app.rlen + n]
      /\ (n = skb.dlen /\ tsk' = a) \/ tsk' = b
      /\ UNCHANGED << wrote, peer >>
  <2>1. delivered' = delivered \o f /\ app' = [app EXCEPT !.rlen = app.rlen + n]
    BY <1>3 DEF CopySkb
  <2>2. (n = skb.dlen /\ tsk' = a) \/ tsk' = b
    BY <1>3 DEF CopySkb
  <2> QED
    BY <2>1, <2>2 DEF CopySkb
<1> HIDE DEF skb
<1>5. skb.dlen \in Nat /\ skb.data \in Nat /\ skb.psh \in BOOLEAN
  BY <1>3 DEF ReadSkb
<1>6. n \in 0..skb.dlen
  <2> DEFINE d == skb.dlen
             w == app.want - app.rlen
  <2>1. d \in Nat /\ w \in Nat
    BY <1>1, <1>2, <1>5
  <2>2. n = IF d <= w THEN d ELSE w
    BY DEF MinOf
  <2> HIDE DEF d, w, n
  <2>3. n \in 0..d
    BY <2>1, <2>2
  <2> QED
    BY <2>3 DEF d
<1> HIDE DEF n
<1>7. l \in Nat /\ m \in Nat /\ app.rlen + n \in Nat
  BY <1>1, <1>5, <1>6
<1>8. delivered \o f \in Seq(Nat)
  <2>1. n \in Nat /\ \A i \in 1..n : skb.data + i - 1 \in Nat
    BY <1>5, <1>6
  <2>2. f \in Seq(Nat)
    BY <2>1
  <2> QED
    BY <1>1, <2>2
<1> HIDE DEF l, m
<1>9. [skb EXCEPT !.dlen = l, !.data = m] \in ReadSkb
  BY <1>3, <1>7 DEF ReadSkb
<1>10. r \in Seq(ReadSkb) /\ q \in Seq(ReadSkb)
  BY <1>1, <1>2, <1>3, <1>9
<1>11. p \in BOOLEAN
  BY <1>1, <1>5, Fields
<1> HIDE DEF r, q, p
<1>12. /\ a \in Tsk /\ a.state = tsk.state /\ a.rcv_nxt = tsk.rcv_nxt
       /\ a.ofo = tsk.ofo /\ a.rq = q
  BY <1>1, <1>10, <1>11 DEF Tsk
<1>13. /\ b \in Tsk /\ b.state = tsk.state /\ b.rcv_nxt = tsk.rcv_nxt
       /\ b.ofo = tsk.ofo /\ b.rq = r
  BY <1>1, <1>10 DEF Tsk
<1> HIDE DEF a, b
<1>14. app' \in AppType /\ app'.pc = "copy"
  BY <1>1, <1>2, <1>4, <1>7 DEF AppType
<1>15. TypeOK'
  BY <1>4, <1>8, <1>12, <1>13, <1>14 DEF TypeOK
<1>16. /\ delivered' = delivered \o [i \in 1..n |-> skb.data + i - 1]
       /\ \/ n = skb.dlen /\ tsk'.rq = Tail(tsk.rq)
          \/ tsk'.rq = [tsk.rq EXCEPT ![1] = [skb EXCEPT !.dlen = skb.dlen - n,
                                                         !.data = skb.data + n]]
  BY <1>4, <1>12, <1>13 DEF q, r, l, m
<1> QED
  BY <1>2, <1>4, <1>6, <1>12, <1>13, <1>14, <1>15, <1>16 DEF skb

\* Expiring timers and their handlers.
LEMMA TimerSteps ==
    ASSUME TypeOK, TimerNext
    PROVE  QuietStep
<1>1. tsk \in Tsk /\ tsk.thread \in [TimerKinds -> Nat] /\ tsk.armed \in [TimerKinds -> Nat]
  BY Fields DEF TypeOK
<1>2. ASSUME NEW slot \in {"retransmit", "delack", "linger"}, Expire(slot)
      PROVE  Keeps(tsk, tsk') /\ UNCHANGED << app, wrote, delivered, peer >>
  <2> DEFINE h == [tsk.thread EXCEPT ![tsk[slot].kind] = @ + 1]
             e == [tsk[slot] EXCEPT !.fired = TRUE]
             t == [tsk EXCEPT ![slot] = e, !.thread = h]
  <2>1. tsk[slot] \in TimerSlot
    BY <1>1 DEF Tsk
  <2>2. tsk[slot].kind \in TimerKinds
    BY <1>2, TcpRunConstants DEF Expire
  <2>3. h \in [TimerKinds -> Nat]
    BY <1>1, <2>2
  <2>4. e \in TimerSlot
    BY <2>1 DEF TimerSlot
  <2>5. tsk' = t
    BY <1>2 DEF Expire
  <2> HIDE DEF h, e
  <2>6. Keeps(tsk, t)
    BY <1>1, <2>3, <2>4 DEF Keeps, Tsk
  <2> QED
    BY <1>2, <2>5, <2>6 DEF Expire
<1>3. ASSUME NEW kind \in TimerKinds, ExpireUnowned(kind)
      PROVE  Keeps(tsk, tsk') /\ UNCHANGED << app, wrote, delivered, peer >>
  <2> DEFINE h == [tsk.thread EXCEPT ![kind] = @ + 1]
             m == [tsk.armed EXCEPT ![kind] = @ - 1]
             t == [tsk EXCEPT !.armed = m, !.thread = h]
  <2>1. tsk.armed[kind] > 0
    BY <1>3 DEF ExpireUnowned
  <2>2. h \in [TimerKinds -> Nat] /\ m \in [TimerKinds -> Nat]
    BY <1>1, <2>1
  <2>3. tsk' = t
    BY <1>3 DEF ExpireUnowned
  <2> HIDE DEF h, m
  <2>4. Keeps(tsk, t)
    BY <1>1, <2>2 DEF Keeps, Tsk
  <2> QED
    BY <1>3, <2>3, <2>4 DEF ExpireUnowned
<1>4. ASSUME NEW kind \in TimerKinds, RunHandler(kind)
      PROVE  Keeps(tsk, tsk') /\ UNCHANGED << app, wrote, delivered, peer >>
  <2> DEFINE h == [tsk.thread EXCEPT ![kind] = @ - 1]
             s == [tsk EXCEPT !.thread = h]
             c == [s EXCEPT !.linger = NoTimer]
             d == [s EXCEPT !.freed = TRUE]
  <2>1. tsk.thread[kind] > 0
    BY <1>4 DEF RunHandler
  <2>2. h \in [TimerKinds -> Nat]
    BY <1>1, <2>1
  <2>3. tsk' = Handler(kind, s)
    BY <1>4 DEF RunHandler
  <2> HIDE DEF h
  <2>4. Keeps(tsk, s) /\ s \in Tsk
    BY <1>1, <2>2 DEF Keeps, Tsk
  <2> HIDE DEF s
  <2>5. Keeps(s, c) /\ c \in Tsk /\ Keeps(s, d)
    BY <2>4, SlotTyping DEF Keeps, Tsk
  <2>6. \/ tsk' = tcp_connect_rto(s)
        \/ tsk' = tcp_retransmission_timeout(s)
        \/ tsk' = tcp_send_delack(s)
        \/ tsk' = tcp_abort(c)
        \/ tsk' = tcp_done(c)
        \/ tsk' = d
    BY <2>3 DEF Handler, CancelLinger, TimerKinds
  <2> HIDE DEF c, d
  <2>7. Keeps(s, tsk')
    BY <2>4, <2>5, <2>6, ConnectRtoKeeps, RetransmissionKeeps, SendDelackKeeps,
       AbortKeeps, DoneKeeps, KeepsTransitive
  <2> QED
    BY <1>4, <2>4, <2>7, KeepsTransitive DEF RunHandler
<1> QED
  BY <1>2, <1>3, <1>4, QuietSocketStep DEF TimerNext

\* The peer's steps.
LEMMA PeerSteps ==
    ASSUME TypeOK, PeerNext
    PROVE  TypeOK' /\ UNCHANGED << tsk, app, wrote, delivered >>
<1>1. tsk \in Tsk /\ peer \in PeerType
  BY DEF TypeOK
<1>2. /\ peer.snd \in Nat /\ peer.rcv_nxt \in Nat /\ peer.got \in Seq(Nat)
      /\ peer.hist \in SUBSET [snd : Nat, ack : Nat]
  BY <1>1 DEF PeerType
<1>3. ASSUME NEW seg \in tsk.wire, PeerReceive(seg) PROVE peer' \in PeerType
  <2>1. seg \in Segment
    BY <1>1 DEF Tsk
  <2>2. seg.seq \in Nat /\ seg.dlen \in Nat /\ seg.data \in Nat /\ seg.fin \in BOOLEAN
    BY <2>1 DEF Segment
  <2>3. CASE peer' = [peer EXCEPT !.rcv_nxt = seg.seq + 1,
                                  !.hist = {[snd |-> 0, ack |-> seg.seq + 1]}]
    <3> DEFINE n == seg.seq + 1
               h == {[snd |-> 0, ack |-> n]}
    <3>1. n \in Nat /\ h \in SUBSET [snd : Nat, ack : Nat]
      BY <2>2
    <3>2. peer' = [peer EXCEPT !.rcv_nxt = n, !.hist = h]
      BY <2>3
    <3> HIDE DEF n, h
    <3> QED
      BY <1>1, <3>1, <3>2 DEF PeerType
  <2> DEFINE end == seg.seq + seg.dlen + (IF seg.fin THEN 1 ELSE 0)
             skip == peer.rcv_nxt - seg.seq
             new == [i \in 1..(seg.dlen - skip) |-> seg.data + skip + i - 1]
             g == peer.got \o new
             h == peer.hist \cup {[snd |-> peer.snd, ack |-> end]}
  <2>4. CASE /\ seg.seq <= peer.rcv_nxt /\ peer.rcv_nxt < end
             /\ peer' = [peer EXCEPT !.rcv_nxt = end, !.got = g, !.fin = seg.fin,
                                     !.hist = h]
    <3>1. end \in Nat /\ skip \in Nat /\ seg.dlen - skip \in Nat
      BY <1>2, <2>2, <2>4
    <3> HIDE DEF end, skip
    <3>2. h \in SUBSET [snd : Nat, ack : Nat]
      BY <1>2, <3>1
    <3>3. new \in Seq(Nat)
      <4>1. \A i \in 1..(seg.dlen - skip) : seg.data + skip + i - 1 \in Nat
        BY <2>2, <3>1
      <4> QED
        BY <3>1, <4>1
    <3> HIDE DEF new, h
    <3>4. g \in Seq(Nat)
      BY <1>2, <3>3
    <3> HIDE DEF g
    <3> QED
      BY <1>1, <2>2, <2>4, <3>1, <3>2, <3>4 DEF PeerType
  <2> QED
    BY <1>3, <2>3, <2>4 DEF PeerReceive
<1>4. ASSUME PeerSend PROVE peer' \in PeerType
  <2> DEFINE n == peer.snd + 1
             h == peer.hist \cup {[snd |-> n, ack |-> peer.rcv_nxt]}
  <2>1. n \in Nat
    BY <1>2
  <2>2. peer' = [peer EXCEPT !.snd = n, !.hist = h]
    BY <1>4 DEF PeerSend
  <2> HIDE DEF n
  <2>3. h \in SUBSET [snd : Nat, ack : Nat]
    BY <1>2, <2>1
  <2> HIDE DEF h
  <2> QED
    BY <1>1, <2>1, <2>2, <2>3 DEF PeerType
<1>5. ASSUME PeerReset PROVE peer' \in PeerType
  <2> DEFINE n == IRS + 1 + peer.snd
  <2>1. n \in Nat
    BY <1>2, TcpConstants
  <2>2. peer' = [peer EXCEPT !.rst = n]
    BY <1>5 DEF PeerReset
  <2> HIDE DEF n
  <2> QED
    BY <1>1, <2>1, <2>2 DEF PeerType
<1>6. peer' \in PeerType
  BY <1>3, <1>4, <1>5 DEF PeerNext
<1>7. UNCHANGED << tsk, app, wrote, delivered >>
  BY DEF PeerNext, PeerReceive, PeerSend, PeerReset
<1> QED
  BY <1>6, <1>7 DEF TypeOK

\* What an arriving segment does to the socket: nothing to the peer's stream,
\* its start, or one call of tcp_data_queue between two steps that keep it.
LEMMA CoreSteps ==
    ASSUME TypeOK, CoreNext
    PROVE  \E th \in InFlight :
              /\ th \in InSegment
              /\ UNCHANGED << app, wrote, delivered, peer >>
              /\ tsk.state # "CLOSE"
              /\ \/ Keeps(tsk, tsk')
                 \/ /\ tsk.state = "SYN_SENT" /\ th.syn
                    /\ Keeps([tsk EXCEPT !.rcv_nxt = th.seq + 1,
                                         !.state = "ESTABLISHED"], tsk')
                 \/ \E a \in Tsk :
                       /\ Keeps(tsk, a) /\ a.state \in TextStates
                       /\ th.psh \/ th.dlen > 0
                       /\ Keeps(tcp_data_queue(a, th), tsk')
<1>1. tsk \in Tsk /\ peer \in PeerType
  BY DEF TypeOK
<1>2. PICK th \in InFlight :
         \/ RcvSynSent(th) \/ RcvUnacceptable(th) \/ RcvReset(th)
         \/ \E r \in RttSamples : RcvSegment(th, r)
  BY DEF CoreNext
<1>3. th \in InSegment
  BY <1>1, InFlightTyping
<1>4. tsk.state # "CLOSE" /\ UNCHANGED << app, wrote, delivered, peer >>
  BY <1>2 DEF RcvSynSent, RcvUnacceptable, RcvReset, RcvSegment, Arrives
<1> DEFINE Effect ==
             \/ Keeps(tsk, tsk')
             \/ /\ tsk.state = "SYN_SENT" /\ th.syn
                /\ Keeps([tsk EXCEPT !.rcv_nxt = th.seq + 1,
                                     !.state = "ESTABLISHED"], tsk')
             \/ \E a \in Tsk :
                   /\ Keeps(tsk, a) /\ a.state \in TextStates
                   /\ th.psh \/ th.dlen > 0
                   /\ Keeps(tcp_data_queue(a, th), tsk')
<1>5. ASSUME RcvSynSent(th) PROVE Effect
  <2>1. tsk.state = "SYN_SENT" /\ tsk' = tcp_synsent(tsk, th)
    BY <1>5 DEF RcvSynSent
  <2> QED
    BY <1>1, <1>3, <2>1, SynsentEffect
<1>6. ASSUME RcvUnacceptable(th) PROVE Effect
  BY <1>1, <1>6, SendAckKeeps DEF RcvUnacceptable
<1>7. ASSUME RcvReset(th) PROVE Effect
  <2>1. tsk' = tcp_recv_notify(tcp_enter_time_wait(tsk))
    BY <1>7 DEF RcvReset
  <2> DEFINE a == tcp_enter_time_wait(tsk)
  <2>2. Keeps(tsk, a) /\ a \in Tsk
    BY <1>1, TimeWaitKeeps DEF Keeps
  <2> HIDE DEF a
  <2>3. Keeps(a, tcp_recv_notify(a))
    BY <2>2, WakingKeeps
  <2>4. Keeps(tsk, tsk')
    BY <2>1, <2>2, <2>3, KeepsTransitive DEF a
  <2> QED
    BY <2>4
<1>8. ASSUME NEW r \in RttSamples, RcvSegment(th, r) PROVE Effect
  <2> DEFINE s == ProcessAck(tsk, th, r)
  <2>1. r \in Nat
    BY TcpRunConstants
  <2>2. tsk.state # "SYN_SENT" /\ (tsk' = tcp_done(s) \/ tsk' = ProcessRest(s, th))
    BY <1>8 DEF RcvSegment
  <2>3. /\ Keeps(tsk, s) /\ s \in Tsk
        /\ s.state = IF tsk.state = "SYN_RECEIVED" THEN "ESTABLISHED" ELSE tsk.state
    BY <1>1, <1>3, <2>1, ProcessAckKeeps DEF Keeps
  <2> HIDE DEF s
  <2>4. s.state \in Synchronized
    BY <1>1, <1>4, <2>2, <2>3, Fields DEF Synchronized, TcpStates, Before
  <2>5. CASE tsk' = tcp_done(s)
    BY <2>3, <2>5, DoneKeeps, KeepsTransitive
  <2>6. CASE tsk' = ProcessRest(s, th)
    <3>1. PICK a \in Tsk :
             /\ Keeps(s, a)
             /\ \/ Keeps(a, tsk')
                \/ /\ a.state \in TextStates /\ (th.psh \/ th.dlen > 0)
                   /\ Keeps(tcp_data_queue(a, th), tsk')
      BY <1>3, <2>3, <2>4, <2>6, ProcessRestEffect
    <3>2. Keeps(tsk, a)
      BY <2>3, <3>1, KeepsTransitive
    <3> QED
      BY <3>1, <3>2, KeepsTransitive
  <2> QED
    BY <2>2, <2>5, <2>6
<1>9. Effect
  BY <1>2, <1>5, <1>6, <1>7, <1>8
<1> QED
  BY <1>3, <1>4, <1>9

\* Before connect() no timer runs and no segment is accepted.
LEMMA FreshSteps ==
    ASSUME TypeOK, Fresh, Next
    PROVE  Fresh'
<1> SUFFICES ASSUME app'.pc = "start" PROVE tsk' = NewSock /\ delivered' = << >>
  BY DEF Fresh
<1>1. app \in AppType
  BY DEF TypeOK
<1>2. ~AppNext
  <2>1. ~Connect /\ ~ConnectWoken /\ ~ConnectFree /\ ~Close
    BY <1>1 DEF Connect, ConnectWoken, ConnectFree, Close, AppType
  <2>2. \A len : ~Write(len) /\ ~Read(len)
    BY <1>1 DEF Write, Read, AppType
  <2>3. ~ReadAtEnd
    BY <1>1 DEF ReadAtEnd, AppType
  <2>4. ~CopySkb
    BY CopySkbEffect
  <2>5. ~CopyDone /\ ~ReadWoken
    <3>1. ASSUME CopyDone PROVE FALSE
      <4>1. \/ \E v : app' = [app EXCEPT !.pc = "idle", !.ret = v]
            \/ app' = [app EXCEPT !.pc = "reading"]
        BY <3>1 DEF CopyDone
      <4> QED
        BY <1>1, <4>1 DEF AppType
    <3> QED
      BY <1>1, <3>1 DEF ReadWoken, AppType
  <2> QED
    BY <2>1, <2>2, <2>3, <2>4, <2>5 DEF AppNext
<1>3. UNCHANGED << app, delivered >>
  BY <1>2 DEF Next, TimerNext, Expire, ExpireUnowned, RunHandler, PeerNext,
     PeerReceive, PeerSend, PeerReset, CoreNext, RcvSynSent, RcvUnacceptable,
     RcvReset, RcvSegment, Arrives
<1>4. tsk = NewSock /\ delivered = << >>
  BY <1>3 DEF Fresh
<1>5. ~TimerNext
  <2>1. "none" \notin Expirable
    BY TcpRunConstants DEF TimerKinds
  <2>2. /\ tsk.retransmit.kind = "none" /\ tsk.delack.kind = "none"
        /\ tsk.linger.kind = "none"
        /\ \A k \in TimerKinds : tsk.armed[k] = 0 /\ tsk.thread[k] = 0
    BY <1>4 DEF NewSock, NoTimer
  <2>3. \A slot \in {"retransmit", "delack", "linger"} : ~Expire(slot)
    BY <2>1, <2>2 DEF Expire
  <2>4. \A kind \in TimerKinds : ~ExpireUnowned(kind) /\ ~RunHandler(kind)
    BY <2>2 DEF ExpireUnowned, RunHandler
  <2> QED
    BY <2>3, <2>4 DEF TimerNext
<1>6. ~CoreNext
  BY <1>4 DEF CoreNext, RcvSynSent, RcvUnacceptable, RcvReset, RcvSegment, Arrives,
     NewSock
<1>7. tsk' = tsk
  BY <1>2, <1>5, <1>6 DEF Next, PeerNext, PeerReceive, PeerSend, PeerReset
<1> QED
  BY <1>3, <1>4, <1>7

\* The step of the induction: every action keeps the types, and connect() is
\* only ever called on a fresh socket.
LEMMA TypeStep ==
    ASSUME TypeInv, [Next]_vars
    PROVE  TypeInv'
<1>1. CASE UNCHANGED vars
  BY <1>1 DEF TypeInv, TypeOK, Fresh, vars
<1>2. CASE Next
  <2>1. Fresh'
    BY <1>2, FreshSteps DEF TypeInv
  <2>2. ASSUME AppNext PROVE TypeOK'
    BY <2>2, ConnectSteps, WriteCloseSteps, ReadSteps, CopySkbEffect
       DEF AppNext, QuietStep, TypeInv
  <2>3. ASSUME TimerNext PROVE TypeOK'
    BY <2>3, TimerSteps DEF QuietStep, TypeInv
  <2>4. ASSUME PeerNext PROVE TypeOK'
    BY <2>4, PeerSteps DEF TypeInv
  <2>5. ASSUME CoreNext PROVE TypeOK'
    <3>1. tsk' \in Tsk /\ UNCHANGED << app, wrote, delivered, peer >>
      BY <2>5, CoreSteps DEF TypeInv, Keeps
    <3> QED
      BY <3>1 DEF TypeInv, TypeOK
  <2> QED
    BY <1>2, <2>1, <2>2, <2>3, <2>4, <2>5 DEF Next, TypeInv
<1> QED
  BY <1>1, <1>2

\* The socket socket() creates and the peer at rest are well typed.
LEMMA TypeInit ==
    ASSUME Init
    PROVE  TypeInv
<1>1. NewSock \in Tsk
  <2>1. [k \in TimerKinds |-> 0] \in [TimerKinds -> Nat]
    OBVIOUS
  <2>2. NoTimer \in TimerSlot
    BY SlotTyping
  <2>3. << >> \in Seq(WriteSkb) /\ << >> \in Seq(ReadSkb)
    OBVIOUS
  <2> QED
    BY <2>1, <2>2, <2>3
       DEF NewSock, Tsk, TcpStates, SocketStates, Errors, WaitStates
<1>2. app \in AppType
  BY TcpRunConstants DEF Init, AppType, AppPcs, Returns
<1>3. peer \in PeerType
  <2>1. << >> \in Seq(Nat) /\ {} \in SUBSET [snd : Nat, ack : Nat]
    OBVIOUS
  <2>2. PeerModes \subseteq {"listen", "refuse", "simopen"}
    BY TcpRunConstants
  <2>3. PICK m \in PeerModes :
           peer = [mode |-> m, snd |-> 0, rcv_nxt |-> 0, got |-> << >>,
                   fin |-> FALSE, rst |-> 0, hist |-> {}]
    BY DEF Init
  <2> QED
    BY <2>1, <2>2, <2>3 DEF PeerType
<1> QED
  BY <1>1, <1>2, <1>3 DEF Init, TypeInv, TypeOK, Fresh

\* In every behaviour of the connection, whatever the peer, the network, the
\* timers and the application do, the socket's fields keep their types.
THEOREM TypeCorrect == Spec => []TypeOK
<1>1. Init => TypeInv
  BY TypeInit
<1>2. TypeInv /\ [Next]_vars => TypeInv'
  BY TypeStep
<1>3. TypeInv => TypeOK
  BY DEF TypeInv
<1> QED
  BY <1>1, <1>2, <1>3, PTL DEF Spec

=============================================================================
