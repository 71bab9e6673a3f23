--------------------------- MODULE TcpConnProofs ---------------------------
(***************************************************************************)
(* The sending side and the life of a connection of module Tcp, for every  *)
(* value of its constants: the state changes are those of the diagram,     *)
(* tsk->inflight counts the transmitted buffers, and no step loses the     *)
(* timers that keep the connection alive.                                  *)
(***************************************************************************)
EXTENDS TcpTypeProofs, FiniteSetTheorems

\* t is s after an operation that neither queues, sends nor acknowledges
\* anything that takes sequence space.
SameQueue(s, t) ==
    /\ t \in Tsk
    /\ t.wq = s.wq /\ t.inflight = s.inflight /\ t.snd_nxt = s.snd_nxt

\* The buffers of a write queue that have been transmitted.
Sent(w) == {i \in 1..Len(w) : w[i].seq > 0}

\* The sending side of a socket that has sent its SYN.
SendOK(s) == s.snd_nxt > 0 /\ s.inflight = Cardinality(Sent(s.wq))

\* An edge of the diagram, or no change.
Edge(s, t) == s.state # t.state => << s.state, t.state >> \in StateChanges

----------------------------------------------------------------------------
(* Operations that leave the write queue alone *)

\* Such operations preserve SendOK.
LEMMA SameQueueOK ==
    ASSUME NEW s, NEW t, SameQueue(s, t), SendOK(s)
    PROVE  SendOK(t)
BY DEF SameQueue, SendOK, Sent

\* They compose.
LEMMA SameQueueTransitive ==
    ASSUME NEW s, NEW t, NEW u, SameQueue(s, t), SameQueue(t, u)
    PROVE  SameQueue(s, u)
BY DEF SameQueue

\* Arming, releasing and cancelling timers.
LEMMA TimersQueue ==
    ASSUME NEW s \in Tsk
    PROVE  /\ SameQueue(s, tcp_release_rto_timer(s))
           /\ tcp_release_rto_timer(s).state = s.state
           /\ SameQueue(s, tcp_release_delack_timer(s))
           /\ tcp_release_delack_timer(s).state = s.state
           /\ SameQueue(s, tcp_stop_rto_timer(s))
           /\ tcp_stop_rto_timer(s).state = s.state
           /\ SameQueue(s, tcp_stop_delack_timer(s))
           /\ tcp_stop_delack_timer(s).state = s.state
           /\ SameQueue(s, tcp_clear_timers(s))
           /\ tcp_clear_timers(s).state = s.state
           /\ SameQueue(s, tcp_rearm_user_timeout(s))
           /\ tcp_rearm_user_timeout(s).state = s.state
<1>1. /\ tcp_release_rto_timer(s) \in Tsk /\ tcp_release_delack_timer(s) \in Tsk
      /\ tcp_stop_rto_timer(s) \in Tsk /\ tcp_stop_delack_timer(s) \in Tsk
      /\ tcp_clear_timers(s) \in Tsk /\ tcp_rearm_user_timeout(s) \in Tsk
  BY TimersKeep DEF Keeps
<1>2. /\ SameQueue(s, tcp_release_rto_timer(s))
      /\ tcp_release_rto_timer(s).state = s.state
      /\ SameQueue(s, tcp_release_delack_timer(s))
      /\ tcp_release_delack_timer(s).state = s.state
  BY <1>1 DEF SameQueue, tcp_release_rto_timer, tcp_release_delack_timer, Tsk
<1>3. /\ SameQueue(s, tcp_stop_rto_timer(s))
      /\ tcp_stop_rto_timer(s).state = s.state
      /\ SameQueue(s, tcp_stop_delack_timer(s))
      /\ tcp_stop_delack_timer(s).state = s.state
  BY <1>1 DEF SameQueue, tcp_stop_rto_timer, tcp_stop_delack_timer, Tsk
<1>4. /\ SameQueue(s, tcp_clear_timers(s))
      /\ tcp_clear_timers(s).state = s.state
      /\ SameQueue(s, tcp_rearm_user_timeout(s))
      /\ tcp_rearm_user_timeout(s).state = s.state
  BY <1>1 DEF SameQueue, tcp_clear_timers, tcp_rearm_user_timeout, Tsk
<1> QED
  BY <1>2, <1>3, <1>4

\* Rearming the retransmission timer.
LEMMA RearmRtoQueue ==
    ASSUME NEW s \in Tsk
    PROVE  /\ SameQueue(s, tcp_rearm_rto_timer(s))
           /\ tcp_rearm_rto_timer(s).state = s.state
<1> DEFINE a == tcp_release_rto_timer(s)
<1>1. SameQueue(s, a) /\ a \in Tsk /\ a.state = s.state
  BY TimersQueue DEF SameQueue
<1>2. tcp_rearm_rto_timer(s) \in Tsk
  BY RearmRtoKeeps DEF Keeps
<1>3. tcp_rearm_rto_timer(s) = [a EXCEPT !.retransmit =
         timer_add(IF s.state = "SYN_SENT" THEN "conn" ELSE "rto")]
  BY DEF tcp_rearm_rto_timer
<1> HIDE DEF a
<1> QED
  BY <1>1, <1>2, <1>3 DEF SameQueue, Tsk

\* Waking the application, acknowledging, resetting, measuring.
LEMMA WakingQueue ==
    ASSUME NEW s \in Tsk
    PROVE  /\ SameQueue(s, tcp_recv_notify(s)) /\ tcp_recv_notify(s).state = s.state
           /\ SameQueue(s, tcp_notify_user(s)) /\ tcp_notify_user(s).state = s.state
           /\ SameQueue(s, sock_connected(s)) /\ sock_connected(s).state = s.state
           /\ SameQueue(s, tcp_handle_fin_state(s))
           /\ Edge(s, tcp_handle_fin_state(s))
           /\ SameQueue(s, tcp_send_ack(s)) /\ tcp_send_ack(s).state = s.state
           /\ SameQueue(s, tcp_send_synack(s)) /\ tcp_send_synack(s).state = s.state
           /\ SameQueue(s, tcp_send_reset(s)) /\ tcp_send_reset(s).state = s.state
<1>1. /\ tcp_recv_notify(s) \in Tsk /\ tcp_notify_user(s) \in Tsk
      /\ sock_connected(s) \in Tsk /\ tcp_handle_fin_state(s) \in Tsk
      /\ tcp_send_ack(s) \in Tsk /\ tcp_send_synack(s) \in Tsk
      /\ tcp_send_reset(s) \in Tsk
  BY WakingKeeps, SendAckKeeps, SynackKeeps, ResetKeeps DEF Keeps
<1>2. /\ SameQueue(s, tcp_recv_notify(s)) /\ tcp_recv_notify(s).state = s.state
      /\ SameQueue(s, tcp_notify_user(s)) /\ tcp_notify_user(s).state = s.state
      /\ SameQueue(s, sock_connected(s)) /\ sock_connected(s).state = s.state
  BY <1>1 DEF SameQueue, tcp_recv_notify, tcp_notify_user, sock_connected, Tsk
<1>3. SameQueue(s, tcp_handle_fin_state(s)) /\ Edge(s, tcp_handle_fin_state(s))
  BY <1>1 DEF SameQueue, tcp_handle_fin_state, Edge, StateChanges, Tsk
<1>4. /\ SameQueue(s, tcp_send_ack(s)) /\ tcp_send_ack(s).state = s.state
      /\ SameQueue(s, tcp_send_synack(s)) /\ tcp_send_synack(s).state = s.state
      /\ SameQueue(s, tcp_send_reset(s)) /\ tcp_send_reset(s).state = s.state
  BY <1>1 DEF SameQueue, tcp_send_ack, tcp_send_synack, tcp_send_reset, Tsk
<1> QED
  BY <1>2, <1>3, <1>4

\* tcp_done leaves the write queue to the garbage collector.
LEMMA DoneQueue ==
    ASSUME NEW s \in Tsk
    PROVE  SameQueue(s, tcp_done(s)) /\ tcp_done(s).state = "CLOSING"
<1> DEFINE a == [s EXCEPT !.state = "CLOSING"]
           b == tcp_clear_timers(a)
           c == [b EXCEPT !.ofo = << >>, !.sleep = wait_wakeup(b.sleep)]
<1>1. a \in Tsk /\ a.state = "CLOSING" /\ SameQueue(s, a)
  BY DEF Tsk, TcpStates, SameQueue
<1>2. tcp_done(s) = socket_delete(c)
  BY DEF tcp_done, tcp_free
<1> HIDE DEF a
<1>3. b \in Tsk /\ b.state = "CLOSING" /\ SameQueue(s, b)
  BY <1>1, TimersQueue, SameQueueTransitive DEF SameQueue
<1> HIDE DEF b
<1>4. /\ c.state = "CLOSING" /\ c.wq = s.wq /\ c.inflight = s.inflight
      /\ c.snd_nxt = s.snd_nxt /\ c \in Tsk
  <2>1. wait_wakeup(b.sleep) \in WaitStates /\ << >> \in Seq(ReadSkb)
    BY <1>3, Fields DEF wait_wakeup, WaitStates
  <2> QED
    BY <1>3, <2>1 DEF SameQueue, Tsk
<1> HIDE DEF c
<1>5. /\ socket_delete(c).state = "CLOSING" /\ socket_delete(c).wq = s.wq
      /\ socket_delete(c).inflight = s.inflight
      /\ socket_delete(c).snd_nxt = s.snd_nxt
  BY <1>4 DEF socket_delete, Tsk
<1>6. tcp_done(s) \in Tsk
  BY DoneKeeps
<1> QED
  BY <1>2, <1>5, <1>6 DEF SameQueue

\* TIME_WAIT, an abort and a received reset.
LEMMA EndingQueue ==
    ASSUME NEW s \in Tsk
    PROVE  /\ SameQueue(s, tcp_enter_time_wait(s))
           /\ tcp_enter_time_wait(s).state = "TIME_WAIT"
           /\ SameQueue(s, tcp_abort(s)) /\ tcp_abort(s).state = "CLOSING"
           /\ SameQueue(s, tcp_reset(s)) /\ tcp_reset(s).state = "CLOSING"
<1> DEFINE a == tcp_clear_timers(s)
<1>1. SameQueue(s, a) /\ a \in Tsk
  BY TimersQueue DEF SameQueue
<1>2. /\ tcp_enter_time_wait(s) \in Tsk
      /\ tcp_enter_time_wait(s) =
           [a EXCEPT !.state = "TIME_WAIT", !.linger = timer_add("2msl")]
  BY TimeWaitKeeps DEF Keeps, tcp_enter_time_wait
<1> HIDE DEF a
<1>3. /\ SameQueue(s, tcp_enter_time_wait(s))
      /\ tcp_enter_time_wait(s).state = "TIME_WAIT"
  BY <1>1, <1>2 DEF SameQueue, Tsk
<1>4. SameQueue(s, tcp_abort(s)) /\ tcp_abort(s).state = "CLOSING"
  <2>1. SameQueue(s, tcp_send_reset(s)) /\ tcp_send_reset(s) \in Tsk
    BY WakingQueue DEF SameQueue
  <2> QED
    BY <2>1, DoneQueue, SameQueueTransitive DEF tcp_abort
<1>5. SameQueue(s, tcp_reset(s)) /\ tcp_reset(s).state = "CLOSING"
  <2> DEFINE e == IF s.state = "SYN_SENT" THEN "ECONNREFUSED"
                  ELSE IF s.state = "CLOSE_WAIT" THEN "EPIPE" ELSE "ECONNRESET"
             b == [s EXCEPT !.poll = {"OUT", "ERR", "HUP"}, !.err = e]
  <2>1. e \in Errors /\ {"OUT", "ERR", "HUP"} \in SUBSET PollEvents
    BY DEF Errors, PollEvents
  <2>2. tcp_reset(s) = tcp_done(b)
    BY DEF tcp_reset
  <2> HIDE DEF e
  <2>3. b \in Tsk /\ SameQueue(s, b)
    BY <2>1 DEF Tsk, SameQueue
  <2> HIDE DEF b
  <2> QED
    BY <2>2, <2>3, DoneQueue, SameQueueTransitive
<1> QED
  BY <1>3, <1>4, <1>5

----------------------------------------------------------------------------
(* Counting the transmitted buffers *)

\* They are finitely many, and none when the count is zero.
LEMMA SentFinite ==
    ASSUME NEW w \in Seq(WriteSkb)
    PROVE  /\ IsFiniteSet(Sent(w)) /\ Cardinality(Sent(w)) \in Nat
           /\ Cardinality(Sent(w)) = 0 => Sent(w) = {}
<1>1. Len(w) \in Nat
  OBVIOUS
<1>2. IsFiniteSet(1..Len(w))
  BY <1>1, FS_Interval
<1>3. Sent(w) \in SUBSET (1..Len(w))
  BY DEF Sent
<1>4. IsFiniteSet(Sent(w))
  BY <1>2, <1>3, FS_Subset
<1> QED
  BY <1>4, FS_CardinalityType, FS_EmptySet

\* A buffer put at the end of the queue counts if it has a sequence number.
LEMMA SentAppend ==
    ASSUME NEW w \in Seq(WriteSkb), NEW x \in WriteSkb
    PROVE  /\ x.seq = 0 => Sent(Append(w, x)) = Sent(w)
           /\ x.seq > 0 => Sent(Append(w, x)) = Sent(w) \cup {Len(w) + 1}
<1> DEFINE n == Len(w)
           v == Append(w, x)
<1>1. /\ n \in Nat /\ Len(v) = n + 1 /\ v[n + 1] = x
      /\ \A i \in 1..n : v[i] = w[i]
  OBVIOUS
<1>2. \A i \in 1..n : w[i] \in WriteSkb
  OBVIOUS
<1> HIDE DEF n, v
<1>3. \A i : i \in 1..Len(v) <=> i \in 1..n \/ i = n + 1
  BY <1>1
<1>4. \A i : i \in Sent(v) <=> i \in {j \in 1..n : w[j].seq > 0} \/ (i = n + 1 /\ x.seq > 0)
  BY <1>1, <1>3 DEF Sent
<1>5. Sent(w) = {j \in 1..n : w[j].seq > 0}
  BY DEF Sent, n
<1>6. x.seq = 0 => Sent(v) = Sent(w)
  BY <1>4, <1>5
<1>7. x.seq > 0 => Sent(v) = Sent(w) \cup {n + 1}
  BY <1>4, <1>5
<1> QED
  BY <1>6, <1>7 DEF n, v

\* Buffers without a sequence number, put at the end, do not count.
LEMMA SentConcat ==
    ASSUME NEW w \in Seq(WriteSkb), NEW u \in Seq(WriteSkb),
           \A i \in 1..Len(u) : u[i].seq = 0
    PROVE  Sent(w \o u) = Sent(w)
<1> DEFINE n == Len(w)
           m == Len(u)
           v == w \o u
<1>1. /\ n \in Nat /\ m \in Nat /\ Len(v) = n + m
      /\ \A i \in 1..(n + m) : v[i] = IF i <= n THEN w[i] ELSE u[i - n]
  OBVIOUS
<1>2. \A i \in 1..m : u[i].seq = 0
  OBVIOUS
<1> HIDE DEF n, m, v
<1>3. ASSUME NEW i \in 1..(n + m), i > n PROVE v[i].seq = 0
  <2>1. i - n \in 1..m
    BY <1>1, <1>3
  <2> QED
    BY <1>1, <1>2, <1>3, <2>1
<1>4. \A i : i \in Sent(v) <=> i \in 1..n /\ w[i].seq > 0
  BY <1>1, <1>3 DEF Sent
<1> QED
  BY <1>4 DEF Sent, v, n

\* Taking transmitted buffers off the head lowers the count by as many.
LEMMA SentSuffix ==
    ASSUME NEW w \in Seq(WriteSkb), NEW n \in 0..Len(w), 1..n \subseteq Sent(w)
    PROVE  /\ SubSeq(w, n + 1, Len(w)) \in Seq(WriteSkb)
           /\ Cardinality(Sent(w)) = n + Cardinality(Sent(SubSeq(w, n + 1, Len(w))))
<1> DEFINE m == Len(w) - n
           v == SubSeq(w, n + 1, Len(w))
           T == Sent(w) \ (1..n)
           f == [i \in Sent(v) |-> i + n]
<1>1. /\ m \in Nat /\ Len(w) \in Nat /\ n \in Nat
      /\ v \in Seq(WriteSkb) /\ Len(v) = m
      /\ \A i \in 1..m : v[i] = w[i + n]
  <2>1. Len(w) \in Nat /\ n \in Nat /\ m \in Nat
    OBVIOUS
  <2>2. \A i \in (n + 1)..Len(w) : w[i] \in WriteSkb
    BY <2>1
  <2>3. v \in Seq(WriteSkb) /\ Len(v) = m
    BY <2>1, <2>2, SubSeqProperties
  <2>4. \A i \in 1..m : v[i] = w[i + n]
    BY <2>1, <2>2, SubSeqProperties
  <2> QED
    BY <2>1, <2>3, <2>4
<1> HIDE DEF v
<1>2. \A i : i \in Sent(v) <=> i \in 1..m /\ w[i + n].seq > 0
  BY <1>1 DEF Sent
<1>3. \A j : j \in T <=> j \in (n + 1)..(n + m) /\ w[j].seq > 0
  BY <1>1 DEF Sent
<1> HIDE DEF T
<1>4. f \in Bijection(Sent(v), T)
  <2>1. \A i \in Sent(v) : f[i] = i + n /\ i + n \in T /\ i \in Nat
    BY <1>1, <1>2, <1>3
  <2>2. f \in [Sent(v) -> T]
    BY <2>1
  <2>3. \A i, j \in Sent(v) : f[i] = f[j] => i = j
    BY <1>1, <2>1
  <2>4. \A j \in T : \E i \in Sent(v) : f[i] = j
    <3> SUFFICES ASSUME NEW j \in T PROVE \E i \in Sent(v) : f[i] = j
      OBVIOUS
    <3>1. j - n \in 1..m /\ (j - n) + n = j /\ w[j].seq > 0
      BY <1>1, <1>3
    <3>2. PICK i \in 1..m : i + n = j
      BY <3>1
    <3>3. i \in Sent(v)
      BY <1>2, <3>1, <3>2
    <3> QED
      BY <2>1, <3>2, <3>3
  <2> HIDE DEF f
  <2> QED
    BY <2>2, <2>3, <2>4 DEF Bijection, Injection, Surjection, IsInjective
<1>5. IsFiniteSet(Sent(v)) /\ IsFiniteSet(Sent(w))
  BY <1>1, SentFinite
<1>6. Cardinality(T) = Cardinality(Sent(v))
  BY <1>4, <1>5, FS_Bijection DEF ExistsBijection
<1>7. Cardinality(Sent(w) \ (1..n)) = Cardinality(Sent(w)) - Cardinality(Sent(w) \cap (1..n))
  BY <1>5, FS_Difference
<1>8. Sent(w) \cap (1..n) = 1..n
  OBVIOUS
<1>9. Cardinality(1..n) = n
  BY <1>1, FS_Interval
<1>10. /\ Cardinality(Sent(w)) \in Nat /\ Cardinality(Sent(v)) \in Nat
  BY <1>1, SentFinite
<1>11. Cardinality(Sent(w)) = n + Cardinality(Sent(v))
  <2> DEFINE c == Cardinality(Sent(w))
             d == Cardinality(Sent(v))
  <2>1. c \in Nat /\ d \in Nat /\ d = c - n
    BY <1>6, <1>7, <1>8, <1>9, <1>10 DEF T
  <2> HIDE DEF c, d
  <2>2. c = n + d
    BY <1>1, <2>1
  <2> QED
    BY <2>2 DEF c, d
<1> QED
  BY <1>1, <1>11 DEF v

\* Giving a buffer a sequence number.
LEMMA SentReplace ==
    ASSUME NEW w \in Seq(WriteSkb), NEW i \in 1..Len(w), NEW x \in WriteSkb, x.seq > 0
    PROVE  Sent([w EXCEPT ![i] = x]) = Sent(w) \cup {i}
<1> DEFINE v == [w EXCEPT ![i] = x]
<1>1. /\ Len(v) = Len(w) /\ v[i] = x
      /\ \A j \in 1..Len(w) : j # i => v[j] = w[j]
  OBVIOUS
<1> HIDE DEF v
<1>2. \A j : j \in Sent(v) <=> j \in Sent(w) \cup {i}
  BY <1>1 DEF Sent
<1> QED
  BY <1>2 DEF v

----------------------------------------------------------------------------
(* tcp_output.c *)

\* Putting a segment on the wire.
LEMMA TransmitQueue ==
    ASSUME NEW s \in Tsk, NEW skb \in WriteSkb, NEW seq \in Nat
    PROVE  /\ SameQueue(s, tcp_transmit_skb(s, skb, seq))
           /\ tcp_transmit_skb(s, skb, seq).state = s.state
<1>1. tcp_transmit_skb(s, skb, seq) \in Tsk
  BY TransmitKeeps
<1> DEFINE g == [seq |-> seq, dlen |-> skb.dlen, data |-> skb.data,
                 syn |-> skb.syn, fin |-> skb.fin, rst |-> FALSE,
                 ack |-> ~skb.syn]
           w == s.wire \cup {g}
           n == IF skb.syn THEN s.acked ELSE s.rcv_nxt
<1>2. tcp_transmit_skb(s, skb, seq) = [s EXCEPT !.wire = w, !.acked = n]
  BY DEF tcp_transmit_skb
<1> HIDE DEF w, n
<1> QED
  BY <1>1, <1>2 DEF SameQueue, Tsk

\* A buffer of the write queue gets the sequence number it is sent with.
LEMMA NumberedSeq ==
    ASSUME NEW skb \in WriteSkb, NEW seq \in Nat
    PROVE  /\ Numbered(skb, seq) \in WriteSkb /\ Numbered(skb, seq).seq = seq
           /\ SeqAfter(skb, seq) \in Nat /\ SeqAfter(skb, seq) >= seq
<1>1. Numbered(skb, seq) \in WriteSkb /\ SeqAfter(skb, seq) \in Nat
  BY NumberedTyping
<1>2. Numbered(skb, seq).seq = seq
  BY DEF Numbered, WriteSkb
<1>3. SeqAfter(skb, seq) >= seq
  <2> DEFINE d == skb.dlen
  <2>1. d \in Nat
    BY DEF WriteSkb
  <2>2. SeqAfter(skb, seq) = seq + d + (IF skb.fin THEN 1 ELSE 0)
    BY DEF SeqAfter
  <2> HIDE DEF d
  <2> QED
    BY <2>1, <2>2
<1> QED
  BY <1>1, <1>2, <1>3

\* tcp_queue_transmit_skb counts the buffer it sends, and only that one: it
\* sends only when nothing is in flight.
LEMMA QueueTransmitSend ==
    ASSUME NEW s \in Tsk, SendOK(s), NEW skb \in WriteSkb, skb.seq = 0
    PROVE  /\ SendOK(tcp_queue_transmit_skb(s, skb))
           /\ tcp_queue_transmit_skb(s, skb).state = s.state
           /\ tcp_queue_transmit_skb(s, skb) \in Tsk
<1> DEFINE a == IF s.wq = << >> THEN tcp_rearm_rto_timer(s) ELSE s
           b == tcp_transmit_skb(a, skb, a.snd_nxt)
           k == b.inflight + 1
           n == SeqAfter(skb, a.snd_nxt)
           x == Numbered(skb, a.snd_nxt)
           w == Append(b.wq, x)
           c == [b EXCEPT !.inflight = k, !.snd_nxt = n, !.wq = w]
           v == Append(a.wq, skb)
           d == [a EXCEPT !.wq = v]
<1>1. tcp_queue_transmit_skb(s, skb) = IF a.inflight = 0 THEN c ELSE d
  BY DEF tcp_queue_transmit_skb
<1>2. SameQueue(s, a) /\ a \in Tsk /\ a.state = s.state
  BY RearmRtoQueue DEF SameQueue
<1> HIDE DEF a
<1>3. /\ a.snd_nxt \in Nat /\ a.snd_nxt > 0 /\ a.inflight \in Nat
      /\ a.inflight = Cardinality(Sent(a.wq)) /\ a.wq \in Seq(WriteSkb)
  BY <1>2, Fields DEF SameQueue, SendOK
<1>4. SameQueue(a, b) /\ b \in Tsk /\ b.state = s.state
  BY <1>2, <1>3, TransmitQueue DEF SameQueue
<1> HIDE DEF b
<1>5. x \in WriteSkb /\ x.seq > 0 /\ n \in Nat /\ n > 0
  <2> DEFINE q == a.snd_nxt
  <2>1. q \in Nat /\ q > 0
    BY <1>3
  <2> HIDE DEF q
  <2>2. /\ Numbered(skb, q) \in WriteSkb /\ Numbered(skb, q).seq = q
        /\ SeqAfter(skb, q) \in Nat /\ SeqAfter(skb, q) >= q
    BY <2>1, NumberedSeq
  <2>3. Numbered(skb, q).seq > 0 /\ SeqAfter(skb, q) > 0
    BY <2>1, <2>2
  <2> QED
    BY <2>2, <2>3 DEF q
<1> HIDE DEF x, n
<1>6. CASE a.inflight = 0
  <2>1. b.wq = a.wq /\ k = 1 /\ Sent(a.wq) = {}
    <3>1. b.wq = a.wq /\ b.inflight = 0
      BY <1>4, <1>6 DEF SameQueue
    <3>2. Sent(a.wq) = {}
      BY <1>3, <1>6, SentFinite
    <3> QED
      BY <3>1, <3>2
  <2>2. w \in Seq(WriteSkb) /\ Sent(w) = {Len(a.wq) + 1}
    BY <1>3, <1>5, <2>1, SentAppend
  <2>3. Cardinality(Sent(w)) = 1
    BY <2>2, FS_Singleton
  <2> HIDE DEF w, k
  <2>4. c.wq = w /\ c.inflight = k /\ c.snd_nxt = n /\ c.state = b.state
    BY <1>4 DEF Tsk
  <2> HIDE DEF c
  <2>5. SendOK(c)
    BY <1>5, <2>1, <2>3, <2>4 DEF SendOK
  <2> QED
    BY <1>1, <1>4, <1>6, <2>4, <2>5, QueueTransmitKeeps
<1>7. CASE a.inflight # 0
  <2>1. v \in Seq(WriteSkb) /\ Sent(v) = Sent(a.wq)
    BY <1>3, SentAppend
  <2> HIDE DEF v
  <2>2. /\ d.wq = v /\ d.inflight = a.inflight /\ d.snd_nxt = a.snd_nxt
        /\ d.state = a.state
    BY <1>2 DEF Tsk
  <2> HIDE DEF d
  <2>3. SendOK(d)
    BY <1>3, <2>1, <2>2 DEF SendOK
  <2> QED
    BY <1>1, <1>2, <1>7, <2>2, <2>3, QueueTransmitKeeps
<1> QED
  BY <1>6, <1>7

\* The FIN of close().
LEMMA QueueFinSend ==
    ASSUME NEW s \in Tsk, SendOK(s)
    PROVE  SendOK(tcp_queue_fin(s)) /\ tcp_queue_fin(s).state = s.state
<1> DEFINE skb == [seq |-> 0, end_seq |-> 0, dlen |-> 0, data |-> 0, syn |-> FALSE,
                   fin |-> TRUE]
<1>1. skb \in WriteSkb /\ skb.seq = 0
  BY DEF WriteSkb
<1> HIDE DEF skb
<1>2. tcp_queue_fin(s) = tcp_queue_transmit_skb(s, skb)
  BY DEF tcp_queue_fin, skb
<1> QED
  BY <1>1, <1>2, QueueTransmitSend

\* The SYN of connect(), the first segment of all.
LEMMA ConnectSend ==
    ASSUME NEW s \in Tsk, s = NewSock
    PROVE  SendOK(tcp_connect(s)) /\ tcp_connect(s).state = "SYN_SENT"
<1> DEFINE a == [s EXCEPT !.snd_una = ISS, !.snd_nxt = ISS, !.rcv_nxt = 0,
                          !.state = "SYN_SENT"]
           skb == [seq |-> 0, end_seq |-> 0, dlen |-> 0, data |-> 0,
                   syn |-> TRUE, fin |-> FALSE]
           b == tcp_queue_transmit_skb(a, skb)
           n == b.snd_nxt + 1
<1>1. ISS \in Nat /\ ISS > 0
  BY TcpConstants
<1>2. /\ a \in Tsk /\ a.state = "SYN_SENT" /\ a.snd_nxt = ISS
      /\ a.wq = s.wq /\ a.inflight = s.inflight
  BY <1>1 DEF Tsk, TcpStates
<1>3. tcp_connect(s) = [b EXCEPT !.snd_nxt = n]
  BY DEF tcp_connect
<1>4. s.wq = << >> /\ s.inflight = 0
  BY DEF NewSock
<1> HIDE DEF a
<1>5. Sent(a.wq) = {}
  BY <1>2, <1>4 DEF Sent
<1>6. SendOK(a)
  BY <1>1, <1>2, <1>4, <1>5, FS_EmptySet DEF SendOK
<1>7. skb \in WriteSkb /\ skb.seq = 0
  BY DEF WriteSkb
<1> HIDE DEF skb
<1>8. SendOK(b) /\ b.state = "SYN_SENT" /\ b \in Tsk
  BY <1>2, <1>6, <1>7, QueueTransmitSend
<1> HIDE DEF b
<1>9. n > 0
  BY <1>8, Fields
<1> HIDE DEF n
<1>10. /\ tcp_connect(s).wq = b.wq /\ tcp_connect(s).inflight = b.inflight
       /\ tcp_connect(s).snd_nxt = n /\ tcp_connect(s).state = b.state
  BY <1>3, <1>8 DEF Tsk
<1> QED
  BY <1>8, <1>9, <1>10 DEF SendOK

\* The buffers tcp_send cuts after the first are queued without being sent.
LEMMA SendSend ==
    ASSUME NEW s \in Tsk, SendOK(s), NEW pos \in Nat, NEW len \in Nat \ {0}
    PROVE  SendOK(tcp_send(s, pos, len)) /\ tcp_send(s, pos, len).state = s.state
<1> DEFINE n == (len + SMSS - 1) \div SMSS
           Skb(i) == [seq |-> 0, end_seq |-> 0,
                      dlen |-> MinOf(SMSS, len - (i - 1) * SMSS),
                      data |-> pos + (i - 1) * SMSS,
                      syn |-> FALSE, fin |-> FALSE]
           x == Skb(1)
           first == tcp_queue_transmit_skb(s, x)
           u == [i \in 1..(n - 1) |-> Skb(i + 1)]
           w == first.wq \o u
           b == [first EXCEPT !.wq = w]
<1>1. n \in Nat \ {0} /\ \A i \in 0..n-1 : i * SMSS \in Nat /\ i * SMSS < len
  BY Cutting
<1>2. tcp_send(s, pos, len) = tcp_rearm_user_timeout(b)
  BY DEF tcp_send
<1> HIDE DEF n
<1>3. \A j \in 0..n-1 : MinOf(SMSS, len - j * SMSS) \in Nat /\ pos + j * SMSS \in Nat
  <2> SUFFICES ASSUME NEW j \in 0..n-1
               PROVE MinOf(SMSS, len - j * SMSS) \in Nat /\ pos + j * SMSS \in Nat
    OBVIOUS
  <2> DEFINE d == j * SMSS
  <2>1. d \in Nat /\ d < len /\ SMSS \in Nat
    BY <1>1, TcpConstants
  <2> HIDE DEF d
  <2>2. MinOf(SMSS, len - d) \in Nat /\ pos + d \in Nat
    BY <2>1 DEF MinOf
  <2> QED
    BY <2>2 DEF d
<1>4. \A i \in 1..n : Skb(i) \in WriteSkb /\ Skb(i).seq = 0
  <2> SUFFICES ASSUME NEW i \in 1..n PROVE Skb(i) \in WriteSkb /\ Skb(i).seq = 0
    OBVIOUS
  <2> DEFINE l == MinOf(SMSS, len - (i - 1) * SMSS)
             m == pos + (i - 1) * SMSS
  <2>1. i - 1 \in 0..n-1
    BY <1>1
  <2>2. l \in Nat /\ m \in Nat
    BY <1>3, <2>1
  <2>3. Skb(i) = [seq |-> 0, end_seq |-> 0, dlen |-> l, data |-> m,
                  syn |-> FALSE, fin |-> FALSE]
    OBVIOUS
  <2> HIDE DEF l, m, Skb
  <2> QED
    BY <2>2, <2>3 DEF WriteSkb
<1> HIDE DEF Skb
<1>5. x \in WriteSkb /\ x.seq = 0
  BY <1>1, <1>4
<1> HIDE DEF x
<1>6. SendOK(first) /\ first.state = s.state /\ first \in Tsk
  BY <1>5, QueueTransmitSend
<1> HIDE DEF first
<1>7. first.wq \in Seq(WriteSkb)
  BY <1>6, Fields
<1>8. u \in Seq(WriteSkb) /\ \A i \in 1..Len(u) : u[i].seq = 0
  <2>1. n - 1 \in Nat /\ \A i \in 1..(n - 1) : i + 1 \in 1..n
    BY <1>1
  <2>2. \A i \in 1..(n - 1) : Skb(i + 1) \in WriteSkb /\ Skb(i + 1).seq = 0
    BY <1>4, <2>1
  <2>3. u \in Seq(WriteSkb) /\ Len(u) = n - 1
    BY <2>1, <2>2
  <2> QED
    BY <2>2, <2>3
<1> HIDE DEF u
<1>9. w \in Seq(WriteSkb) /\ Sent(w) = Sent(first.wq)
  BY <1>7, <1>8, SentConcat
<1> HIDE DEF w
<1>10. /\ b \in Tsk /\ b.wq = w /\ b.inflight = first.inflight
       /\ b.snd_nxt = first.snd_nxt /\ b.state = first.state
  BY <1>6, <1>9 DEF Tsk
<1> HIDE DEF b
<1>11. SendOK(b)
  BY <1>6, <1>9, <1>10 DEF SendOK
<1> QED
  BY <1>2, <1>6, <1>10, <1>11, TimersQueue, SameQueueOK

\* One iteration of tcp_send_next sends one more buffer and does not count it.
LEMMA SendQueuedSend ==
    ASSUME NEW s \in Tsk, s.snd_nxt > 0, NEW i \in 1..Len(s.wq)
    PROVE  /\ SendQueued(s, i) \in Tsk
           /\ SendQueued(s, i).snd_nxt > 0
           /\ SendQueued(s, i).inflight = s.inflight
           /\ SendQueued(s, i).state = s.state
           /\ Len(SendQueued(s, i).wq) = Len(s.wq)
           /\ Sent(SendQueued(s, i).wq) = Sent(s.wq) \cup {i}
<1> DEFINE skb == s.wq[i]
           q == s.snd_nxt
           a == tcp_transmit_skb(s, skb, q)
           n == SeqAfter(skb, q)
           x == Numbered(skb, q)
           w == [a.wq EXCEPT ![i] = x]
           t == [a EXCEPT !.snd_nxt = n, !.wq = w]
<1>1. s.wq \in Seq(WriteSkb) /\ q \in Nat /\ q > 0
  BY Fields
<1>2. skb \in WriteSkb
  BY <1>1
<1>3. SendQueued(s, i) = t
  BY DEF SendQueued
<1> HIDE DEF skb
<1>4. SameQueue(s, a) /\ a \in Tsk /\ a.state = s.state
  BY <1>1, <1>2, TransmitQueue DEF SameQueue
<1> HIDE DEF a
<1>5. a.wq = s.wq /\ a.inflight = s.inflight
  BY <1>4 DEF SameQueue
<1>6. x \in WriteSkb /\ x.seq > 0 /\ n \in Nat /\ n > 0
  <2> HIDE DEF q
  <2>1. /\ x \in WriteSkb /\ x.seq = q /\ n \in Nat /\ n >= q
    BY <1>1, <1>2, NumberedSeq
  <2> HIDE DEF x, n
  <2> QED
    BY <1>1, <2>1
<1> HIDE DEF x, n
<1>7. Sent(w) = Sent(s.wq) \cup {i}
  BY <1>1, <1>5, <1>6, SentReplace
<1> HIDE DEF w
<1>8. /\ t.snd_nxt = n /\ t.wq = w /\ t.inflight = a.inflight /\ t.state = a.state
  BY <1>4 DEF Tsk
<1> HIDE DEF t
<1>9. SendQueued(s, i) \in Tsk /\ Len(SendQueued(s, i).wq) = Len(s.wq)
  BY SendQueuedKeeps
<1> QED
  BY <1>3, <1>4, <1>5, <1>6, <1>7, <1>8, <1>9

\* tcp_send_next sends as many buffers as it was asked to.
LEMMA SendNextSend ==
    ASSUME NEW s \in Tsk, s.snd_nxt > 0, Sent(s.wq) = {},
           NEW amount \in 1..3, amount <= Len(s.wq)
    PROVE  /\ tcp_send_next(s, amount) \in Tsk
           /\ tcp_send_next(s, amount).snd_nxt > 0
           /\ tcp_send_next(s, amount).inflight = s.inflight
           /\ tcp_send_next(s, amount).state = s.state
           /\ Sent(tcp_send_next(s, amount).wq) = 1..amount
<1> DEFINE a == SendQueued(s, 1)
           b == IF amount >= 2 THEN SendQueued(a, 2) ELSE a
           c == IF amount >= 3 THEN SendQueued(b, 3) ELSE b
<1>0. s.wq \in Seq(WriteSkb) /\ Len(s.wq) \in Nat
  BY DEF Tsk
<1>1. /\ a \in Tsk /\ a.snd_nxt > 0 /\ a.inflight = s.inflight /\ a.state = s.state
      /\ Len(a.wq) = Len(s.wq) /\ Sent(a.wq) = {1}
  <2>1. 1 \in 1..Len(s.wq) /\ Sent(s.wq) \cup {1} = {1}
    BY <1>0
  <2> QED
    BY <2>1, SendQueuedSend
<1>2. tcp_send_next(s, amount) = c
  BY DEF tcp_send_next
<1> HIDE DEF a
<1>3. /\ b \in Tsk /\ b.snd_nxt > 0 /\ b.inflight = s.inflight /\ b.state = s.state
      /\ Len(b.wq) = Len(s.wq) /\ Sent(b.wq) = 1..(IF amount >= 2 THEN 2 ELSE 1)
  <2>1. CASE amount >= 2
    <3>1. 2 \in 1..Len(a.wq)
      BY <1>0, <1>1, <2>1
    <3>2. b = SendQueued(a, 2)
      BY <2>1
    <3>3. {1} \cup {2} = 1..2
      OBVIOUS
    <3> HIDE DEF b
    <3> QED
      BY <1>1, <2>1, <3>1, <3>2, <3>3, SendQueuedSend
  <2>2. CASE ~(amount >= 2)
    <3>1. {1} = 1..1
      OBVIOUS
    <3> QED
      BY <1>1, <2>2, <3>1
  <2> QED
    BY <2>1, <2>2
<1> HIDE DEF b
<1>4. /\ c \in Tsk /\ c.snd_nxt > 0 /\ c.inflight = s.inflight /\ c.state = s.state
      /\ Sent(c.wq) = 1..amount
  <2>1. CASE amount >= 3
    <3>1. 3 \in 1..Len(b.wq)
      BY <1>0, <1>3, <2>1
    <3>2. c = SendQueued(b, 3)
      BY <2>1
    <3>3. Sent(b.wq) \cup {3} = 1..amount
      BY <1>3, <2>1
    <3> HIDE DEF c
    <3> QED
      BY <1>3, <3>1, <3>2, <3>3, SendQueuedSend
  <2>2. CASE ~(amount >= 3)
    <3>1. amount = IF amount >= 2 THEN 2 ELSE 1
      BY <2>2
    <3> QED
      BY <1>3, <2>2, <3>1
  <2> QED
    BY <2>1, <2>2
<1> QED
  BY <1>2, <1>4

----------------------------------------------------------------------------
(* The handlers of the retransmission timers *)

\* tcp_connect_rto sends the SYN again, or gives up.
LEMMA ConnectRtoQueue ==
    ASSUME NEW s \in Tsk
    PROVE  /\ SameQueue(s, tcp_connect_rto(s))
           /\ \/ tcp_connect_rto(s).state = s.state
              \/ s.state = "SYN_SENT" /\ tcp_connect_rto(s).state = "CLOSING"
<1> DEFINE a == tcp_release_rto_timer(s)
           p == a.poll \cup {"OUT", "ERR", "HUP"}
           b == [a EXCEPT !.err = "ETIMEDOUT", !.poll = p]
           c == tcp_transmit_skb(a, Head(a.wq), a.snd_una)
           k == c.backoff + 1
           d == [c EXCEPT !.backoff = k]
<1>1. SameQueue(s, a) /\ a \in Tsk /\ a.state = s.state
  BY TimersQueue DEF SameQueue
<1>2. tcp_connect_rto(s) =
        IF a.state # "SYN_SENT" THEN a
        ELSE IF a.backoff > TCP_CONN_RETRIES THEN tcp_done(b)
        ELSE IF a.wq = << >> THEN a
        ELSE tcp_rearm_rto_timer(d)
  BY DEF tcp_connect_rto
<1> HIDE DEF a
<1>3. SameQueue(s, tcp_done(b)) /\ tcp_done(b).state = "CLOSING"
  <2>1. p \in SUBSET PollEvents
    BY <1>1, Fields DEF PollEvents
  <2> HIDE DEF p
  <2>2. b \in Tsk /\ SameQueue(a, b)
    BY <1>1, <2>1 DEF Tsk, Errors, SameQueue
  <2> HIDE DEF b
  <2> QED
    BY <1>1, <2>2, DoneQueue, SameQueueTransitive
<1>4. ASSUME a.wq # << >>
      PROVE  /\ SameQueue(s, tcp_rearm_rto_timer(d))
             /\ tcp_rearm_rto_timer(d).state = s.state
  <2>1. Head(a.wq) \in WriteSkb /\ a.snd_una \in Nat
    BY <1>1, <1>4, Fields
  <2>2. SameQueue(a, c) /\ c \in Tsk /\ c.state = s.state
    BY <1>1, <2>1, TransmitQueue DEF SameQueue
  <2> HIDE DEF c
  <2>3. k \in Nat
    BY <2>2, Fields
  <2> HIDE DEF k
  <2>4. SameQueue(c, d) /\ d \in Tsk /\ d.state = s.state
    BY <2>2, <2>3 DEF Tsk, SameQueue
  <2> HIDE DEF d
  <2> QED
    BY <1>1, <2>2, <2>4, RearmRtoQueue, SameQueueTransitive
<1> HIDE DEF b, d
<1> QED
  BY <1>1, <1>2, <1>3, <1>4

\* tcp_retransmission_timeout sends the oldest buffer again, or gives up; a FIN
\* sent again moves a state that had not noticed it.
LEMMA RetransmissionQueue ==
    ASSUME NEW s \in Tsk
    PROVE  /\ SameQueue(s, tcp_retransmission_timeout(s))
           /\ \/ Edge(s, tcp_retransmission_timeout(s))
              \/ tcp_retransmission_timeout(s).state = "CLOSING"
<1> DEFINE a == tcp_release_rto_timer(s)
           b == [a EXCEPT !.backoff = 0]
           c == tcp_transmit_skb(a, Head(a.wq), a.snd_una)
           d == tcp_done(c)
           e == [d EXCEPT !.err = "ETIMEDOUT", !.poll = d.poll \cup {"OUT", "ERR", "HUP"}]
           f == [c EXCEPT !.rto = 2 * c.rto, !.backoff = c.backoff + 1,
                          !.retransmit = timer_add("rto")]
<1>1. SameQueue(s, a) /\ a \in Tsk /\ a.state = s.state
  BY TimersQueue DEF SameQueue
<1>2. tcp_retransmission_timeout(s) =
        IF a.wq = << >> THEN tcp_notify_user(b)
        ELSE IF a.rto > RTO_MAX THEN e
        ELSE IF Head(a.wq).fin THEN tcp_handle_fin_state(f)
        ELSE f
  BY DEF tcp_retransmission_timeout
<1> HIDE DEF a
<1>3. SameQueue(s, tcp_notify_user(b)) /\ tcp_notify_user(b).state = s.state
  <2>1. SameQueue(a, b) /\ b \in Tsk /\ b.state = s.state
    BY <1>1 DEF Tsk, SameQueue
  <2> HIDE DEF b
  <2> QED
    BY <1>1, <2>1, WakingQueue, SameQueueTransitive
<1>4. ASSUME a.wq # << >>
      PROVE  /\ SameQueue(s, e) /\ e.state = "CLOSING"
             /\ SameQueue(s, f) /\ f \in Tsk /\ f.state = s.state
  <2>1. Head(a.wq) \in WriteSkb /\ a.snd_una \in Nat
    BY <1>1, <1>4, Fields
  <2>2. SameQueue(a, c) /\ c \in Tsk /\ c.state = s.state
    BY <1>1, <2>1, TransmitQueue DEF SameQueue
  <2> HIDE DEF c
  <2>3. SameQueue(c, d) /\ d \in Tsk /\ d.state = "CLOSING"
    BY <2>2, DoneQueue DEF SameQueue
  <2> HIDE DEF d
  <2>4. SameQueue(d, e) /\ e.state = "CLOSING"
    <3> DEFINE p == d.poll \cup {"OUT", "ERR", "HUP"}
    <3>1. p \in SUBSET PollEvents
      BY <2>3, Fields DEF PollEvents
    <3> HIDE DEF p
    <3>2. e = [d EXCEPT !.err = "ETIMEDOUT", !.poll = p]
      BY DEF p
    <3> HIDE DEF e
    <3> QED
      BY <2>3, <3>1, <3>2 DEF Tsk, Errors, SameQueue
  <2>5. SameQueue(c, f) /\ f \in Tsk /\ f.state = s.state
    <3> DEFINE r == 2 * c.rto
               k == c.backoff + 1
               g == timer_add("rto")
    <3>1. r \in Nat /\ k \in Nat /\ g \in TimerSlot
      BY <2>2, Fields, SlotTyping DEF TimerKinds
    <3> HIDE DEF r, k, g
    <3>2. f = [c EXCEPT !.rto = r, !.backoff = k, !.retransmit = g]
      BY DEF r, k, g
    <3> HIDE DEF f
    <3> QED
      BY <2>2, <3>1, <3>2 DEF Tsk, SameQueue
  <2> HIDE DEF e, f
  <2> QED
    BY <1>1, <2>2, <2>3, <2>4, <2>5, SameQueueTransitive
<1> HIDE DEF e, f
<1>5. ASSUME a.wq # << >>
      PROVE  /\ SameQueue(s, tcp_handle_fin_state(f))
             /\ Edge(s, tcp_handle_fin_state(f)) /\ Edge(s, f)
  BY <1>4, <1>5, WakingQueue, SameQueueTransitive DEF Edge
<1>6. Edge(s, tcp_notify_user(b))
  BY <1>3 DEF Edge
<1> QED
  BY <1>2, <1>3, <1>4, <1>5, <1>6

\* tcp_send_delack.
LEMMA SendDelackQueue ==
    ASSUME NEW s \in Tsk
    PROVE  SameQueue(s, tcp_send_delack(s)) /\ tcp_send_delack(s).state = s.state
<1> DEFINE a == [s EXCEPT !.delacks = 0]
           b == tcp_release_delack_timer(a)
<1>1. SameQueue(s, a) /\ a \in Tsk /\ a.state = s.state
  BY DEF SameQueue, Tsk
<1>2. tcp_send_delack(s) = tcp_send_ack(b)
  BY DEF tcp_send_delack
<1> HIDE DEF a
<1>3. SameQueue(a, b) /\ b \in Tsk /\ b.state = s.state
  BY <1>1, TimersQueue DEF SameQueue
<1> HIDE DEF b
<1> QED
  BY <1>1, <1>2, <1>3, WakingQueue, SameQueueTransitive

----------------------------------------------------------------------------
(* tcp_input.c *)

\* tcp_clean_rto_queue takes as many off the count as off the queue: it takes
\* only transmitted buffers.
LEMMA CleanSend ==
    ASSUME NEW s \in Tsk, SendOK(s), NEW una \in Nat
    PROVE  /\ SendOK(tcp_clean_rto_queue(s, una))
           /\ tcp_clean_rto_queue(s, una) \in Tsk
           /\ tcp_clean_rto_queue(s, una).state = s.state
<1> DEFINE S == {j \in 1..Len(s.wq) : s.wq[j].seq > 0 /\ s.wq[j].end_seq <= una}
           n == Leading(Len(s.wq), S)
           w == SubSeq(s.wq, n + 1, Len(s.wq))
           k == IF s.inflight > n THEN s.inflight - n ELSE 0
           a == [s EXCEPT !.wq = w, !.inflight = k]
<1>1. s.wq \in Seq(WriteSkb) /\ Len(s.wq) \in Nat /\ s.inflight \in Nat
  BY Fields
<1>2. n \in 0..Len(s.wq) /\ 1..n \subseteq S
  BY <1>1, LeadingSpec
<1>3. tcp_clean_rto_queue(s, una) =
        IF a.wq = << >> \/ a.inflight = 0 THEN tcp_stop_rto_timer(a) ELSE a
  BY DEF tcp_clean_rto_queue
<1> HIDE DEF n
<1>4. 1..n \subseteq Sent(s.wq)
  BY <1>2 DEF Sent
<1>5. w \in Seq(WriteSkb) /\ Cardinality(Sent(s.wq)) = n + Cardinality(Sent(w))
  BY <1>1, <1>2, <1>4, SentSuffix
<1>6. Cardinality(Sent(w)) \in Nat
  BY <1>5, SentFinite
<1> HIDE DEF w
<1>7. k = Cardinality(Sent(w)) /\ k \in Nat
  <2> DEFINE c == Cardinality(Sent(w))
             i == s.inflight
  <2>1. c \in Nat /\ i = n + c /\ n \in Nat
    BY <1>2, <1>5, <1>6 DEF SendOK
  <2> HIDE DEF c, i
  <2>2. (IF i > n THEN i - n ELSE 0) = c
    BY <2>1
  <2> QED
    BY <2>1, <2>2 DEF c, i
<1> HIDE DEF k
<1>8. /\ a \in Tsk /\ a.wq = w /\ a.inflight = k /\ a.snd_nxt = s.snd_nxt
      /\ a.state = s.state
  BY <1>5, <1>7 DEF Tsk
<1> HIDE DEF a
<1>9. SendOK(a)
  BY <1>7, <1>8 DEF SendOK
<1> QED
  BY <1>3, <1>8, <1>9, TimersQueue, SameQueueOK, CleanKeeps

\* A segment in SYN_SENT.
LEMMA SynsentSend ==
    ASSUME NEW s \in Tsk, SendOK(s), s.state = "SYN_SENT", NEW th \in InSegment
    PROVE  /\ SendOK(tcp_synsent(s, th))
           /\ Edge(s, tcp_synsent(s, th)) /\ tcp_synsent(s, th).state # "CLOSE"
<1> DEFINE m == th.seq + 1
           a == [s EXCEPT !.rcv_nxt = m]
           u == th.ack_seq
           a2 == [a EXCEPT !.snd_una = u]
           b == IF th.ack THEN tcp_clean_rto_queue(a2, u) ELSE a
           v == b.snd_nxt
           r == RTO_INIT
           c == [b EXCEPT !.state = "ESTABLISHED", !.snd_una = v,
                          !.backoff = 0, !.rto = r]
           c1 == tcp_send_ack(c)
           c2 == tcp_rearm_user_timeout(c1)
           d == sock_connected(c2)
           i == ISS
           e == [b EXCEPT !.state = "SYN_RECEIVED", !.snd_una = i]
           f == tcp_send_synack(e)
<1>1. m \in Nat /\ u \in Nat /\ r \in Nat /\ i \in Nat
  BY TcpConstants DEF InSegment
<1>2. \/ tcp_synsent(s, th) = s
      \/ tcp_synsent(s, th) = tcp_reset(s)
      \/ tcp_synsent(s, th) = d
      \/ tcp_synsent(s, th) = f
  BY DEF tcp_synsent
<1> HIDE DEF m, u, r, i
<1>3. SameQueue(s, a) /\ a \in Tsk
  BY <1>1 DEF Tsk, SameQueue
<1> HIDE DEF a
<1>4. SameQueue(a, a2) /\ a2 \in Tsk
  BY <1>1, <1>3 DEF Tsk, SameQueue
<1> HIDE DEF a2
<1>5. SendOK(b) /\ b \in Tsk
  BY <1>1, <1>3, <1>4, SameQueueOK, CleanSend
<1> HIDE DEF b
<1>6. v \in Nat
  BY <1>5, Fields
<1> HIDE DEF v
<1>7. SameQueue(b, c) /\ c \in Tsk /\ c.state = "ESTABLISHED"
  BY <1>1, <1>5, <1>6 DEF Tsk, SameQueue, TcpStates
<1>8. SameQueue(b, e) /\ e \in Tsk /\ e.state = "SYN_RECEIVED"
  BY <1>1, <1>5 DEF Tsk, SameQueue, TcpStates
<1> HIDE DEF c, e
<1>9. SameQueue(c, c1) /\ c1 \in Tsk /\ c1.state = "ESTABLISHED"
  BY <1>7, WakingQueue DEF SameQueue
<1> HIDE DEF c1
<1>10. SameQueue(c1, c2) /\ c2 \in Tsk /\ c2.state = "ESTABLISHED"
  BY <1>9, TimersQueue DEF SameQueue
<1> HIDE DEF c2
<1>11. SameQueue(c2, d) /\ d.state = "ESTABLISHED"
  BY <1>10, WakingQueue
<1> HIDE DEF d
<1>12. SendOK(d) /\ Edge(s, d)
  BY <1>5, <1>7, <1>9, <1>10, <1>11, SameQueueOK DEF Edge, StateChanges
<1>13. SendOK(f) /\ f.state = "SYN_RECEIVED"
  BY <1>5, <1>8, WakingQueue, SameQueueOK
<1> HIDE DEF f
<1>14. Edge(s, f)
  BY <1>13 DEF Edge, StateChanges
<1>15. SendOK(tcp_reset(s)) /\ tcp_reset(s).state = "CLOSING"
  BY EndingQueue, SameQueueOK
<1>16. Edge(s, tcp_reset(s)) /\ Edge(s, s)
  BY <1>15 DEF Edge, StateChanges
<1> QED
  BY <1>2, <1>11, <1>12, <1>13, <1>14, <1>15, <1>16

\* The ACK of a segment.
LEMMA ProcessAckSend ==
    ASSUME NEW s \in Tsk, SendOK(s), NEW th \in InSegment, NEW r \in Nat
    PROVE  SendOK(ProcessAck(s, th, r)) /\ ProcessAck(s, th, r) \in Tsk
<1> DEFINE a == IF s.state = "SYN_RECEIVED"
                THEN [s EXCEPT !.state = "ESTABLISHED"] ELSE s
           u == th.ack_seq
           b == [a EXCEPT !.snd_una = u]
           c == tcp_rtt(b, r)
           d == tcp_clean_rto_queue(c, u)
<1>1. u \in Nat
  BY DEF InSegment
<1>2. ProcessAck(s, th, r) = a \/ ProcessAck(s, th, r) = d
  BY DEF ProcessAck
<1> HIDE DEF u
<1>3. SameQueue(s, a) /\ a \in Tsk
  BY DEF Tsk, TcpStates, SameQueue
<1> HIDE DEF a
<1>4. SameQueue(a, b) /\ b \in Tsk
  BY <1>1, <1>3 DEF SameQueue, Tsk
<1> HIDE DEF b
<1>5. SameQueue(b, c) /\ c \in Tsk
  BY <1>4 DEF tcp_rtt, SameQueue, Tsk
<1> HIDE DEF c
<1>6. SendOK(c) /\ SendOK(a)
  BY <1>3, <1>4, <1>5, SameQueueOK
<1>7. SendOK(d) /\ d \in Tsk
  BY <1>1, <1>5, <1>6, CleanSend
<1> QED
  BY <1>2, <1>3, <1>6, <1>7

\* The closing handshake on an empty write queue.
LEMMA QueueEmptiedSend ==
    ASSUME NEW s \in Tsk, NEW th \in InSegment
    PROVE  /\ SameQueue(s, QueueEmptied(s, th))
           /\ \/ QueueEmptied(s, th).state = s.state
              \/ s.state = "FIN_WAIT_1" /\ QueueEmptied(s, th).state = "FIN_WAIT_2"
              \/ s.state = "CLOSING" /\ QueueEmptied(s, th).state = "TIME_WAIT"
<1> DEFINE a == [s EXCEPT !.state = "FIN_WAIT_2"]
           b == [s EXCEPT !.state = "TIME_WAIT"]
           c == [s EXCEPT !.fin = TRUE]
<1>1. SameQueue(s, a) /\ a.state = "FIN_WAIT_2" /\ SameQueue(s, b) /\ b.state = "TIME_WAIT"
  BY DEF SameQueue, Tsk, TcpStates
<1>2. SameQueue(s, c) /\ c \in Tsk /\ c.state = s.state
  BY DEF SameQueue, Tsk
<1>3. \/ QueueEmptied(s, th) = s
      \/ QueueEmptied(s, th) = a /\ s.state = "FIN_WAIT_1"
      \/ QueueEmptied(s, th) = b /\ s.state = "CLOSING"
      \/ QueueEmptied(s, th) = tcp_send_ack(c)
  BY DEF QueueEmptied
<1> HIDE DEF a, b, c
<1>4. SameQueue(s, tcp_send_ack(c)) /\ tcp_send_ack(c).state = s.state
  BY <1>2, WakingQueue, SameQueueTransitive
<1>5. SameQueue(s, s)
  BY DEF SameQueue
<1> QED
  BY <1>1, <1>3, <1>4, <1>5

\* The payload of a segment.
LEMMA ProcessTextQueue ==
    ASSUME NEW s \in Tsk, NEW th \in InSegment
    PROVE  /\ SameQueue(s, ProcessText(s, th))
           /\ ProcessText(s, th).state = s.state
<1> DEFINE skb == [seq |-> th.seq, dlen |-> th.dlen, data |-> th.data, psh |-> th.psh]
           m == s.rcv_nxt + th.dlen
           q == Append(s.rq, skb)
           a == [s EXCEPT !.rcv_nxt = m, !.rq = q]
           b == tcp_consume_ofo_queue(a)
           p == b.poll \cup {"IN"}
           c == [b EXCEPT !.poll = p]
           o == tcp_data_insert_ordered(s.ofo, skb)
           d == [s EXCEPT !.ofo = o]
<1>1. /\ s.rcv_nxt \in Nat /\ s.rq \in Seq(ReadSkb) /\ s.ofo \in Seq(ReadSkb)
      /\ th.dlen \in Nat
  BY Fields DEF InSegment
<1>2. skb \in ReadSkb
  BY DEF ReadSkb, InSegment
<1>3. tcp_data_queue(s, th) =
        IF th.seq = s.rcv_nxt THEN tcp_recv_notify(c) ELSE tcp_send_ack(d)
  BY DEF tcp_data_queue
<1> HIDE DEF skb
<1>4. m \in Nat /\ q \in Seq(ReadSkb) /\ o \in Seq(ReadSkb)
  BY <1>1, <1>2, InsertOrdered
<1> HIDE DEF m, q, o
<1>5. a \in Tsk /\ SameQueue(s, a) /\ a.state = s.state
  BY <1>4 DEF Tsk, SameQueue
<1> HIDE DEF a
<1>6. b \in Tsk /\ SameQueue(a, b) /\ b.state = s.state
  <2>1. b \in Tsk /\ b.state = a.state
    BY <1>5, ConsumeEffect
  <2>2. b = a \/ \E x, y, z : b = [a EXCEPT !.rcv_nxt = x, !.rq = y, !.ofo = z]
    BY DEF tcp_consume_ofo_queue
  <2> HIDE DEF b
  <2> QED
    BY <1>5, <2>1, <2>2 DEF SameQueue, Tsk
<1> HIDE DEF b
<1>7. p \in SUBSET PollEvents
  BY <1>6, Fields DEF PollEvents
<1> HIDE DEF p
<1>8. c \in Tsk /\ SameQueue(b, c) /\ c.state = s.state
  BY <1>6, <1>7 DEF Tsk, SameQueue
<1> HIDE DEF c
<1>9. d \in Tsk /\ SameQueue(s, d) /\ d.state = s.state
  BY <1>4 DEF Tsk, SameQueue
<1> HIDE DEF d
<1>10. SameQueue(s, tcp_data_queue(s, th)) /\ tcp_data_queue(s, th).state = s.state
  BY <1>3, <1>5, <1>6, <1>8, <1>9, WakingQueue, SameQueueTransitive
<1>11. SameQueue(s, s)
  BY DEF SameQueue
<1> QED
  BY <1>10, <1>11 DEF ProcessText

\* The FIN of the peer.
LEMMA ProcessFinSend ==
    ASSUME NEW s \in Tsk, NEW th \in InSegment, NEW expected \in BOOLEAN
    PROVE  /\ SameQueue(s, ProcessFin(s, th, expected))
           /\ \/ ProcessFin(s, th, expected).state = s.state
              \/ s.state = "ESTABLISHED" /\ ProcessFin(s, th, expected).state = "CLOSE_WAIT"
              \/ /\ s.state = "FIN_WAIT_1"
                 /\ ProcessFin(s, th, expected).state \in {"CLOSING", "TIME_WAIT"}
              \/ s.state = "FIN_WAIT_2" /\ ProcessFin(s, th, expected).state = "TIME_WAIT"
<1> DEFINE n == s.rcv_nxt + 1
           p == s.poll \cup {"IN"}
           a == [s EXCEPT !.rcv_nxt = n, !.fin = TRUE, !.poll = p]
           b == tcp_send_ack(a)
           c == tcp_recv_notify(b)
           d == tcp_enter_time_wait(c)
           cw == [c EXCEPT !.state = "CLOSE_WAIT"]
           cl == [c EXCEPT !.state = "CLOSING"]
<1>1. n \in Nat /\ p \in SUBSET PollEvents
  BY Fields DEF PollEvents
<1>2. \/ ProcessFin(s, th, expected) = s
      \/ ProcessFin(s, th, expected) = cw /\ s.state = "ESTABLISHED"
      \/ ProcessFin(s, th, expected) = cl /\ s.state = "FIN_WAIT_1"
      \/ ProcessFin(s, th, expected) = d /\ s.state \in {"FIN_WAIT_1", "FIN_WAIT_2"}
      \/ ProcessFin(s, th, expected) = c
  BY DEF ProcessFin
<1> HIDE DEF n, p
<1>3. a \in Tsk /\ SameQueue(s, a) /\ a.state = s.state
  BY <1>1 DEF Tsk, SameQueue
<1> HIDE DEF a
<1>4. b \in Tsk /\ SameQueue(a, b) /\ b.state = s.state
  BY <1>3, WakingQueue DEF SameQueue
<1> HIDE DEF b
<1>5. c \in Tsk /\ SameQueue(b, c) /\ c.state = s.state
  BY <1>4, WakingQueue DEF SameQueue
<1> HIDE DEF c
<1>6. /\ SameQueue(c, cw) /\ cw.state = "CLOSE_WAIT"
      /\ SameQueue(c, cl) /\ cl.state = "CLOSING"
  BY <1>5 DEF Tsk, SameQueue, TcpStates
<1>7. SameQueue(c, d) /\ d.state = "TIME_WAIT"
  BY <1>5, EndingQueue
<1> HIDE DEF d, cw, cl
<1>8. SameQueue(s, c) /\ SameQueue(s, cw) /\ SameQueue(s, cl) /\ SameQueue(s, d)
  BY <1>3, <1>4, <1>5, <1>6, <1>7, SameQueueTransitive
<1>9. SameQueue(s, s)
  BY DEF SameQueue
<1> QED
  BY <1>2, <1>5, <1>6, <1>7, <1>8, <1>9

\* The next flight goes out only when nothing is in flight, and is counted.
LEMMA SendMoreSend ==
    ASSUME NEW s \in Tsk, SendOK(s), NEW th \in InSegment, NEW expected \in BOOLEAN
    PROVE  /\ SendOK(SendMoreOrAck(s, th, expected))
           /\ SendMoreOrAck(s, th, expected).state = s.state
<1> DEFINE a == tcp_stop_delack_timer(s)
           pending == MinOf(Len(a.wq), 3)
           big == th.dlen > DELACK_LEN
           n == a.delacks + 1
           b == [a EXCEPT !.delacks = n]
           c == IF big /\ ~th.psh THEN b ELSE a
           d == tcp_send_next(a, pending)
           k == d.inflight + pending
           e == [d EXCEPT !.inflight = k]
           f == [c EXCEPT !.delacks = 0]
           g == [c EXCEPT !.delack = timer_add("delack")]
<1>1. \/ SendMoreOrAck(s, th, expected) = s
      \/ /\ pending > 0 /\ a.inflight = 0
         /\ SendMoreOrAck(s, th, expected) = tcp_rearm_rto_timer(e)
      \/ SendMoreOrAck(s, th, expected) = tcp_send_ack(f)
      \/ SendMoreOrAck(s, th, expected) = g
      \/ SendMoreOrAck(s, th, expected) = c
  BY DEF SendMoreOrAck
<1>2. SameQueue(s, a) /\ a \in Tsk /\ a.state = s.state
  BY TimersQueue DEF SameQueue
<1> HIDE DEF a
<1>3. SendOK(a)
  BY <1>2, SameQueueOK
<1>4. pending \in 0..3 /\ pending <= Len(a.wq)
  <2> DEFINE l == Len(a.wq)
  <2>1. l \in Nat
    BY <1>2, Fields
  <2>2. pending = IF l <= 3 THEN l ELSE 3
    BY DEF MinOf
  <2> HIDE DEF l, pending
  <2>3. pending \in 0..3 /\ pending <= l
    BY <2>1, <2>2
  <2> QED
    BY <2>3 DEF l
<1>5. n \in Nat
  BY <1>2, Fields
<1> HIDE DEF pending, big, n
<1>6. SameQueue(a, c) /\ c \in Tsk /\ c.state = s.state
  <2>1. SameQueue(a, b) /\ b.state = s.state
    BY <1>2, <1>5 DEF SameQueue, Tsk
  <2>2. SameQueue(a, a)
    BY <1>2 DEF SameQueue
  <2> HIDE DEF b
  <2> QED
    BY <1>2, <2>1, <2>2 DEF SameQueue
<1> HIDE DEF c
<1>7. ASSUME pending > 0, a.inflight = 0
      PROVE  SendOK(tcp_rearm_rto_timer(e)) /\ tcp_rearm_rto_timer(e).state = s.state
  <2>1. pending \in 1..3
    BY <1>4, <1>7
  <2>2. a.wq \in Seq(WriteSkb) /\ a.snd_nxt > 0
    BY <1>2, <1>3, Fields DEF SendOK
  <2>3. Sent(a.wq) = {}
    <3>1. Cardinality(Sent(a.wq)) = 0
      BY <1>3, <1>7 DEF SendOK
    <3> QED
      BY <2>2, <3>1, SentFinite
  <2>4. /\ d \in Tsk /\ d.snd_nxt > 0 /\ d.inflight = 0 /\ d.state = s.state
        /\ Sent(d.wq) = 1..pending
    BY <1>2, <1>4, <1>7, <2>1, <2>2, <2>3, SendNextSend
  <2> HIDE DEF d
  <2>5. k = pending /\ k \in Nat
    <3>1. d.inflight = 0
      BY <2>4
    <3> QED
      BY <2>1, <3>1
  <2>6. Cardinality(1..pending) = pending
    <3>1. pending \in Int /\ 1 \in Int /\ ~(1 > pending) /\ pending - 1 + 1 = pending
      BY <2>1
    <3> QED
      BY <3>1, FS_Interval
  <2> HIDE DEF k
  <2>7. /\ e \in Tsk /\ e.wq = d.wq /\ e.inflight = k /\ e.snd_nxt = d.snd_nxt
        /\ e.state = d.state
    BY <2>4, <2>5 DEF Tsk
  <2> HIDE DEF e
  <2>8. SendOK(e)
    BY <2>4, <2>5, <2>6, <2>7 DEF SendOK
  <2> QED
    BY <2>4, <2>7, <2>8, RearmRtoQueue, SameQueueOK
<1>8. SendOK(tcp_send_ack(f)) /\ tcp_send_ack(f).state = s.state
  <2>1. SameQueue(c, f) /\ f \in Tsk /\ f.state = s.state
    BY <1>6 DEF SameQueue, Tsk
  <2> HIDE DEF f
  <2> QED
    BY <1>3, <1>6, <2>1, WakingQueue, SameQueueOK
<1>9. SendOK(g) /\ g.state = s.state
  <2>1. timer_add("delack") \in TimerSlot
    BY SlotTyping DEF TimerKinds
  <2>2. SameQueue(c, g) /\ g.state = s.state
    BY <1>6, <2>1 DEF SameQueue, Tsk
  <2> HIDE DEF g
  <2> QED
    BY <1>3, <1>6, <2>2, SameQueueOK
<1>10. SendOK(c) /\ c.state = s.state
  BY <1>3, <1>6, SameQueueOK
<1> HIDE DEF e, f, g
<1> QED
  BY <1>1, <1>7, <1>8, <1>9, <1>10

\* A whole segment: its ACK, the closing handshake, its text, its FIN, and
\* what is sent in answer.
LEMMA SegmentSend ==
    ASSUME NEW s \in Tsk, SendOK(s), NEW th \in InSegment, NEW r \in Nat,
           s.state \notin Before
    PROVE  LET a == ProcessAck(s, th, r) IN
           /\ SendOK(tcp_done(a)) /\ SendOK(ProcessRest(a, th))
           /\ a.state = "LAST_ACK" => Edge(s, tcp_done(a))
           /\ Edge(s, ProcessRest(a, th))
           /\ tcp_done(a).state # "CLOSE" /\ ProcessRest(a, th).state # "CLOSE"
<1> DEFINE a == ProcessAck(s, th, r)
           b == QueueEmptied(a, th)
           expected == th.seq = b.rcv_nxt
           c == ProcessText(b, th)
           d == ProcessFin(c, th, expected)
           e == SendMoreOrAck(d, th, expected)
<1>1. /\ SendOK(a) /\ a \in Tsk
      /\ a.state = IF s.state = "SYN_RECEIVED" THEN "ESTABLISHED" ELSE s.state
  BY ProcessAckSend, ProcessAckKeeps
<1>2. ProcessRest(a, th) = e
  BY DEF ProcessRest
<1> HIDE DEF a
<1>3. SendOK(tcp_done(a)) /\ tcp_done(a).state = "CLOSING"
  BY <1>1, DoneQueue, SameQueueOK
<1>4. a.state = "LAST_ACK" => Edge(s, tcp_done(a))
  BY <1>1, <1>3 DEF Edge, StateChanges
<1>5. /\ SameQueue(a, b) /\ b \in Tsk
      /\ \/ b.state = a.state
         \/ a.state = "FIN_WAIT_1" /\ b.state = "FIN_WAIT_2"
         \/ a.state = "CLOSING" /\ b.state = "TIME_WAIT"
  BY <1>1, QueueEmptiedSend DEF SameQueue
<1> HIDE DEF b
<1>6. SameQueue(b, c) /\ c \in Tsk /\ c.state = b.state
  BY <1>5, ProcessTextQueue DEF SameQueue
<1> HIDE DEF c
<1>7. expected \in BOOLEAN
  OBVIOUS
<1> HIDE DEF expected
<1>8. /\ SameQueue(c, d) /\ d \in Tsk
      /\ \/ d.state = c.state
         \/ c.state = "ESTABLISHED" /\ d.state = "CLOSE_WAIT"
         \/ c.state = "FIN_WAIT_1" /\ d.state \in {"CLOSING", "TIME_WAIT"}
         \/ c.state = "FIN_WAIT_2" /\ d.state = "TIME_WAIT"
  BY <1>6, <1>7, ProcessFinSend DEF SameQueue
<1> HIDE DEF d
<1>9. SendOK(d)
  BY <1>1, <1>5, <1>6, <1>8, SameQueueOK
<1>10. SendOK(e) /\ e.state = d.state
  BY <1>7, <1>8, <1>9, SendMoreSend
<1> HIDE DEF e
<1>11. Edge(s, e) /\ e.state # "CLOSE"
  BY <1>1, <1>5, <1>6, <1>8, <1>10, Fields DEF Edge, StateChanges, Before, TcpStates
<1>12. /\ SendOK(tcp_done(a)) /\ SendOK(ProcessRest(a, th))
       /\ a.state = "LAST_ACK" => Edge(s, tcp_done(a))
       /\ Edge(s, ProcessRest(a, th))
       /\ tcp_done(a).state # "CLOSE" /\ ProcessRest(a, th).state # "CLOSE"
  BY <1>2, <1>3, <1>4, <1>10, <1>11
<1> QED
  BY <1>12 DEF a

----------------------------------------------------------------------------
(* The actions *)

\* Once connect() has been called the sending side is in order, and the socket
\* never goes back to CLOSE.
ConnInv ==
    /\ TypeInv
    /\ app.pc # "start" => SendOK(tsk) /\ tsk.state # "CLOSE"

\* What every step preserves, and where it may lead.
GoodStep == SendOK(tsk') /\ tsk'.state # "CLOSE" /\ Edge(tsk, tsk')

\* connect() and its return.
LEMMA ConnectGood ==
    ASSUME ConnInv, Connect \/ ConnectWoken \/ ConnectFree
    PROVE  GoodStep
<1>1. tsk \in Tsk /\ app \in AppType
  BY DEF ConnInv, TypeInv, TypeOK
<1>2. CASE Connect
  <2> DEFINE a == tcp_connect(tsk)
             w == IF app.nonblock THEN "idle" ELSE "asleep"
  <2>1. tsk = NewSock
    BY <1>2 DEF ConnInv, TypeInv, Fresh, Connect
  <2>2. tsk.state = "CLOSE"
    BY <2>1 DEF NewSock
  <2>3. SendOK(a) /\ a.state = "SYN_SENT" /\ a \in Tsk
    BY <1>1, <2>1, <2>2, ConnectSend, ConnectKeeps
  <2>4. tsk' = [a EXCEPT !.ss = "CONNECTING", !.err = "EINPROGRESS", !.sleep = w]
    BY <1>2 DEF Connect
  <2> HIDE DEF a, w
  <2>5. /\ tsk'.wq = a.wq /\ tsk'.inflight = a.inflight /\ tsk'.snd_nxt = a.snd_nxt
        /\ tsk'.state = "SYN_SENT"
    BY <2>3, <2>4 DEF Tsk
  <2> QED
    BY <2>2, <2>3, <2>5 DEF GoodStep, SendOK, Edge, StateChanges
<1>3. CASE ConnectWoken
  <2> DEFINE c == IF tsk.err = "0" THEN "CONNECTED" ELSE tsk.ss
  <2>1. tsk' = [tsk EXCEPT !.sleep = "idle", !.ss = c] /\ app.pc # "start"
    BY <1>3 DEF ConnectWoken
  <2> HIDE DEF c
  <2>2. /\ tsk'.wq = tsk.wq /\ tsk'.inflight = tsk.inflight
        /\ tsk'.snd_nxt = tsk.snd_nxt /\ tsk'.state = tsk.state
    BY <1>1, <2>1 DEF Tsk
  <2> QED
    BY <2>1, <2>2 DEF ConnInv, GoodStep, SendOK, Edge
<1>4. CASE ConnectFree
  <2>1. tsk' = [tsk EXCEPT !.freed = TRUE] /\ app.pc # "start"
    BY <1>4 DEF ConnectFree
  <2>2. /\ tsk'.wq = tsk.wq /\ tsk'.inflight = tsk.inflight
        /\ tsk'.snd_nxt = tsk.snd_nxt /\ tsk'.state = tsk.state
    BY <1>1, <2>1 DEF Tsk
  <2> QED
    BY <2>1, <2>2 DEF ConnInv, GoodStep, SendOK, Edge
<1> QED
  BY <1>2, <1>3, <1>4

\* write() and close().
LEMMA WriteCloseGood ==
    ASSUME ConnInv, (\E len \in WriteSizes : Write(len)) \/ Close
    PROVE  GoodStep
<1>1. tsk \in Tsk /\ wrote \in Nat
  BY DEF ConnInv, TypeInv, TypeOK
<1>2. SendOK(tsk) /\ tsk.state # "CLOSE"
  BY DEF ConnInv, Write, Close
<1>3. ASSUME NEW len \in WriteSizes, Write(len) PROVE GoodStep
  <2>1. len \in Nat \ {0} /\ wrote + 1 \in Nat
    BY <1>1, TcpRunConstants
  <2>2. tsk' = tcp_send(tsk, wrote + 1, len)
    BY <1>3 DEF Write
  <2> QED
    BY <1>1, <1>2, <2>1, <2>2, SendSend DEF GoodStep, Edge
<1>4. CASE Close
  <2> DEFINE a == [tsk EXCEPT !.state = "FIN_WAIT_1"]
             b == [tsk EXCEPT !.err = "EBADF"]
  <2>1. SendOK(tcp_done(tsk)) /\ tcp_done(tsk).state = "CLOSING"
    BY <1>1, <1>2, DoneQueue, SameQueueOK
  <2>2. a \in Tsk /\ SendOK(a) /\ a.state = "FIN_WAIT_1"
    BY <1>1, <1>2 DEF Tsk, TcpStates, SendOK
  <2>3. SendOK(b) /\ b.state = tsk.state
    BY <1>1, <1>2 DEF Tsk, SendOK
  <2>4. \/ tsk' = tcp_done(tsk) /\ tsk.state \in {"SYN_SENT", "SYN_RECEIVED"}
        \/ tsk.state = "ESTABLISHED" /\ tsk' = tcp_queue_fin(a)
        \/ tsk' = tcp_queue_fin(tsk)
        \/ tsk' = b
    BY <1>4 DEF Close
  <2> HIDE DEF a, b
  <2>5. /\ SendOK(tcp_queue_fin(a)) /\ tcp_queue_fin(a).state = "FIN_WAIT_1"
        /\ SendOK(tcp_queue_fin(tsk)) /\ tcp_queue_fin(tsk).state = tsk.state
    BY <1>1, <1>2, <2>2, QueueFinSend
  <2> QED
    BY <1>2, <2>1, <2>3, <2>4, <2>5 DEF GoodStep, Edge, StateChanges
<1> QED
  BY <1>3, <1>4

\* The copying of a buffer.
LEMMA CopySkbQueue ==
    ASSUME TypeOK, CopySkb
    PROVE  SameQueue(tsk, tsk') /\ tsk'.state = tsk.state
<1> DEFINE skb == tsk.rq[1]
           n == MinOf(skb.dlen, app.want - app.rlen)
           l == skb.dlen - n
           m == skb.data + n
           p == tsk.psh \/ skb.psh
           q == Tail(tsk.rq)
           r == [tsk.rq EXCEPT ![1] = [skb EXCEPT !.dlen = l, !.data = m]]
           a == [tsk EXCEPT !.rq = q, !.psh = p]
           b == [tsk EXCEPT !.rq = r]
<1>1. tsk \in Tsk /\ tsk.rq \in Seq(ReadSkb) /\ tsk.rq # << >>
  BY Fields DEF TypeOK, CopySkb
<1>2. skb \in ReadSkb /\ Head(tsk.rq) = skb /\ 1 \in 1..Len(tsk.rq)
  BY <1>1
<1>3. (n = skb.dlen /\ tsk' = a) \/ tsk' = b
  BY <1>2, ZenonT(60) DEF CopySkb
<1> HIDE DEF p, q, r
<1>4. /\ a.wq = tsk.wq /\ a.inflight = tsk.inflight /\ a.snd_nxt = tsk.snd_nxt
      /\ a.state = tsk.state
      /\ b.wq = tsk.wq /\ b.inflight = tsk.inflight /\ b.snd_nxt = tsk.snd_nxt
      /\ b.state = tsk.state
  BY <1>1 DEF Tsk
<1> HIDE DEF a, b
<1>5. tsk' \in Tsk
  BY CopySkbEffect DEF TypeOK
<1> QED
  BY <1>3, <1>4, <1>5 DEF SameQueue

\* read().
LEMMA ReadGood ==
    ASSUME ConnInv,
           \/ ReadAtEnd \/ (\E len \in ReadSizes : Read(len))
           \/ CopySkb \/ CopyDone \/ ReadWoken
    PROVE  GoodStep
<1>1. tsk \in Tsk
  BY DEF ConnInv, TypeInv, TypeOK
<1>2. SendOK(tsk) /\ tsk.state # "CLOSE"
  <2>1. app.pc \in {"idle", "copy", "reading"}
    BY DEF ReadAtEnd, Read, CopySkb, CopyDone, ReadWoken
  <2> QED
    BY <2>1 DEF ConnInv
<1>3. ASSUME tsk'.wq = tsk.wq, tsk'.inflight = tsk.inflight,
             tsk'.snd_nxt = tsk.snd_nxt, tsk'.state = tsk.state
      PROVE  GoodStep
  BY <1>2, <1>3 DEF GoodStep, SendOK, Edge
<1>4. CASE ReadAtEnd
  <2>1. tsk' = tsk \/ tsk' = [tsk EXCEPT !.fin = FALSE]
    BY <1>4 DEF ReadAtEnd
  <2> QED
    BY <1>1, <1>3, <2>1 DEF Tsk
<1>5. CASE \E len \in ReadSizes : Read(len)
  BY <1>3, <1>5 DEF Read
<1>6. CASE CopySkb
  BY <1>3, <1>6, CopySkbQueue DEF ConnInv, TypeInv, SameQueue
<1>7. CASE CopyDone
  <2> DEFINE p == tsk.poll \ {"IN"}
             s == IF tsk.rq = << >> /\ ~tsk.fin
                  THEN [tsk EXCEPT !.poll = p] ELSE tsk
             a == [s EXCEPT !.psh = FALSE]
             b == [s EXCEPT !.recv_wait = "asleep"]
  <2>1. tsk' = tcp_rearm_user_timeout(a) \/ tsk' = s \/ tsk' = b
    BY <1>7 DEF CopyDone
  <2>2. p \in SUBSET PollEvents
    BY <1>1, Fields
  <2> HIDE DEF p
  <2>3. s \in Tsk /\ SameQueue(tsk, s) /\ s.state = tsk.state
    BY <1>1, <2>2 DEF Tsk, SameQueue
  <2> HIDE DEF s
  <2>4. /\ SameQueue(s, a) /\ a \in Tsk /\ a.state = tsk.state
        /\ SameQueue(s, b) /\ b.state = tsk.state
    BY <2>3 DEF SameQueue, Tsk, WaitStates
  <2> HIDE DEF a, b
  <2>5. SameQueue(tsk, tsk') /\ tsk'.state = tsk.state
    BY <2>1, <2>3, <2>4, TimersQueue, SameQueueTransitive
  <2> QED
    BY <1>3, <2>5 DEF SameQueue
<1>8. CASE ReadWoken
  <2>1. tsk' = [tsk EXCEPT !.recv_wait = "idle"]
    BY <1>8 DEF ReadWoken
  <2> QED
    BY <1>1, <1>3, <2>1 DEF Tsk
<1> QED
  BY <1>4, <1>5, <1>6, <1>7, <1>8

\* Expiring timers and their handlers: none runs before connect().
LEMMA TimerGood ==
    ASSUME ConnInv, app.pc # "start", TimerNext
    PROVE  GoodStep
<1>1. tsk \in Tsk /\ tsk.thread \in [TimerKinds -> Nat]
  BY Fields DEF ConnInv, TypeInv, TypeOK
<1>2. SendOK(tsk) /\ tsk.state # "CLOSE" /\ tsk.state \in TcpStates
  BY <1>1, Fields DEF ConnInv
<1>3. ASSUME tsk'.wq = tsk.wq, tsk'.inflight = tsk.inflight,
             tsk'.snd_nxt = tsk.snd_nxt, tsk'.state = tsk.state
      PROVE  GoodStep
  BY <1>2, <1>3 DEF GoodStep, SendOK, Edge
<1>4. ASSUME NEW slot \in {"retransmit", "delack", "linger"}, Expire(slot)
      PROVE  GoodStep
  <2> DEFINE h == [tsk.thread EXCEPT ![tsk[slot].kind] = @ + 1]
             e == [tsk[slot] EXCEPT !.fired = TRUE]
  <2>1. tsk' = [tsk EXCEPT ![slot] = e, !.thread = h]
    BY <1>4 DEF Expire
  <2> HIDE DEF e, h
  <2> QED
    BY <1>1, <1>3, <2>1 DEF Tsk
<1>5. ASSUME NEW kind \in TimerKinds, ExpireUnowned(kind) PROVE GoodStep
  <2>1. PICK m, h : tsk' = [tsk EXCEPT !.armed = m, !.thread = h]
    BY <1>5 DEF ExpireUnowned
  <2> QED
    BY <1>1, <1>3, <2>1 DEF Tsk
<1>6. ASSUME NEW kind \in TimerKinds, RunHandler(kind) PROVE GoodStep
  <2> DEFINE h == [tsk.thread EXCEPT ![kind] = @ - 1]
             s == [tsk EXCEPT !.thread = h]
             c == [s EXCEPT !.linger = NoTimer]
             d == [s EXCEPT !.freed = TRUE]
  <2>1. tsk.thread[kind] > 0
    BY <1>6 DEF RunHandler
  <2>2. h \in [TimerKinds -> Nat]
    BY <1>1, <2>1
  <2>3. tsk' = Handler(kind, s)
    BY <1>6 DEF RunHandler
  <2> HIDE DEF h
  <2>4. SameQueue(tsk, s) /\ s \in Tsk /\ s.state = tsk.state
    BY <1>1, <2>2 DEF SameQueue, Tsk
  <2> HIDE DEF s
  <2>5. /\ SameQueue(s, c) /\ c \in Tsk
        /\ SameQueue(s, d) /\ d.state = tsk.state
    BY <2>4, SlotTyping DEF SameQueue, Tsk
  <2>6. \/ tsk' = tcp_connect_rto(s)
        \/ tsk' = tcp_retransmission_timeout(s)
        \/ tsk' = tcp_send_delack(s)
        \/ tsk' = tcp_abort(c)
        \/ tsk' = tcp_done(c)
        \/ tsk' = d
    BY <2>3 DEF Handler, CancelLinger, TimerKinds
  <2> HIDE DEF c, d
  <2>7. /\ SameQueue(s, tsk')
        /\ Edge(s, tsk') \/ tsk'.state \in {"CLOSING", s.state}
    BY <2>4, <2>5, <2>6, ConnectRtoQueue, RetransmissionQueue, SendDelackQueue,
       EndingQueue, DoneQueue, SameQueueTransitive
  <2>8. SendOK(tsk')
    BY <1>2, <2>4, <2>7, SameQueueOK
  <2>9. Edge(tsk, tsk')
    BY <1>2, <2>4, <2>7 DEF Edge, StateChanges, TcpStates
  <2>10. tsk'.state # "CLOSE"
    BY <1>2, <2>9 DEF Edge, StateChanges
  <2> QED
    BY <2>8, <2>9, <2>10 DEF GoodStep
<1> QED
  BY <1>4, <1>5, <1>6 DEF TimerNext

\* An arriving segment.
LEMMA CoreGood ==
    ASSUME ConnInv, app.pc # "start", CoreNext
    PROVE  GoodStep
<1>1. tsk \in Tsk /\ peer \in PeerType
  BY DEF ConnInv, TypeInv, TypeOK
<1>2. SendOK(tsk) /\ tsk.state # "CLOSE" /\ tsk.state \in TcpStates
  BY <1>1, Fields DEF ConnInv
<1>3. PICK th \in InFlight :
         \/ RcvSynSent(th) \/ RcvUnacceptable(th) \/ RcvReset(th)
         \/ \E r \in RttSamples : RcvSegment(th, r)
  BY DEF CoreNext
<1>4. th \in InSegment
  BY <1>1, InFlightTyping
<1>5. CASE RcvSynSent(th)
  BY <1>1, <1>2, <1>4, <1>5, SynsentSend DEF RcvSynSent, GoodStep
<1>6. CASE RcvUnacceptable(th)
  BY <1>1, <1>2, <1>6, WakingQueue, SameQueueOK DEF RcvUnacceptable, GoodStep, Edge
<1>7. CASE RcvReset(th)
  <2> DEFINE a == tcp_enter_time_wait(tsk)
  <2>1. tsk' = tcp_recv_notify(a) /\ tsk.state # "SYN_SENT"
    BY <1>7 DEF RcvReset
  <2>2. SameQueue(tsk, a) /\ a \in Tsk /\ a.state = "TIME_WAIT"
    BY <1>1, EndingQueue DEF SameQueue
  <2> HIDE DEF a
  <2>3. SendOK(tsk') /\ tsk'.state = "TIME_WAIT"
    BY <1>2, <2>1, <2>2, WakingQueue, SameQueueOK
  <2> QED
    BY <1>2, <2>1, <2>3 DEF GoodStep, Edge, StateChanges, TcpStates
<1>8. ASSUME NEW r \in RttSamples, RcvSegment(th, r) PROVE GoodStep
  <2> DEFINE s == ProcessAck(tsk, th, r)
  <2>1. r \in Nat
    BY TcpRunConstants
  <2>2. /\ tsk.state # "SYN_SENT"
        /\ (tsk' = tcp_done(s) /\ s.state = "LAST_ACK") \/ tsk' = ProcessRest(s, th)
    BY <1>8 DEF RcvSegment
  <2>3. tsk.state \notin Before
    BY <1>2, <2>2 DEF Before
  <2>4. /\ SendOK(tcp_done(s)) /\ SendOK(ProcessRest(s, th))
        /\ s.state = "LAST_ACK" => Edge(tsk, tcp_done(s))
        /\ Edge(tsk, ProcessRest(s, th))
        /\ tcp_done(s).state # "CLOSE" /\ ProcessRest(s, th).state # "CLOSE"
    BY <1>1, <1>2, <1>4, <2>1, <2>3, SegmentSend
  <2> HIDE DEF s
  <2> QED
    BY <2>2, <2>4 DEF GoodStep
<1> QED
  BY <1>3, <1>5, <1>6, <1>7, <1>8

\* The step of the induction.
LEMMA ConnStep ==
    ASSUME ConnInv, [Next]_vars
    PROVE  /\ ConnInv'
           /\ Edge(tsk, tsk')
<1>1. TypeInv'
  BY TypeStep DEF ConnInv
<1>2. ASSUME GoodStep PROVE ConnInv' /\ Edge(tsk, tsk')
  BY <1>1, <1>2 DEF ConnInv, GoodStep
<1>3. ASSUME UNCHANGED << tsk, app >> PROVE ConnInv' /\ Edge(tsk, tsk')
  BY <1>1, <1>3 DEF ConnInv, Edge
<1>4. CASE UNCHANGED vars
  BY <1>3, <1>4 DEF vars
<1>5. CASE AppNext
  <2>1. GoodStep
    BY <1>5, ConnectGood, WriteCloseGood, ReadGood DEF AppNext
  <2> QED
    BY <1>2, <2>1
<1>6. CASE PeerNext
  <2>1. TypeOK
    BY DEF ConnInv, TypeInv
  <2> QED
    BY <1>3, <1>6, <2>1, PeerSteps
<1>7. CASE TimerNext \/ CoreNext
  <2>1. CASE app.pc # "start"
    <3>1. GoodStep
      BY <1>7, <2>1, TimerGood, CoreGood
    <3> QED
      BY <1>2, <3>1
  <2>2. CASE app.pc = "start"
    <3>1. UNCHANGED app
      BY <1>7 DEF TimerNext, Expire, ExpireUnowned, RunHandler,
         CoreNext, RcvSynSent, RcvUnacceptable, RcvReset, RcvSegment, Arrives
    <3>2. tsk = NewSock /\ tsk' = NewSock
      BY <1>1, <2>2, <3>1 DEF ConnInv, TypeInv, Fresh
    <3> QED
      BY <1>3, <3>1, <3>2
  <2> QED
    BY <2>1, <2>2
<1> QED
  BY <1>4, <1>5, <1>6, <1>7 DEF Next

\* Before connect() nothing is queued and nothing is in flight.
LEMMA ConnCounts ==
    ASSUME ConnInv
    PROVE  InflightCount
<1>1. CASE app.pc = "start"
  <2>1. tsk.wq = << >> /\ tsk.inflight = 0
    BY <1>1 DEF ConnInv, TypeInv, Fresh, NewSock
  <2>2. {i \in 1..Len(tsk.wq) : tsk.wq[i].seq > 0} = {}
    BY <2>1
  <2> QED
    BY <2>1, <2>2, FS_EmptySet DEF InflightCount
<1>2. CASE app.pc # "start"
  BY <1>2 DEF ConnInv, SendOK, Sent, InflightCount
<1> QED
  BY <1>1, <1>2

\* ConnInv holds of every reachable state.
THEOREM ConnInvariant == Spec => []ConnInv
<1>1. Init => ConnInv
  BY TypeInit DEF Init, ConnInv
<1>2. ConnInv /\ [Next]_vars => ConnInv'
  BY ConnStep
<1> QED
  BY <1>1, <1>2, PTL DEF Spec

\* tsk->inflight is the number of transmitted buffers of the write queue in
\* every behaviour: tcp_queue_transmit_skb and the next flight after an ACK
\* count what they send, and tcp_clean_rto_queue never takes off more than it
\* removed, in whatever order writes, closes, acknowledgments, retransmissions
\* and the end of the connection come.
THEOREM InflightCounted == Spec => []InflightCount
<1>1. ConnInv => InflightCount
  BY ConnCounts
<1> QED
  BY <1>1, ConnInvariant, PTL

\* Every change of sk->state is an edge of the diagram, whichever thread makes
\* it and however late: a handler that waited for the socket lock, a segment
\* that answers an earlier state, a retransmitted FIN.
THEOREM DiagramFollowed == Spec => FollowsDiagram
<1>1. Init => ConnInv
  BY TypeInit DEF Init, ConnInv
<1>2. ConnInv /\ [Next]_vars =>
        ConnInv' /\ [tsk.state # tsk'.state =>
                        << tsk.state, tsk'.state >> \in StateChanges]_vars
  BY ConnStep DEF Edge
<1> QED
  BY <1>1, <1>2, PTL DEF Spec, FollowsDiagram

----------------------------------------------------------------------------
(***************************************************************************)
(* The timers that keep a connection alive, for a peer that does not open  *)
(* the connection itself at the same time: there tcp_synsent leaves a      *)
(* socket in SYN_RECEIVED without a user timeout, and its SYN with a timer *)
(* whose handler does nothing in that state.                               *)
(***************************************************************************)

\* socket_delete has armed the garbage collector, or it has run.
Doomed(s) == s.armed["gc"] + s.thread["gc"] > 0 \/ s.freed

RtoKind(s) == IF s.state = "SYN_SENT" THEN "conn" ELSE "rto"

\* A retransmission timer of the kind the state asks for is running, whether
\* tsk->retransmit points to it or not, or its handler waits for the lock.
Timed(s) ==
    \/ s.retransmit.kind = RtoKind(s)
    \/ s.armed[RtoKind(s)] + s.thread[RtoKind(s)] > 0

\* The oldest unacknowledged buffer, once transmitted, is timed.
HeadTimed(s) ==
    s.wq # << >> /\ s.wq[1].seq > 0 /\ s.state # "TIME_WAIT" /\ ~Doomed(s) => Timed(s)

\* A timer that fired while tsk->retransmit pointed to it has a handler that
\* has not run.
SlotOK(s) ==
    /\ s.retransmit.kind \in {"none", "conn", "rto"}
    /\ s.retransmit.fired =>
          s.retransmit.kind # "none" /\ s.thread[s.retransmit.kind] > 0

\* In SYN_SENT the SYN and nothing else is queued; it ends at ISS.
SynOK(s) ==
    /\ s.state # "SYN_RECEIVED"
    /\ s.state = "SYN_SENT" =>
          Len(s.wq) = 1 /\ s.wq[1].seq > 0 /\ s.wq[1].end_seq <= ISS

\* A socket marked for deletion will be collected.
DeletedOK(s) == s.ss = "DISCONNECTING" => Doomed(s)

\* A user timeout or a time-wait timer is held from the establishment on.
LingerOK(s) == s.state \notin Before /\ ~Doomed(s) => s.linger.kind # "none"

LifeOK(s) ==
    SlotOK(s) /\ SynOK(s) /\ DeletedOK(s) /\ HeadTimed(s) /\ LingerOK(s)

\* t is s after an operation that leaves the write queue and the retransmission
\* timer alone, cancels neither a handler nor the collector, and leaves
\* tsk->linger pointing to a timer if it did.
Steady(s, t) ==
    /\ t.wq = s.wq /\ t.retransmit = s.retransmit
    /\ t.ss = s.ss \/ t.ss # "DISCONNECTING"
    /\ s.freed => t.freed
    /\ \A k \in {"conn", "rto", "gc"} :
          /\ t.thread[k] >= s.thread[k]
          /\ t.armed[k] + t.thread[k] >= s.armed[k] + s.thread[k]
    /\ t.linger.kind = s.linger.kind \/ t.linger.kind # "none"

\* The counts of timers and handlers are naturals.
LEMMA Counts ==
    ASSUME NEW s \in Tsk
    PROVE  \A k \in {"conn", "rto", "gc"} : s.armed[k] \in Nat /\ s.thread[k] \in Nat
BY Fields DEF TimerKinds

\* Operations that are Steady compose.
LEMMA SteadyTransitive ==
    ASSUME NEW s \in Tsk, NEW t \in Tsk, NEW u \in Tsk, Steady(s, t), Steady(t, u)
    PROVE  Steady(s, u)
<1>1. ASSUME NEW k \in {"conn", "rto", "gc"}
      PROVE  /\ u.thread[k] >= s.thread[k]
             /\ u.armed[k] + u.thread[k] >= s.armed[k] + s.thread[k]
  <2>1. /\ s.armed[k] \in Nat /\ s.thread[k] \in Nat /\ t.armed[k] \in Nat
        /\ t.thread[k] \in Nat /\ u.armed[k] \in Nat /\ u.thread[k] \in Nat
    BY Counts
  <2>2. /\ t.thread[k] >= s.thread[k] /\ u.thread[k] >= t.thread[k]
        /\ t.armed[k] + t.thread[k] >= s.armed[k] + s.thread[k]
        /\ u.armed[k] + u.thread[k] >= t.armed[k] + t.thread[k]
    BY DEF Steady
  <2> QED
    BY <2>1, <2>2
<1> QED
  BY <1>1 DEF Steady

\* An operation that leaves these fields alone is Steady.
LEMMA SteadySame ==
    ASSUME NEW s \in Tsk, NEW t,
           t.wq = s.wq, t.retransmit = s.retransmit, t.linger = s.linger,
           t.armed = s.armed, t.thread = s.thread, t.ss = s.ss, t.freed = s.freed
    PROVE  Steady(s, t)
<1>1. ASSUME NEW k \in {"conn", "rto", "gc"}
      PROVE  /\ t.thread[k] >= s.thread[k]
             /\ t.armed[k] + t.thread[k] >= s.armed[k] + s.thread[k]
  <2>1. s.armed[k] \in Nat /\ s.thread[k] \in Nat
    BY Counts
  <2> QED
    BY <2>1
<1> QED
  BY <1>1 DEF Steady

\* Such operations keep a socket that will be collected so.
LEMMA SteadyDoomed ==
    ASSUME NEW s \in Tsk, NEW t \in Tsk, Steady(s, t), Doomed(s)
    PROVE  Doomed(t)
<1>1. /\ s.armed["gc"] \in Nat /\ s.thread["gc"] \in Nat
      /\ t.armed["gc"] \in Nat /\ t.thread["gc"] \in Nat
  BY Counts
<1>2. /\ t.armed["gc"] + t.thread["gc"] >= s.armed["gc"] + s.thread["gc"]
      /\ s.freed => t.freed
  BY DEF Steady
<1> QED
  BY <1>1, <1>2 DEF Doomed

\* They keep the connection in order when the state is the same, or changes
\* between states that ask for the same retransmission timer.
LEMMA SteadyLife ==
    ASSUME NEW s \in Tsk, NEW t \in Tsk, Steady(s, t), LifeOK(s),
           \/ t.state = s.state
           \/ /\ s.state \notin Before \cup {"TIME_WAIT"}
              /\ t.state \notin Before \cup {"SYN_RECEIVED"}
    PROVE  LifeOK(t)
<1>1. Doomed(s) => Doomed(t)
  BY SteadyDoomed
<1>2. t.wq = s.wq /\ t.retransmit = s.retransmit
  BY DEF Steady
<1>3. SlotOK(t)
  <2>1. SlotOK(s)
    BY DEF LifeOK
  <2> DEFINE k == s.retransmit.kind
  <2>2. CASE s.retransmit.fired
    <3>1. k \in {"conn", "rto"} /\ s.thread[k] > 0
      BY <2>1, <2>2 DEF SlotOK
    <3>2. s.thread[k] \in Nat /\ t.thread[k] \in Nat /\ t.thread[k] >= s.thread[k]
      BY <3>1, Counts DEF Steady
    <3> HIDE DEF k
    <3>3. t.thread[k] > 0
      BY <3>1, <3>2
    <3> QED
      BY <1>2, <3>1, <3>3 DEF SlotOK, k
  <2>3. CASE ~s.retransmit.fired
    BY <1>2, <2>1, <2>3 DEF SlotOK
  <2> QED
    BY <2>2, <2>3
<1>4. SynOK(t)
  BY <1>2 DEF LifeOK, SynOK, Before
<1>5. DeletedOK(t)
  BY <1>1 DEF LifeOK, DeletedOK, Steady
<1>6. HeadTimed(t)
  <2> SUFFICES ASSUME t.wq # << >>, t.wq[1].seq > 0, t.state # "TIME_WAIT", ~Doomed(t)
               PROVE  Timed(t)
    BY DEF HeadTimed
  <2> DEFINE k == RtoKind(s)
  <2>1. RtoKind(t) = k /\ s.state # "TIME_WAIT"
    BY DEF RtoKind, Before
  <2>2. Timed(s)
    BY <1>1, <1>2, <2>1 DEF LifeOK, HeadTimed
  <2>3. k \in {"conn", "rto", "gc"}
    BY DEF RtoKind
  <2>4. s.retransmit.kind = k \/ s.armed[k] + s.thread[k] > 0
    BY <2>2 DEF Timed
  <2> HIDE DEF k
  <2>5. /\ s.armed[k] \in Nat /\ s.thread[k] \in Nat
        /\ t.armed[k] \in Nat /\ t.thread[k] \in Nat
    BY <2>3, Counts
  <2>6. t.armed[k] + t.thread[k] >= s.armed[k] + s.thread[k]
    BY <2>3 DEF Steady
  <2>7. s.armed[k] + s.thread[k] > 0 => t.armed[k] + t.thread[k] > 0
    BY <2>5, <2>6
  <2>8. t.retransmit.kind = k \/ t.armed[k] + t.thread[k] > 0
    BY <1>2, <2>4, <2>7
  <2> QED
    BY <2>1, <2>8 DEF Timed
<1>7. LingerOK(t)
  BY <1>1 DEF LifeOK, LingerOK, Steady, Before
<1> QED
  BY <1>3, <1>4, <1>5, <1>6, <1>7 DEF LifeOK

\* What ends a connection leaves no retransmission timer and a collector.
LEMMA EndedLife ==
    ASSUME NEW s \in Tsk, Doomed(s), s.state \notin {"SYN_SENT", "SYN_RECEIVED"},
           s.retransmit = NoTimer
    PROVE  LifeOK(s)
<1>1. SlotOK(s)
  BY DEF SlotOK, NoTimer
<1> QED
  BY <1>1 DEF LifeOK, SynOK, DeletedOK, HeadTimed, LingerOK

\* tcp_done cancels the socket's timers and arms the collector, or finds it
\* armed.
LEMMA DoneLife ==
    ASSUME NEW s \in Tsk, DeletedOK(s)
    PROVE  /\ LifeOK(tcp_done(s)) /\ tcp_done(s) \in Tsk
           /\ Doomed(tcp_done(s)) /\ tcp_done(s).retransmit = NoTimer
<1> DEFINE a == [s EXCEPT !.state = "CLOSING"]
           b == tcp_clear_timers(a)
           c == [b EXCEPT !.ofo = << >>, !.sleep = wait_wakeup(b.sleep)]
           m == [c.armed EXCEPT !["gc"] = @ + 1]
           d == [c EXCEPT !.ss = "DISCONNECTING", !.armed = m]
<1>1. tcp_done(s) \in Tsk /\ tcp_done(s).state = "CLOSING"
  BY DoneKeeps, DoneQueue
<1>2. tcp_done(s) = IF c.ss = "DISCONNECTING" THEN c ELSE d
  BY DEF tcp_done, tcp_free, socket_delete
<1>3. /\ a.ss = s.ss /\ a.armed = s.armed /\ a.thread = s.thread
      /\ a.freed = s.freed /\ a \in Tsk
  BY DEF Tsk, TcpStates
<1> HIDE DEF a
<1>4. /\ b.ss = s.ss /\ b.armed = s.armed /\ b.thread = s.thread
      /\ b.freed = s.freed /\ b \in Tsk /\ b.retransmit = NoTimer
  BY <1>3, TimersQueue DEF tcp_clear_timers, Tsk, SameQueue
<1> HIDE DEF b
<1>5. /\ c.ss = s.ss /\ c.armed = s.armed /\ c.thread = s.thread
      /\ c.freed = s.freed /\ c.retransmit = NoTimer
      /\ DOMAIN c = DOMAIN b
  BY <1>4 DEF Tsk
<1>6. /\ d.ss = "DISCONNECTING" /\ d.armed = m /\ d.thread = c.thread
      /\ d.retransmit = c.retransmit
  <2>1. /\ "ss" \in DOMAIN c /\ "armed" \in DOMAIN c /\ "thread" \in DOMAIN c
        /\ "retransmit" \in DOMAIN c
    BY <1>4, <1>5 DEF Tsk
  <2> HIDE DEF c, m
  <2> QED
    BY <2>1
<1>7. m["gc"] > 0 /\ m["gc"] \in Nat /\ c.thread["gc"] \in Nat
  <2>1. s.armed \in [TimerKinds -> Nat] /\ s.thread \in [TimerKinds -> Nat]
    BY Fields
  <2>2. "gc" \in TimerKinds
    BY DEF TimerKinds
  <2> HIDE DEF c
  <2> QED
    BY <1>5, <2>1, <2>2
<1> HIDE DEF c, m, d
<1>8. Doomed(c) <=> Doomed(s)
  BY <1>5 DEF Doomed
<1>9. Doomed(d)
  BY <1>6, <1>7 DEF Doomed
<1>10. Doomed(tcp_done(s)) /\ tcp_done(s).retransmit = NoTimer
  BY <1>2, <1>5, <1>6, <1>8, <1>9 DEF DeletedOK
<1> QED
  BY <1>1, <1>10, EndedLife

\* A reset of ours or of the peer.
LEMMA AbortLife ==
    ASSUME NEW s \in Tsk, DeletedOK(s)
    PROVE  LifeOK(tcp_abort(s)) /\ LifeOK(tcp_reset(s))
<1>1. LifeOK(tcp_abort(s))
  <2> DEFINE a == tcp_send_reset(s)
  <2>1. /\ a \in Tsk /\ a.ss = s.ss /\ a.armed = s.armed /\ a.thread = s.thread
        /\ a.freed = s.freed
    BY ResetKeeps DEF Keeps, tcp_send_reset, Tsk
  <2>2. tcp_abort(s) = tcp_done(a)
    BY DEF tcp_abort
  <2> HIDE DEF a
  <2>3. DeletedOK(a)
    BY <2>1 DEF DeletedOK, Doomed
  <2> QED
    BY <2>1, <2>2, <2>3, DoneLife
<1>2. LifeOK(tcp_reset(s))
  <2> DEFINE e == IF s.state = "SYN_SENT" THEN "ECONNREFUSED"
                  ELSE IF s.state = "CLOSE_WAIT" THEN "EPIPE" ELSE "ECONNRESET"
             b == [s EXCEPT !.poll = {"OUT", "ERR", "HUP"}, !.err = e]
  <2>1. e \in Errors /\ {"OUT", "ERR", "HUP"} \in SUBSET PollEvents
    BY DEF Errors, PollEvents
  <2>2. tcp_reset(s) = tcp_done(b)
    BY DEF tcp_reset
  <2> HIDE DEF e
  <2>3. /\ b \in Tsk /\ b.ss = s.ss /\ b.armed = s.armed /\ b.thread = s.thread
        /\ b.freed = s.freed
    BY <2>1 DEF Tsk
  <2> HIDE DEF b
  <2>4. DeletedOK(b)
    BY <2>3 DEF DeletedOK, Doomed
  <2> QED
    BY <2>2, <2>3, <2>4, DoneLife
<1> QED
  BY <1>1, <1>2

\* TIME_WAIT has its own timer.
LEMMA TimeWaitLife ==
    ASSUME NEW s \in Tsk, DeletedOK(s)
    PROVE  LifeOK(tcp_enter_time_wait(s))
<1> DEFINE a == tcp_clear_timers(s)
           g == timer_add("2msl")
           t == [a EXCEPT !.state = "TIME_WAIT", !.linger = g]
<1>1. /\ a.ss = s.ss /\ a.armed = s.armed /\ a.thread = s.thread
      /\ a.freed = s.freed /\ a \in Tsk /\ a.retransmit = NoTimer
  BY TimersQueue DEF tcp_clear_timers, Tsk, SameQueue
<1>2. tcp_enter_time_wait(s) = t
  BY DEF tcp_enter_time_wait
<1>3. g.kind = "2msl"
  BY DEF timer_add
<1> HIDE DEF a, g
<1>4. /\ t.ss = s.ss /\ t.armed = s.armed /\ t.thread = s.thread
      /\ t.freed = s.freed /\ t.retransmit = NoTimer /\ t.state = "TIME_WAIT"
      /\ t.linger = g
  BY <1>1 DEF Tsk
<1> HIDE DEF t
<1>5. SlotOK(t)
  BY <1>4 DEF SlotOK, NoTimer
<1>6. DeletedOK(t)
  BY <1>4 DEF DeletedOK, Doomed
<1>7. SynOK(t) /\ HeadTimed(t) /\ LingerOK(t)
  BY <1>3, <1>4 DEF SynOK, HeadTimed, LingerOK
<1> QED
  BY <1>2, <1>5, <1>6, <1>7 DEF LifeOK

\* Waking the application, acknowledging, measuring; the delayed
\* acknowledgment's timer and the user timeout.
LEMMA LightSteady ==
    ASSUME NEW s \in Tsk
    PROVE  /\ Steady(s, s)
           /\ Steady(s, tcp_recv_notify(s)) /\ Steady(s, tcp_notify_user(s))
           /\ Steady(s, tcp_handle_fin_state(s)) /\ Steady(s, tcp_send_ack(s))
           /\ Steady(s, tcp_stop_delack_timer(s))
           /\ Steady(s, tcp_rearm_user_timeout(s))
           /\ Steady(s, sock_connected(s))
           /\ \A r \in Nat : Steady(s, tcp_rtt(s, r))
<1> DEFINE Same(t) == /\ t.wq = s.wq /\ t.retransmit = s.retransmit
                      /\ t.armed = s.armed /\ t.thread = s.thread /\ t.freed = s.freed
<1>1. /\ Same(tcp_recv_notify(s)) /\ tcp_recv_notify(s).linger = s.linger
      /\ tcp_recv_notify(s).ss = s.ss
      /\ Same(tcp_notify_user(s)) /\ tcp_notify_user(s).linger = s.linger
      /\ tcp_notify_user(s).ss = s.ss
  BY DEF tcp_recv_notify, tcp_notify_user, Tsk
<1>2. /\ Same(tcp_handle_fin_state(s)) /\ tcp_handle_fin_state(s).linger = s.linger
      /\ tcp_handle_fin_state(s).ss = s.ss
      /\ Same(tcp_send_ack(s)) /\ tcp_send_ack(s).linger = s.linger
      /\ tcp_send_ack(s).ss = s.ss
  BY DEF tcp_handle_fin_state, tcp_send_ack, Tsk
<1>3. /\ Same(tcp_stop_delack_timer(s)) /\ tcp_stop_delack_timer(s).linger = s.linger
      /\ tcp_stop_delack_timer(s).ss = s.ss
  BY DEF tcp_stop_delack_timer, Tsk
<1>4. \A r \in Nat : /\ Same(tcp_rtt(s, r)) /\ tcp_rtt(s, r).linger = s.linger
                     /\ tcp_rtt(s, r).ss = s.ss
  BY DEF tcp_rtt, Tsk
<1>5. \A k \in {"conn", "rto", "gc"} :
         /\ s.thread[k] >= s.thread[k]
         /\ s.armed[k] + s.thread[k] >= s.armed[k] + s.thread[k]
  BY Counts
<1>6. Steady(s, tcp_rearm_user_timeout(s))
  <2> DEFINE g == timer_add("user")
             t == [s EXCEPT !.linger = g]
  <2>1. g.kind = "user"
    BY DEF timer_add
  <2>2. tcp_rearm_user_timeout(s) = s \/ tcp_rearm_user_timeout(s) = t
    BY DEF tcp_rearm_user_timeout
  <2> HIDE DEF g
  <2>3. Same(t) /\ t.linger = g /\ t.ss = s.ss
    BY DEF Tsk
  <2> HIDE DEF t
  <2> QED
    BY <1>5, <2>1, <2>2, <2>3 DEF Steady
<1>7. Steady(s, sock_connected(s))
  <2>1. /\ Same(sock_connected(s)) /\ sock_connected(s).linger = s.linger
        /\ sock_connected(s).ss = "CONNECTED"
    BY DEF sock_connected, Tsk
  <2> QED
    BY <1>5, <2>1 DEF Steady
<1> QED
  BY <1>1, <1>2, <1>3, <1>4, <1>6, <1>7, SteadySame

\* t has the timers of s, and perhaps another write queue.
SameTimers(s, t) ==
    /\ t.state = s.state /\ t.ss = s.ss /\ t.freed = s.freed
    /\ t.armed = s.armed /\ t.thread = s.thread
    /\ t.retransmit = s.retransmit /\ t.linger = s.linger

\* Transmitting a buffer starts and stops no timer.
LEMMA TransmitTimers ==
    ASSUME NEW s \in Tsk, NEW skb \in WriteSkb, NEW seq \in Nat
    PROVE  LET t == tcp_transmit_skb(s, skb, seq) IN
           t \in Tsk /\ t.wq = s.wq /\ SameTimers(s, t)
<1>1. tcp_transmit_skb(s, skb, seq) \in Tsk /\ tcp_transmit_skb(s, skb, seq).wq = s.wq
  BY TransmitQueue DEF SameQueue
<1>2. SameTimers(s, tcp_transmit_skb(s, skb, seq))
  BY DEF tcp_transmit_skb, SameTimers, Tsk
<1> QED
  BY <1>1, <1>2

\* Dropping a pointer to a timer leaves at least as many running.
LEMMA ReleaseCounts ==
    ASSUME NEW s \in Tsk, NEW slot \in TimerSlot
    PROVE  /\ \A k \in TimerKinds : timer_release(s.armed, slot)[k] >= s.armed[k]
           /\ slot.kind # "none" /\ ~slot.fired =>
                 timer_release(s.armed, slot)[slot.kind] > 0
<1>1. s.armed \in [TimerKinds -> Nat] /\ slot.kind \in TimerKinds \cup {"none"}
  BY DEF Tsk, TimerSlot
<1>2. CASE slot.kind = "none" \/ slot.fired
  BY <1>1, <1>2 DEF timer_release
<1>3. CASE ~(slot.kind = "none" \/ slot.fired)
  <2> DEFINE m == [s.armed EXCEPT ![slot.kind] = @ + 1]
  <2>1. timer_release(s.armed, slot) = m /\ slot.kind \in TimerKinds
    BY <1>1, <1>3 DEF timer_release
  <2>2. \A k \in TimerKinds : m[k] = IF k = slot.kind THEN s.armed[k] + 1 ELSE s.armed[k]
    BY <1>1
  <2>3. \A k \in TimerKinds : s.armed[k] \in Nat
    BY <1>1
  <2> HIDE DEF m
  <2> QED
    BY <2>1, <2>2, <2>3
<1> QED
  BY <1>2, <1>3

\* The delayed acknowledgment's handler.
LEMMA SendDelackSteady ==
    ASSUME NEW s \in Tsk
    PROVE  Steady(s, tcp_send_delack(s)) /\ tcp_send_delack(s) \in Tsk
<1> DEFINE a == [s EXCEPT !.delacks = 0]
           m == timer_release(a.armed, a.delack)
           b == [a EXCEPT !.armed = m, !.delack = NoTimer]
<1>1. /\ a.wq = s.wq /\ a.retransmit = s.retransmit /\ a.linger = s.linger
      /\ a.armed = s.armed /\ a.thread = s.thread /\ a.ss = s.ss /\ a.freed = s.freed
      /\ a \in Tsk /\ a.delack \in TimerSlot
  BY DEF Tsk
<1>2. tcp_send_delack(s) = tcp_send_ack(b)
  BY DEF tcp_send_delack, tcp_release_delack_timer
<1> HIDE DEF a
<1>3. b \in Tsk
  <2>1. b = tcp_release_delack_timer(a)
    BY DEF tcp_release_delack_timer
  <2> QED
    BY <1>1, <2>1, TimersKeep DEF Keeps
<1>4. \A k \in TimerKinds : m[k] >= s.armed[k]
  BY <1>1, ReleaseCounts
<1> HIDE DEF m
<1>5. /\ b.wq = s.wq /\ b.retransmit = s.retransmit /\ b.linger = s.linger
      /\ b.armed = m /\ b.thread = s.thread /\ b.ss = s.ss /\ b.freed = s.freed
  BY <1>1 DEF Tsk
<1> HIDE DEF b
<1>6. ASSUME NEW k \in {"conn", "rto", "gc"}
      PROVE  /\ b.thread[k] >= s.thread[k]
             /\ b.armed[k] + b.thread[k] >= s.armed[k] + s.thread[k]
  <2>1. s.armed[k] \in Nat /\ s.thread[k] \in Nat /\ b.armed[k] \in Nat
    BY <1>3, Counts
  <2>2. b.armed[k] >= s.armed[k] /\ b.thread[k] = s.thread[k]
    BY <1>4, <1>5 DEF TimerKinds
  <2> QED
    BY <2>1, <2>2
<1>7. Steady(s, b)
  BY <1>5, <1>6 DEF Steady
<1>8. Steady(b, tcp_send_ack(b)) /\ tcp_send_ack(b) \in Tsk
  BY <1>3, LightSteady, SendAckKeeps DEF Keeps
<1> QED
  BY <1>2, <1>3, <1>7, <1>8, SteadyTransitive

----------------------------------------------------------------------------
(* The retransmission timer *)

\* Dropping tsk->retransmit: the timer it pointed to runs on unless it has
\* fired.
LEMMA ReleaseRtoTimers ==
    ASSUME NEW s \in Tsk
    PROVE  LET a == tcp_release_rto_timer(s) IN
           /\ a \in Tsk /\ a.wq = s.wq /\ a.state = s.state /\ a.ss = s.ss
           /\ a.freed = s.freed /\ a.thread = s.thread /\ a.linger = s.linger
           /\ a.retransmit = NoTimer
           /\ \A k \in TimerKinds : a.armed[k] >= s.armed[k]
           /\ s.retransmit.kind # "none" /\ ~s.retransmit.fired =>
                 a.armed[s.retransmit.kind] > 0
<1> DEFINE m == timer_release(s.armed, s.retransmit)
           a == [s EXCEPT !.armed = m, !.retransmit = NoTimer]
<1>1. tcp_release_rto_timer(s) = a
  BY DEF tcp_release_rto_timer
<1>2. a \in Tsk
  BY <1>1, TimersKeep DEF Keeps
<1>3. /\ \A k \in TimerKinds : m[k] >= s.armed[k]
      /\ s.retransmit.kind # "none" /\ ~s.retransmit.fired =>
            m[s.retransmit.kind] > 0
  BY ReleaseCounts DEF Tsk
<1> HIDE DEF m
<1>4. /\ a.wq = s.wq /\ a.state = s.state /\ a.ss = s.ss /\ a.freed = s.freed
      /\ a.thread = s.thread /\ a.linger = s.linger /\ a.armed = m
      /\ a.retransmit = NoTimer
  BY DEF Tsk
<1> HIDE DEF a
<1> QED
  BY <1>1, <1>2, <1>3, <1>4

\* Dropping a pointer leaves the collector.
LEMMA MoreArmedDoomed ==
    ASSUME NEW s \in Tsk, NEW a \in Tsk, a.freed = s.freed, a.thread = s.thread,
           \A k \in TimerKinds : a.armed[k] >= s.armed[k], Doomed(s)
    PROVE  Doomed(a)
<1>1. /\ s.armed["gc"] \in Nat /\ s.thread["gc"] \in Nat /\ a.armed["gc"] \in Nat
  BY Counts
<1>2. a.armed["gc"] >= s.armed["gc"] /\ a.thread["gc"] = s.thread["gc"]
  BY DEF TimerKinds
<1> QED
  BY <1>1, <1>2 DEF Doomed

\* Rearming starts the timer that the state asks for.
LEMMA RearmLife ==
    ASSUME NEW s \in Tsk, SynOK(s), DeletedOK(s), LingerOK(s)
    PROVE  LET t == tcp_rearm_rto_timer(s) IN
           /\ t \in Tsk /\ LifeOK(t) /\ Timed(t)
           /\ t.state = s.state /\ t.wq = s.wq
<1> DEFINE a == tcp_release_rto_timer(s)
           g == timer_add(IF s.state = "SYN_SENT" THEN "conn" ELSE "rto")
           t == [a EXCEPT !.retransmit = g]
<1>1. tcp_rearm_rto_timer(s) = t
  BY DEF tcp_rearm_rto_timer
<1>2. t \in Tsk
  BY <1>1, RearmRtoKeeps DEF Keeps
<1>3. g.kind = RtoKind(s) /\ ~g.fired
  BY DEF timer_add, RtoKind
<1>4. /\ a \in Tsk /\ a.wq = s.wq /\ a.state = s.state /\ a.ss = s.ss
      /\ a.freed = s.freed /\ a.thread = s.thread /\ a.linger = s.linger
      /\ \A k \in TimerKinds : a.armed[k] >= s.armed[k]
  BY ReleaseRtoTimers
<1> HIDE DEF a, g
<1>5. /\ t.wq = s.wq /\ t.state = s.state /\ t.ss = s.ss
      /\ t.freed = s.freed /\ t.thread = s.thread /\ t.linger = s.linger
      /\ t.armed = a.armed /\ t.retransmit = g
  BY <1>4 DEF Tsk
<1> HIDE DEF t
<1>6. Doomed(s) => Doomed(t)
  BY <1>2, <1>4, <1>5, MoreArmedDoomed
<1>7. Timed(t)
  BY <1>3, <1>5 DEF Timed, RtoKind
<1>8. SlotOK(t)
  BY <1>3, <1>5 DEF SlotOK, RtoKind
<1>9. SynOK(t) /\ DeletedOK(t) /\ LingerOK(t) /\ HeadTimed(t)
  BY <1>5, <1>6, <1>7 DEF SynOK, DeletedOK, LingerOK, HeadTimed
<1> QED
  BY <1>1, <1>2, <1>5, <1>7, <1>8, <1>9 DEF LifeOK

\* A write queue whose oldest buffer was sent only if it is timed, or if the
\* oldest buffer was sent before.
LEMMA OtherQueueLife ==
    ASSUME NEW s \in Tsk, NEW t \in Tsk, LifeOK(s), SameTimers(s, t),
           s.state # "SYN_SENT",
           t.wq # << >> /\ t.wq[1].seq > 0 =>
              Timed(s) \/ (s.wq # << >> /\ s.wq[1].seq > 0)
    PROVE  LifeOK(t)
<1>1. Doomed(t) <=> Doomed(s)
  BY DEF Doomed, SameTimers
<1>2. Timed(t) <=> Timed(s)
  BY DEF Timed, RtoKind, SameTimers
<1>3. SlotOK(t)
  BY DEF LifeOK, SlotOK, SameTimers
<1>4. SynOK(t) /\ DeletedOK(t) /\ LingerOK(t)
  BY <1>1 DEF LifeOK, SynOK, DeletedOK, LingerOK, SameTimers
<1>5. HeadTimed(t)
  <2> SUFFICES ASSUME t.wq # << >>, t.wq[1].seq > 0, t.state # "TIME_WAIT", ~Doomed(t)
               PROVE  Timed(t)
    BY DEF HeadTimed
  <2> QED
    BY <1>1, <1>2 DEF LifeOK, HeadTimed, SameTimers
<1> QED
  BY <1>3, <1>4, <1>5 DEF LifeOK

\* The first buffer queued starts the timer; the others leave the oldest one.
LEMMA QueueTransmitLife ==
    ASSUME NEW s \in Tsk, LifeOK(s), s.state # "SYN_SENT",
           NEW skb \in WriteSkb
    PROVE  LET t == tcp_queue_transmit_skb(s, skb) IN
           LifeOK(t) /\ t \in Tsk /\ t.state = s.state /\ t.wq # << >>
<1> DEFINE a == IF s.wq = << >> THEN tcp_rearm_rto_timer(s) ELSE s
           q == a.snd_nxt
           b == tcp_transmit_skb(a, skb, q)
           k == b.inflight + 1
           n == SeqAfter(skb, q)
           x == Numbered(skb, q)
           w == Append(b.wq, x)
           c == [b EXCEPT !.inflight = k, !.snd_nxt = n, !.wq = w]
           v == Append(a.wq, skb)
           d == [a EXCEPT !.wq = v]
           t == tcp_queue_transmit_skb(s, skb)
<1>1. t = IF a.inflight = 0 THEN c ELSE d
  BY DEF tcp_queue_transmit_skb
<1>2. t \in Tsk
  BY QueueTransmitKeeps DEF Keeps
<1>3. /\ a \in Tsk /\ LifeOK(a) /\ a.state = s.state /\ a.wq = s.wq
      /\ a.wq = << >> => Timed(a)
  BY RearmLife DEF LifeOK
<1> HIDE DEF a, t
<1>4. a.wq \in Seq(WriteSkb) /\ q \in Nat
  BY <1>3, Fields
<1> HIDE DEF q
<1>5. b \in Tsk
  BY <1>3, <1>4, TransmitTimers
<1>6. b.wq = a.wq /\ SameTimers(a, b)
  BY <1>3, <1>4, TransmitTimers
<1> HIDE DEF b
<1>7. x \in WriteSkb
  BY <1>4, NumberedSeq
<1> HIDE DEF x
<1>8. w = Append(a.wq, x)
  BY <1>6
<1>9. /\ w # << >> /\ v # << >>
      /\ a.wq # << >> => w[1] = a.wq[1] /\ v[1] = a.wq[1]
  BY <1>4, <1>7, <1>8
<1> HIDE DEF w, v, k, n
<1>10. c.wq = w /\ d.wq = v /\ SameTimers(b, c) /\ SameTimers(a, d)
  BY <1>3, <1>5 DEF SameTimers, Tsk
<1> HIDE DEF c, d
<1>11. SameTimers(a, t) /\ t.wq # << >> /\ (a.wq # << >> => t.wq[1] = a.wq[1])
  BY <1>1, <1>6, <1>9, <1>10 DEF SameTimers
<1>12. t.wq[1].seq > 0 => Timed(a) \/ (a.wq # << >> /\ a.wq[1].seq > 0)
  BY <1>3, <1>11
<1>13. LifeOK(t)
  BY <1>2, <1>3, <1>11, <1>12, OtherQueueLife
<1>14. t.state = s.state
  BY <1>3, <1>11 DEF SameTimers
<1> QED
  BY <1>2, <1>11, <1>13, <1>14 DEF t

\* The FIN of close().
LEMMA QueueFinLife ==
    ASSUME NEW s \in Tsk, LifeOK(s), s.state # "SYN_SENT"
    PROVE  LifeOK(tcp_queue_fin(s))
<1> DEFINE skb == [seq |-> 0, end_seq |-> 0, dlen |-> 0, data |-> 0, syn |-> FALSE,
                   fin |-> TRUE]
<1>1. skb \in WriteSkb
  BY DEF WriteSkb
<1>2. tcp_queue_fin(s) = tcp_queue_transmit_skb(s, skb)
  BY DEF tcp_queue_fin
<1> HIDE DEF skb
<1> QED
  BY <1>1, <1>2, QueueTransmitLife

\* What write() queues goes behind what is queued.
LEMMA SendLife ==
    ASSUME NEW s \in Tsk, LifeOK(s), s.state # "SYN_SENT",
           NEW pos \in Nat, NEW len \in Nat \ {0}
    PROVE  LifeOK(tcp_send(s, pos, len))
<1> DEFINE n == (len + SMSS - 1) \div SMSS
           Skb(i) == [seq |-> 0, end_seq |-> 0,
                      dlen |-> MinOf(SMSS, len - (i - 1) * SMSS),
                      data |-> pos + (i - 1) * SMSS,
                      syn |-> FALSE, fin |-> FALSE]
           x == Skb(1)
           first == tcp_queue_transmit_skb(s, x)
           u == [i \in 1..(n - 1) |-> Skb(i + 1)]
           w == first.wq \o u
           b == [first EXCEPT !.wq = w]
<1>1. n \in Nat \ {0} /\ \A i \in 0..n-1 : i * SMSS \in Nat /\ i * SMSS < len
  BY Cutting
<1>2. tcp_send(s, pos, len) = tcp_rearm_user_timeout(b)
  BY DEF tcp_send
<1> HIDE DEF n
<1>3. \A i \in 1..n : Skb(i) \in WriteSkb
  <2> SUFFICES ASSUME NEW i \in 1..n PROVE Skb(i) \in WriteSkb
    OBVIOUS
  <2> DEFINE d == (i - 1) * SMSS
             l == MinOf(SMSS, len - d)
             m == pos + d
  <2>1. i - 1 \in 0..n-1
    BY <1>1
  <2>2. d \in Nat /\ d < len /\ SMSS \in Nat
    BY <1>1, <2>1, TcpConstants
  <2>3. Skb(i) = [seq |-> 0, end_seq |-> 0, dlen |-> l, data |-> m,
                  syn |-> FALSE, fin |-> FALSE]
    OBVIOUS
  <2> HIDE DEF d, Skb
  <2>4. l \in Nat /\ m \in Nat
    BY <2>2 DEF MinOf
  <2> HIDE DEF l, m
  <2> QED
    BY <2>3, <2>4 DEF WriteSkb
<1> HIDE DEF Skb
<1>4. x \in WriteSkb
  BY <1>1, <1>3
<1> HIDE DEF x
<1>5. /\ LifeOK(first) /\ first.state = s.state /\ first \in Tsk
      /\ first.wq # << >>
  BY <1>4, QueueTransmitLife
<1> HIDE DEF first
<1>6. first.wq \in Seq(WriteSkb)
  BY <1>5, Fields
<1>7. u \in Seq(WriteSkb)
  <2>1. n - 1 \in Nat /\ \A i \in 1..(n - 1) : i + 1 \in 1..n
    BY <1>1
  <2>2. \A i \in 1..(n - 1) : Skb(i + 1) \in WriteSkb
    BY <1>3, <2>1
  <2> QED
    BY <2>1, <2>2
<1> HIDE DEF u
<1>8. w \in Seq(WriteSkb) /\ w[1] = first.wq[1]
  <2>1. w \in Seq(WriteSkb) /\ Len(first.wq) \in Nat /\ Len(first.wq) # 0
    BY <1>5, <1>6, <1>7
  <2>2. 1 <= Len(first.wq) /\ 1 <= Len(first.wq) + Len(u)
    BY <1>7, <2>1
  <2> QED
    BY <1>6, <1>7, <2>1, <2>2
<1> HIDE DEF w
<1>9. b \in Tsk /\ b.wq = w /\ SameTimers(first, b)
  BY <1>5, <1>8 DEF Tsk, SameTimers
<1> HIDE DEF b
<1>10. LifeOK(b)
  BY <1>5, <1>8, <1>9, OtherQueueLife
<1>11. /\ tcp_rearm_user_timeout(b) \in Tsk
       /\ tcp_rearm_user_timeout(b).state = b.state
       /\ Steady(b, tcp_rearm_user_timeout(b))
  BY <1>9, LightSteady, TimersQueue DEF SameQueue
<1> QED
  BY <1>2, <1>9, <1>10, <1>11, SteadyLife

\* The SYN of connect() is timed.
LEMMA ConnectLife ==
    ASSUME NEW s \in Tsk, s = NewSock
    PROVE  LifeOK(tcp_connect(s))
<1> DEFINE i == ISS
           a == [s EXCEPT !.snd_una = i, !.snd_nxt = i, !.rcv_nxt = 0,
                          !.state = "SYN_SENT"]
           skb == [seq |-> 0, end_seq |-> 0, dlen |-> 0, data |-> 0,
                   syn |-> TRUE, fin |-> FALSE]
           b == tcp_rearm_rto_timer(a)
           q == b.snd_nxt
           c == tcp_transmit_skb(b, skb, q)
           k == c.inflight + 1
           n == SeqAfter(skb, q)
           x == Numbered(skb, q)
           w == Append(c.wq, x)
           d == [c EXCEPT !.inflight = k, !.snd_nxt = n, !.wq = w]
           m == d.snd_nxt + 1
           e == [d EXCEPT !.snd_nxt = m]
<1>1. i \in Nat /\ i > 0
  BY TcpConstants
<1>2. s.wq = << >> /\ s.inflight = 0 /\ s.ss = "UNCONNECTED"
  BY DEF NewSock
<1>3. tcp_connect(s) = [tcp_queue_transmit_skb(a, skb) EXCEPT !.snd_nxt = @ + 1]
  BY DEF tcp_connect
<1> HIDE DEF i
<1>4. /\ a \in Tsk /\ a.state = "SYN_SENT" /\ a.snd_nxt = i /\ a.ss = "UNCONNECTED"
      /\ a.wq = << >> /\ a.inflight = 0
  <2>1. /\ a \in Tsk /\ a.state = "SYN_SENT" /\ a.snd_nxt = i /\ a.ss = s.ss
        /\ a.wq = s.wq /\ a.inflight = s.inflight
    BY <1>1 DEF Tsk, TcpStates
  <2> QED
    BY <1>2, <2>1
<1> HIDE DEF a
<1>5. b.inflight = 0 => tcp_queue_transmit_skb(a, skb) = d
  BY <1>4, Zenon DEF tcp_queue_transmit_skb
<1>6. skb \in WriteSkb /\ skb.dlen = 0
  BY DEF WriteSkb
<1> HIDE DEF skb
<1>7. /\ b \in Tsk /\ b.wq = << >> /\ b.inflight = 0 /\ b.snd_nxt = i
      /\ b.state = "SYN_SENT"
  BY <1>4, RearmRtoQueue DEF SameQueue
<1>8. Timed(b) /\ SlotOK(b) /\ b.ss = "UNCONNECTED"
  <2> DEFINE g == timer_add(IF a.state = "SYN_SENT" THEN "conn" ELSE "rto")
             r == tcp_release_rto_timer(a)
  <2>1. g.kind = "conn" /\ ~g.fired
    BY <1>4 DEF timer_add
  <2>2. r \in Tsk /\ r.ss = "UNCONNECTED"
    BY <1>4, ReleaseRtoTimers
  <2>3. b = [r EXCEPT !.retransmit = g]
    BY DEF tcp_rearm_rto_timer
  <2> HIDE DEF b, g, r
  <2>4. b.retransmit = g /\ b.ss = "UNCONNECTED"
    BY <2>2, <2>3 DEF Tsk
  <2> QED
    BY <1>7, <2>1, <2>4 DEF Timed, SlotOK, RtoKind
<1> HIDE DEF b
<1>9. c \in Tsk /\ c.wq = << >> /\ SameTimers(b, c)
  <2>1. q \in Nat
    BY <1>1, <1>7
  <2> HIDE DEF q
  <2> QED
    BY <1>6, <1>7, <2>1, TransmitTimers
<1> HIDE DEF c
<1>10. x \in WriteSkb /\ x.seq = i /\ x.end_seq = i
  <2>1. q = i
    BY <1>7
  <2> HIDE DEF q
  <2>2. x \in WriteSkb /\ x.seq = i
    BY <1>1, <1>6, <2>1, NumberedSeq
  <2>3. x.end_seq = i
    BY <1>1, <1>6, <2>1 DEF Numbered, WriteSkb
  <2> QED
    BY <2>2, <2>3
<1> HIDE DEF x
<1>11. Len(w) = 1 /\ w[1] = x
  BY <1>9, <1>10
<1> HIDE DEF w, k, n
<1>12. d.wq = w /\ SameTimers(c, d) /\ DOMAIN d = DOMAIN c
  BY <1>9 DEF Tsk, SameTimers
<1> HIDE DEF d
<1>13. tcp_connect(s) = e
  BY <1>3, <1>5, <1>7
<1>14. e.wq = d.wq /\ SameTimers(d, e)
  <2>1. /\ "wq" \in DOMAIN d /\ "state" \in DOMAIN d /\ "ss" \in DOMAIN d
        /\ "freed" \in DOMAIN d /\ "armed" \in DOMAIN d /\ "thread" \in DOMAIN d
        /\ "retransmit" \in DOMAIN d /\ "linger" \in DOMAIN d
    BY <1>9, <1>12 DEF Tsk
  <2> HIDE DEF m
  <2> QED
    BY <2>1 DEF SameTimers
<1> HIDE DEF e
<1>15. SameTimers(b, e) /\ Len(e.wq) = 1 /\ e.wq[1] = x
  BY <1>9, <1>11, <1>12, <1>14 DEF SameTimers
<1>16. SlotOK(e) /\ Timed(e)
  BY <1>8, <1>15 DEF SlotOK, Timed, RtoKind, SameTimers
<1>17. SynOK(e)
  <2>1. e.wq[1].seq > 0 /\ e.wq[1].end_seq <= ISS
    BY <1>1, <1>10, <1>15 DEF i
  <2> QED
    BY <1>7, <1>15, <2>1 DEF SynOK, SameTimers
<1>18. DeletedOK(e) /\ LingerOK(e) /\ HeadTimed(e)
  BY <1>7, <1>8, <1>15, <1>16 DEF DeletedOK, LingerOK, HeadTimed, SameTimers, Before
<1> QED
  BY <1>13, <1>16, <1>17, <1>18 DEF LifeOK

----------------------------------------------------------------------------
(***************************************************************************)
(* The handlers, on a socket s from which the thread of the handler itself *)
(* has been taken: what it timed is no longer timed by that thread.        *)
(***************************************************************************)

\* A timer of kind k still runs after tsk->retransmit was dropped.
LEMMA ReleaseTimed ==
    ASSUME NEW s \in Tsk, NEW k \in {"conn", "rto"},
           s.retransmit.kind = k \/ s.armed[k] + s.thread[k] > 0,
           s.retransmit.kind = k /\ s.retransmit.fired => s.thread[k] > 0
    PROVE  LET a == tcp_release_rto_timer(s) IN a.armed[k] + a.thread[k] > 0
<1> DEFINE a == tcp_release_rto_timer(s)
<1>1. /\ a \in Tsk /\ a.thread = s.thread
      /\ \A i \in TimerKinds : a.armed[i] >= s.armed[i]
      /\ s.retransmit.kind # "none" /\ ~s.retransmit.fired =>
            a.armed[s.retransmit.kind] > 0
  BY ReleaseRtoTimers
<1> HIDE DEF a
<1>2. /\ s.armed[k] \in Nat /\ s.thread[k] \in Nat /\ a.armed[k] \in Nat
      /\ a.thread[k] = s.thread[k] /\ a.armed[k] >= s.armed[k]
  BY <1>1, Counts DEF TimerKinds
<1>3. CASE s.retransmit.kind = k /\ s.retransmit.fired
  <2>1. s.thread[k] > 0
    BY <1>3
  <2>2. a.armed[k] + a.thread[k] > 0
    BY <1>2, <2>1
  <2> QED
    BY <2>2 DEF a
<1>4. CASE s.retransmit.kind = k /\ ~s.retransmit.fired
  <2>1. a.armed[k] > 0
    BY <1>1, <1>4
  <2>2. a.armed[k] + a.thread[k] > 0
    BY <1>2, <2>1
  <2> QED
    BY <2>2 DEF a
<1>5. CASE s.armed[k] + s.thread[k] > 0
  <2>1. a.armed[k] + a.thread[k] > 0
    BY <1>2, <1>5
  <2> QED
    BY <2>1 DEF a
<1> QED
  BY <1>3, <1>4, <1>5

\* tcp_connect_rto, also when it comes after the establishment and drops the
\* pointer to a later timer.
LEMMA ConnectRtoLife ==
    ASSUME NEW s \in Tsk, SynOK(s), DeletedOK(s), LingerOK(s),
           s.state # "SYN_SENT" => HeadTimed(s),
           s.retransmit.kind = "rto" /\ s.retransmit.fired => s.thread["rto"] > 0
    PROVE  LifeOK(tcp_connect_rto(s))
<1> DEFINE a == tcp_release_rto_timer(s)
           p == a.poll \cup {"OUT", "ERR", "HUP"}
           b == [a EXCEPT !.err = "ETIMEDOUT", !.poll = p]
           c == tcp_transmit_skb(a, Head(a.wq), a.snd_una)
           k == c.backoff + 1
           d == [c EXCEPT !.backoff = k]
<1>1. /\ a \in Tsk /\ a.wq = s.wq /\ a.state = s.state /\ a.ss = s.ss
      /\ a.freed = s.freed /\ a.thread = s.thread /\ a.linger = s.linger
      /\ a.retransmit = NoTimer
      /\ \A i \in TimerKinds : a.armed[i] >= s.armed[i]
  BY ReleaseRtoTimers
<1>2. tcp_connect_rto(s) =
        IF a.state # "SYN_SENT" THEN a
        ELSE IF a.backoff > TCP_CONN_RETRIES THEN tcp_done(b)
        ELSE IF a.wq = << >> THEN a
        ELSE tcp_rearm_rto_timer(d)
  BY DEF tcp_connect_rto
<1>3. s.state # "SYN_SENT" /\ Timed(s) => a.armed["rto"] + a.thread["rto"] > 0
  BY ReleaseTimed DEF Timed, RtoKind
<1> HIDE DEF a
<1>4. Doomed(s) => Doomed(a)
  BY <1>1, MoreArmedDoomed
<1>5. SynOK(a) /\ DeletedOK(a) /\ LingerOK(a)
  BY <1>1, <1>4 DEF SynOK, DeletedOK, LingerOK
<1>6. ASSUME a.state # "SYN_SENT" PROVE LifeOK(a)
  <2>1. SlotOK(a)
    BY <1>1 DEF SlotOK, NoTimer
  <2>2. HeadTimed(a)
    BY <1>1, <1>3, <1>4, <1>6 DEF HeadTimed, Timed, RtoKind
  <2> QED
    BY <1>5, <2>1, <2>2 DEF LifeOK
<1>7. LifeOK(tcp_done(b))
  <2>1. p \in SUBSET PollEvents
    BY <1>1, Fields DEF PollEvents
  <2> HIDE DEF p
  <2>2. /\ b \in Tsk /\ b.ss = a.ss /\ b.armed = a.armed /\ b.thread = a.thread
        /\ b.freed = a.freed
    BY <1>1, <2>1 DEF Tsk, Errors
  <2> HIDE DEF b
  <2>3. DeletedOK(b)
    BY <1>5, <2>2 DEF DeletedOK, Doomed
  <2> QED
    BY <2>2, <2>3, DoneLife
<1>8. ASSUME a.wq # << >> PROVE LifeOK(tcp_rearm_rto_timer(d))
  <2>1. Head(a.wq) \in WriteSkb /\ a.snd_una \in Nat
    BY <1>1, <1>8, Fields
  <2>2. c \in Tsk /\ c.wq = a.wq /\ SameTimers(a, c)
    BY <1>1, <2>1, TransmitTimers
  <2> HIDE DEF c
  <2>3. k \in Nat
    BY <2>2, Fields
  <2> HIDE DEF k
  <2>4. d \in Tsk /\ d.wq = c.wq /\ SameTimers(c, d)
    BY <2>2, <2>3 DEF Tsk, SameTimers
  <2> HIDE DEF d
  <2>5. SynOK(d) /\ DeletedOK(d) /\ LingerOK(d)
    BY <1>5, <2>2, <2>4 DEF SynOK, DeletedOK, LingerOK, Doomed, SameTimers
  <2> QED
    BY <2>4, <2>5, RearmLife
<1>9. a.state = "SYN_SENT" => a.wq # << >>
  BY <1>5 DEF SynOK
<1> HIDE DEF b, d
<1> QED
  BY <1>2, <1>6, <1>7, <1>8, <1>9

\* tcp_retransmission_timeout, also when an earlier timer's handler comes late.
LEMMA RetransmissionLife ==
    ASSUME NEW s \in Tsk, SynOK(s), DeletedOK(s), LingerOK(s),
           s.state = "SYN_SENT" => HeadTimed(s),
           s.retransmit.kind = "conn" /\ s.retransmit.fired => s.thread["conn"] > 0
    PROVE  LifeOK(tcp_retransmission_timeout(s))
<1> DEFINE a == tcp_release_rto_timer(s)
           b == [a EXCEPT !.backoff = 0]
           c == tcp_transmit_skb(a, Head(a.wq), a.snd_una)
           d == tcp_done(c)
           p == d.poll \cup {"OUT", "ERR", "HUP"}
           e == [d EXCEPT !.err = "ETIMEDOUT", !.poll = p]
           r == 2 * c.rto
           k == c.backoff + 1
           g == timer_add("rto")
           f == [c EXCEPT !.rto = r, !.backoff = k, !.retransmit = g]
<1>1. /\ a \in Tsk /\ a.wq = s.wq /\ a.state = s.state /\ a.ss = s.ss
      /\ a.freed = s.freed /\ a.thread = s.thread /\ a.linger = s.linger
      /\ a.retransmit = NoTimer
      /\ \A i \in TimerKinds : a.armed[i] >= s.armed[i]
  BY ReleaseRtoTimers
<1>2. tcp_retransmission_timeout(s) =
        IF a.wq = << >> THEN tcp_notify_user(b)
        ELSE IF a.rto > RTO_MAX THEN e
        ELSE IF Head(a.wq).fin THEN tcp_handle_fin_state(f)
        ELSE f
  BY DEF tcp_retransmission_timeout
<1>3. s.state = "SYN_SENT" /\ Timed(s) => a.armed["conn"] + a.thread["conn"] > 0
  BY ReleaseTimed DEF Timed, RtoKind
<1> HIDE DEF a
<1>4. Doomed(s) => Doomed(a)
  BY <1>1, MoreArmedDoomed
<1>5. SynOK(a) /\ DeletedOK(a) /\ LingerOK(a)
  BY <1>1, <1>4 DEF SynOK, DeletedOK, LingerOK
<1>6. ASSUME a.wq = << >> PROVE LifeOK(tcp_notify_user(b))
  <2>1. b \in Tsk /\ b.wq = a.wq /\ SameTimers(a, b)
    BY <1>1 DEF Tsk, SameTimers
  <2> HIDE DEF b
  <2>2. SlotOK(b)
    BY <1>1, <2>1 DEF SlotOK, NoTimer, SameTimers
  <2>3. SynOK(b) /\ DeletedOK(b) /\ LingerOK(b) /\ HeadTimed(b)
    BY <1>5, <1>6, <2>1 DEF SynOK, DeletedOK, LingerOK, HeadTimed, Doomed, SameTimers
  <2>4. LifeOK(b)
    BY <2>2, <2>3 DEF LifeOK
  <2>5. /\ Steady(b, tcp_notify_user(b)) /\ tcp_notify_user(b) \in Tsk
        /\ tcp_notify_user(b).state = b.state
    BY <2>1, LightSteady, WakingQueue DEF SameQueue
  <2> QED
    BY <2>1, <2>4, <2>5, SteadyLife
<1>7. ASSUME a.wq # << >>
      PROVE  c \in Tsk /\ c.wq = a.wq /\ SameTimers(a, c)
  <2>1. Head(a.wq) \in WriteSkb /\ a.snd_una \in Nat
    BY <1>1, <1>7, Fields
  <2> QED
    BY <1>1, <2>1, TransmitTimers
<1> HIDE DEF c
<1>8. ASSUME a.wq # << >> PROVE LifeOK(e)
  <2>1. DeletedOK(c) /\ c \in Tsk
    BY <1>5, <1>7, <1>8 DEF DeletedOK, Doomed, SameTimers
  <2>2. LifeOK(d) /\ d \in Tsk
    BY <2>1, DoneLife
  <2> HIDE DEF d
  <2>3. p \in SUBSET PollEvents
    BY <2>2, Fields DEF PollEvents
  <2> HIDE DEF p
  <2>4. e \in Tsk /\ e.wq = d.wq /\ SameTimers(d, e)
    BY <2>2, <2>3 DEF Tsk, Errors, SameTimers
  <2> HIDE DEF e
  <2>5. Steady(d, e)
    BY <2>2, <2>4, SteadySame DEF SameTimers
  <2> QED
    BY <2>2, <2>4, <2>5, SteadyLife DEF SameTimers
<1>9. ASSUME a.wq # << >> PROVE LifeOK(f) /\ f \in Tsk
  <2>1. r \in Nat /\ k \in Nat /\ g \in TimerSlot
    BY <1>7, <1>9, Fields, SlotTyping DEF TimerKinds
  <2>2. g.kind = "rto" /\ ~g.fired
    BY DEF timer_add
  <2> HIDE DEF r, k, g
  <2>3. /\ f \in Tsk /\ f.wq = c.wq /\ f.state = c.state /\ f.ss = c.ss
        /\ f.freed = c.freed /\ f.armed = c.armed /\ f.thread = c.thread
        /\ f.linger = c.linger /\ f.retransmit = g
    BY <1>7, <1>9, <2>1 DEF Tsk
  <2> HIDE DEF f
  <2>4. /\ f.wq = a.wq /\ f.state = a.state /\ f.ss = a.ss
        /\ f.freed = a.freed /\ f.armed = a.armed /\ f.thread = a.thread
        /\ f.linger = a.linger
    BY <1>7, <1>9, <2>3 DEF SameTimers
  <2>5. SlotOK(f)
    BY <2>2, <2>3 DEF SlotOK
  <2>6. SynOK(f) /\ DeletedOK(f) /\ LingerOK(f)
    BY <1>5, <2>4 DEF SynOK, DeletedOK, LingerOK, Doomed
  <2>7. HeadTimed(f)
    <3>1. CASE f.state # "SYN_SENT"
      BY <2>2, <2>3, <3>1 DEF HeadTimed, Timed, RtoKind
    <3>2. CASE f.state = "SYN_SENT"
      <4>1. ~Doomed(f) => ~Doomed(s)
        BY <1>4, <2>4 DEF Doomed
      <4>2. f.wq # << >> /\ f.wq[1].seq > 0 /\ ~Doomed(f) => Timed(s)
        BY <1>1, <2>4, <3>2, <4>1 DEF HeadTimed
      <4> QED
        BY <1>1, <1>3, <2>4, <3>2, <4>2 DEF HeadTimed, Timed, RtoKind
    <3> QED
      BY <3>1, <3>2
  <2> QED
    BY <2>3, <2>5, <2>6, <2>7 DEF LifeOK
<1> HIDE DEF e, f, b
<1>10. ASSUME a.wq # << >> PROVE LifeOK(tcp_handle_fin_state(f))
  <2>1. /\ Steady(f, tcp_handle_fin_state(f)) /\ tcp_handle_fin_state(f) \in Tsk
    BY <1>9, <1>10, LightSteady, WakingQueue DEF SameQueue
  <2>2. \/ tcp_handle_fin_state(f).state = f.state
        \/ /\ f.state \in {"CLOSE_WAIT", "ESTABLISHED"}
           /\ tcp_handle_fin_state(f).state \in {"LAST_ACK", "FIN_WAIT_1"}
    BY <1>9, <1>10 DEF tcp_handle_fin_state, Tsk
  <2> QED
    BY <1>9, <1>10, <2>1, <2>2, SteadyLife DEF Before
<1> QED
  BY <1>2, <1>6, <1>8, <1>9, <1>10

----------------------------------------------------------------------------
(* Arriving segments *)

\* tcp_clean_rto_queue stops the timer only when nothing transmitted is left;
\* else the oldest buffer before was transmitted and timed.
LEMMA CleanTimers ==
    ASSUME NEW s \in Tsk, SendOK(s), NEW una \in Nat
    PROVE  LET t == tcp_clean_rto_queue(s, una) IN
           /\ t.state = s.state /\ t.ss = s.ss /\ t.freed = s.freed
           /\ t.armed = s.armed /\ t.thread = s.thread /\ t.linger = s.linger
           /\ t.snd_una = s.snd_una
           /\ \/ /\ t.retransmit = NoTimer
                 /\ t.wq # << >> => ~(t.wq[1].seq > 0)
              \/ /\ t.retransmit = s.retransmit /\ t.wq # << >>
                 /\ t.wq[1].seq > 0 => s.wq # << >> /\ s.wq[1].seq > 0
           /\ /\ Len(s.wq) = 1 /\ s.wq[1].seq > 0 /\ s.wq[1].end_seq <= una
              => t.wq = << >>
<1> DEFINE S == {j \in 1..Len(s.wq) : s.wq[j].seq > 0 /\ s.wq[j].end_seq <= una}
           n == Leading(Len(s.wq), S)
           w == SubSeq(s.wq, n + 1, Len(s.wq))
           k == IF s.inflight > n THEN s.inflight - n ELSE 0
           a == [s EXCEPT !.wq = w, !.inflight = k]
           b == [a EXCEPT !.retransmit = NoTimer, !.backoff = 0]
           t == tcp_clean_rto_queue(s, una)
<1>1. s.wq \in Seq(WriteSkb) /\ Len(s.wq) \in Nat
  BY Fields
<1>2. /\ n \in 0..Len(s.wq) /\ 1..n \subseteq S
      /\ n = Len(s.wq) \/ n + 1 \notin S
  BY <1>1, LeadingSpec
<1>3. t = IF a.wq = << >> \/ a.inflight = 0 THEN b ELSE a
  BY DEF tcp_clean_rto_queue, tcp_stop_rto_timer
<1>4. SendOK(t) /\ t \in Tsk
  BY CleanSend
<1> HIDE DEF n, t
<1>5. w # << >> => n < Len(s.wq)
  <2> SUFFICES ASSUME n = Len(s.wq) PROVE w = << >>
    BY <1>1, <1>2
  <2>1. ~(n + 1 <= Len(s.wq))
    BY <1>1
  <2> QED
    BY <1>1, <2>1 DEF SubSeq
<1>6. w # << >> => w[1] = s.wq[n + 1]
  <2> SUFFICES ASSUME w # << >> PROVE w[1] = s.wq[n + 1]
    OBVIOUS
  <2>1. n \in Nat /\ n < Len(s.wq)
    BY <1>1, <1>2, <1>5
  <2>2. \A i \in (n + 1)..Len(s.wq) : s.wq[i] \in WriteSkb
    BY <1>1, <2>1
  <2>3. 1 \in 1..(Len(s.wq) - (n + 1) + 1)
    BY <1>1, <2>1
  <2>4. w[1] = s.wq[n + 1 + 1 - 1]
    BY <1>1, <2>1, <2>2, <2>3, SubSeqProperties
  <2>5. n + 1 + 1 - 1 = n + 1
    BY <2>1
  <2> QED
    BY <2>4, <2>5
<1>7. w # << >> /\ w[1].seq > 0 => s.wq # << >> /\ s.wq[1].seq > 0
  <2> SUFFICES ASSUME w # << >>, w[1].seq > 0 PROVE s.wq # << >> /\ s.wq[1].seq > 0
    OBVIOUS
  <2>1. s.wq # << >>
    BY <1>1, <1>2, <1>5
  <2>2. CASE n = 0
    BY <1>6, <2>1, <2>2
  <2>3. CASE n # 0
    <3>1. 1 \in 1..n
      BY <1>2, <2>3
    <3> QED
      BY <1>2, <2>1, <3>1
  <2> QED
    BY <2>2, <2>3
<1>8. ASSUME Len(s.wq) = 1, s.wq[1].seq > 0, s.wq[1].end_seq <= una
      PROVE  w = << >>
  <2>1. 1 \in S
    BY <1>8
  <2>2. n = 1
    BY <1>2, <1>8, <2>1
  <2> QED
    BY <1>5, <1>8, <2>2
<1> HIDE DEF w, k, S
<1>9. /\ a.wq = w /\ a.state = s.state /\ a.ss = s.ss /\ a.freed = s.freed
      /\ a.armed = s.armed /\ a.thread = s.thread /\ a.linger = s.linger
      /\ a.snd_una = s.snd_una /\ a.retransmit = s.retransmit
      /\ DOMAIN a = DOMAIN s
  BY DEF Tsk
<1> HIDE DEF a
<1>10. /\ b.wq = w /\ b.state = s.state /\ b.ss = s.ss /\ b.freed = s.freed
       /\ b.armed = s.armed /\ b.thread = s.thread /\ b.linger = s.linger
       /\ b.snd_una = s.snd_una /\ b.retransmit = NoTimer
       /\ b.inflight = a.inflight
  <2>1. /\ "wq" \in DOMAIN a /\ "state" \in DOMAIN a /\ "ss" \in DOMAIN a
        /\ "freed" \in DOMAIN a /\ "armed" \in DOMAIN a /\ "thread" \in DOMAIN a
        /\ "retransmit" \in DOMAIN a /\ "linger" \in DOMAIN a
        /\ "snd_una" \in DOMAIN a /\ "inflight" \in DOMAIN a
    BY <1>9 DEF Tsk
  <2>2. /\ b.wq = a.wq /\ b.state = a.state /\ b.ss = a.ss /\ b.freed = a.freed
        /\ b.armed = a.armed /\ b.thread = a.thread /\ b.linger = a.linger
        /\ b.snd_una = a.snd_una /\ b.retransmit = NoTimer
        /\ b.inflight = a.inflight
    BY <2>1
  <2> QED
    BY <1>9, <2>2
<1> HIDE DEF b
<1>11. /\ t.state = s.state /\ t.ss = s.ss /\ t.freed = s.freed
       /\ t.armed = s.armed /\ t.thread = s.thread /\ t.linger = s.linger
       /\ t.snd_una = s.snd_una /\ t.wq = w
  BY <1>3, <1>9, <1>10
<1>12. CASE a.wq = << >> \/ a.inflight = 0
  <2>1. t = b
    BY <1>3, <1>12
  <2>2. t.wq # << >> => ~(t.wq[1].seq > 0)
    <3> SUFFICES ASSUME t.wq # << >>, t.wq[1].seq > 0 PROVE FALSE
      OBVIOUS
    <3>1. t.inflight = 0
      BY <1>9, <1>10, <1>11, <1>12, <2>1
    <3>2. t.wq \in Seq(WriteSkb)
      BY <1>4, Fields
    <3>3. Sent(t.wq) = {}
      BY <1>4, <3>1, <3>2, SentFinite DEF SendOK
    <3>4. 1 \in 1..Len(t.wq)
      BY <3>2
    <3> QED
      BY <3>3, <3>4 DEF Sent
  <2> QED
    BY <1>8, <1>10, <1>11, <2>1, <2>2 DEF t
<1>13. CASE ~(a.wq = << >> \/ a.inflight = 0)
  BY <1>3, <1>7, <1>8, <1>9, <1>11, <1>13 DEF t
<1> QED
  BY <1>12, <1>13

\* The ACK of a segment.
LEMMA CleanLife ==
    ASSUME NEW s \in Tsk, SendOK(s), LifeOK(s), s.state # "SYN_SENT", NEW una \in Nat
    PROVE  LifeOK(tcp_clean_rto_queue(s, una))
<1> DEFINE t == tcp_clean_rto_queue(s, una)
<1>1. t \in Tsk
  BY CleanSend
<1>2. /\ t.state = s.state /\ t.ss = s.ss /\ t.freed = s.freed
      /\ t.armed = s.armed /\ t.thread = s.thread /\ t.linger = s.linger
      /\ \/ /\ t.retransmit = NoTimer
            /\ t.wq # << >> => ~(t.wq[1].seq > 0)
         \/ /\ t.retransmit = s.retransmit
            /\ t.wq[1].seq > 0 => s.wq # << >> /\ s.wq[1].seq > 0
  BY CleanTimers
<1> HIDE DEF t
<1>3. CASE t.retransmit = s.retransmit /\ (t.wq[1].seq > 0 => s.wq # << >> /\ s.wq[1].seq > 0)
  <2>1. SameTimers(s, t)
    BY <1>2, <1>3 DEF SameTimers
  <2>2. LifeOK(t)
    BY <1>1, <1>3, <2>1, OtherQueueLife
  <2> QED
    BY <2>2 DEF t
<1>4. CASE t.retransmit = NoTimer /\ (t.wq # << >> => ~(t.wq[1].seq > 0))
  <2>1. SlotOK(t)
    BY <1>4 DEF SlotOK, NoTimer
  <2>2. Doomed(t) <=> Doomed(s)
    BY <1>2 DEF Doomed
  <2>3. SynOK(t) /\ DeletedOK(t) /\ LingerOK(t)
    BY <1>2, <2>2 DEF LifeOK, SynOK, DeletedOK, LingerOK
  <2>4. HeadTimed(t)
    BY <1>4 DEF HeadTimed
  <2>5. LifeOK(t)
    BY <2>1, <2>3, <2>4 DEF LifeOK
  <2> QED
    BY <2>5 DEF t
<1> QED
  BY <1>2, <1>3, <1>4

\* A segment in SYN_SENT: the SYN leaves the queue with the acknowledgment, and
\* the user timeout starts.
LEMMA SynsentLife ==
    ASSUME NEW s \in Tsk, SendOK(s), LifeOK(s), s.state = "SYN_SENT",
           NEW th \in InSegment, th.syn => th.ack
    PROVE  LifeOK(tcp_synsent(s, th))
<1> DEFINE m == th.seq + 1
           a == [s EXCEPT !.rcv_nxt = m]
           u == th.ack_seq
           a2 == [a EXCEPT !.snd_una = u]
           b == tcp_clean_rto_queue(a2, u)
           v == b.snd_nxt
           r == RTO_INIT
           c == [b EXCEPT !.state = "ESTABLISHED", !.snd_una = v,
                          !.backoff = 0, !.rto = r]
           c1 == tcp_send_ack(c)
           c2 == tcp_rearm_user_timeout(c1)
           d == sock_connected(c2)
<1>1. m \in Nat /\ u \in Nat /\ r \in Nat /\ ISS \in Nat /\ s.snd_nxt \in Nat
  BY TcpConstants, Fields DEF InSegment
<1>2. \/ tcp_synsent(s, th) = s
      \/ tcp_synsent(s, th) = tcp_reset(s)
      \/ u > ISS /\ b.snd_una > ISS /\ tcp_synsent(s, th) = d
      \/ u > ISS /\ ~(b.snd_una > ISS)
  <2>1. ASSUME th.ack /\ (th.ack_seq <= ISS \/ th.ack_seq > s.snd_nxt)
        PROVE  tcp_synsent(s, th) = s
    BY <2>1 DEF tcp_synsent
  <2>2. ASSUME ~(th.ack /\ (th.ack_seq <= ISS \/ th.ack_seq > s.snd_nxt)), th.rst
        PROVE  tcp_synsent(s, th) = tcp_reset(s)
    BY <2>2 DEF tcp_synsent
  <2>3. ASSUME ~(th.ack /\ (th.ack_seq <= ISS \/ th.ack_seq > s.snd_nxt)), ~th.rst, ~th.syn
        PROVE  tcp_synsent(s, th) = s
    BY <2>3 DEF tcp_synsent
  <2>4. ASSUME ~(th.ack /\ (th.ack_seq <= ISS \/ th.ack_seq > s.snd_nxt)), ~th.rst,
               th.syn, b.snd_una > ISS
        PROVE  tcp_synsent(s, th) = d
    BY <2>4, Zenon DEF tcp_synsent
  <2>5. th.ack /\ ~(th.ack_seq <= ISS \/ th.ack_seq > s.snd_nxt) => u > ISS
    BY <1>1
  <2> QED
    BY <2>1, <2>2, <2>3, <2>4, <2>5
<1> HIDE DEF m, u, r
<1>3. SameQueue(s, a) /\ a \in Tsk
  BY <1>1 DEF Tsk, SameQueue
<1> HIDE DEF a
<1>4. SameQueue(a, a2) /\ a2 \in Tsk /\ a2.snd_una = u
  BY <1>1, <1>3 DEF Tsk, SameQueue
<1> HIDE DEF a2
<1>5. SendOK(a2) /\ a2.wq = s.wq
  BY <1>3, <1>4, SameQueueOK DEF SameQueue
<1>6. b \in Tsk /\ b.snd_una = u
  BY <1>1, <1>4, <1>5, CleanSend, CleanTimers
<1>7. ASSUME u > ISS PROVE b.wq = << >> /\ b.retransmit = NoTimer
  <2>1. s.wq \in Seq(WriteSkb) /\ Len(s.wq) = 1 /\ s.wq[1].seq > 0 /\ s.wq[1].end_seq <= ISS
    BY Fields DEF LifeOK, SynOK
  <2>2. s.wq[1] \in WriteSkb
    BY <2>1
  <2>3. s.wq[1].end_seq \in Nat
    BY <2>2 DEF WriteSkb
  <2>4. s.wq[1].end_seq <= u
    BY <1>1, <1>7, <2>1, <2>3
  <2>5. b.wq = << >>
    BY <1>1, <1>4, <1>5, <2>1, <2>4, CleanTimers
  <2>6. b.retransmit = NoTimer \/ b.wq # << >>
    BY <1>1, <1>4, <1>5, CleanTimers
  <2> QED
    BY <2>5, <2>6
<1> HIDE DEF b
<1>8. v \in Nat
  BY <1>6, Fields
<1> HIDE DEF v
<1>9. ASSUME u > ISS PROVE LifeOK(d)
  <2>1. /\ c \in Tsk /\ c.state = "ESTABLISHED" /\ c.wq = << >>
        /\ c.retransmit = NoTimer
    BY <1>1, <1>6, <1>7, <1>8, <1>9 DEF Tsk, TcpStates
  <2> HIDE DEF c
  <2>2. Steady(c, c1) /\ c1 \in Tsk /\ c1.state = "ESTABLISHED"
    BY <2>1, LightSteady, WakingQueue DEF SameQueue
  <2> HIDE DEF c1
  <2>3. /\ Steady(c1, c2) /\ c2 \in Tsk /\ c2.state = "ESTABLISHED"
        /\ c2.linger.kind # "none"
    <3> DEFINE g == timer_add("user")
    <3>1. g.kind = "user"
      BY DEF timer_add
    <3>2. c2 = [c1 EXCEPT !.linger = g]
      BY <2>2 DEF tcp_rearm_user_timeout
    <3> HIDE DEF g
    <3>3. c2.linger = g
      BY <2>2, <3>2 DEF Tsk
    <3> QED
      BY <2>2, <3>1, <3>3, LightSteady, TimersQueue DEF SameQueue
  <2> HIDE DEF c2
  <2>4. /\ Steady(c2, d) /\ d \in Tsk /\ d.state = "ESTABLISHED" /\ d.ss = "CONNECTED"
    <3>1. d.ss = "CONNECTED"
      BY <2>3 DEF sock_connected, Tsk
    <3> QED
      BY <2>3, <3>1, LightSteady, WakingQueue DEF SameQueue
  <2> HIDE DEF d
  <2>5. d.wq = << >> /\ d.retransmit = NoTimer /\ d.linger.kind # "none"
    BY <2>1, <2>2, <2>3, <2>4 DEF Steady
  <2>6. SlotOK(d)
    BY <2>5 DEF SlotOK, NoTimer
  <2>7. SynOK(d) /\ DeletedOK(d) /\ HeadTimed(d) /\ LingerOK(d)
    BY <2>4, <2>5 DEF SynOK, DeletedOK, HeadTimed, LingerOK
  <2> QED
    BY <2>6, <2>7 DEF LifeOK
<1>10. LifeOK(tcp_reset(s))
  BY AbortLife DEF LifeOK
<1> HIDE DEF d
<1> QED
  BY <1>2, <1>6, <1>9, <1>10

\* The ACK of a segment.
LEMMA ProcessAckLife ==
    ASSUME NEW s \in Tsk, SendOK(s), LifeOK(s), s.state # "SYN_SENT",
           NEW th \in InSegment, NEW r \in Nat
    PROVE  /\ LifeOK(ProcessAck(s, th, r))
           /\ ProcessAck(s, th, r).state = s.state
<1> DEFINE u == th.ack_seq
           b == [s EXCEPT !.snd_una = u]
           c == tcp_rtt(b, r)
           d == tcp_clean_rto_queue(c, u)
<1>1. u \in Nat /\ s.state # "SYN_RECEIVED"
  BY DEF InSegment, LifeOK, SynOK
<1>2. ProcessAck(s, th, r) = s \/ ProcessAck(s, th, r) = d
  BY <1>1 DEF ProcessAck
<1> HIDE DEF u
<1>3. b \in Tsk /\ b.wq = s.wq /\ SameTimers(s, b) /\ SameQueue(s, b)
  BY <1>1 DEF Tsk, SameTimers, SameQueue
<1> HIDE DEF b
<1>4. SameQueue(b, c) /\ c \in Tsk /\ c.state = b.state
  BY <1>3 DEF tcp_rtt, SameQueue, Tsk
<1>5. Steady(s, b)
  BY <1>3, SteadySame DEF SameTimers
<1>6. Steady(b, c)
  BY <1>3, LightSteady
<1> HIDE DEF c
<1>7. LifeOK(c) /\ SendOK(c) /\ c.state = s.state
  <2>1. Steady(s, c)
    BY <1>3, <1>4, <1>5, <1>6, SteadyTransitive
  <2>2. c.state = s.state /\ SendOK(c)
    BY <1>3, <1>4, SameQueueOK DEF SameTimers
  <2> QED
    BY <1>4, <2>1, <2>2, SteadyLife
<1>8. LifeOK(d) /\ d.state = s.state
  BY <1>1, <1>4, <1>7, CleanLife, CleanTimers
<1> HIDE DEF d
<1> QED
  BY <1>2, <1>8

\* The closing handshake on an empty queue and the payload.
LEMMA TextSteady ==
    ASSUME NEW s \in Tsk, NEW th \in InSegment
    PROVE  Steady(s, QueueEmptied(s, th)) /\ Steady(s, ProcessText(s, th))
<1>1. Steady(s, s)
  BY LightSteady
<1>2. Steady(s, QueueEmptied(s, th))
  <2> DEFINE a == [s EXCEPT !.state = "FIN_WAIT_2"]
             b == [s EXCEPT !.state = "TIME_WAIT"]
             c == [s EXCEPT !.fin = TRUE]
  <2>1. \/ QueueEmptied(s, th) = s \/ QueueEmptied(s, th) = a
        \/ QueueEmptied(s, th) = b \/ QueueEmptied(s, th) = tcp_send_ack(c)
    BY DEF QueueEmptied
  <2>2. a \in Tsk /\ b \in Tsk /\ c \in Tsk
    BY DEF Tsk, TcpStates
  <2>3. Steady(s, a) /\ Steady(s, b) /\ Steady(s, c)
    <3> DEFINE Same(t) == /\ t.wq = s.wq /\ t.retransmit = s.retransmit
                          /\ t.linger = s.linger /\ t.armed = s.armed
                          /\ t.thread = s.thread /\ t.ss = s.ss /\ t.freed = s.freed
    <3>1. Same(a) /\ Same(b) /\ Same(c)
      BY DEF Tsk
    <3> HIDE DEF a, b, c
    <3> QED
      BY <3>1, SteadySame
  <2> HIDE DEF a, b, c
  <2>4. Steady(c, tcp_send_ack(c)) /\ tcp_send_ack(c) \in Tsk
    BY <2>2, LightSteady, SendAckKeeps DEF Keeps
  <2> QED
    BY <1>1, <2>1, <2>2, <2>3, <2>4, SteadyTransitive
<1>3. Steady(s, tcp_data_queue(s, th))
  <2> DEFINE skb == [seq |-> th.seq, dlen |-> th.dlen, data |-> th.data, psh |-> th.psh]
             m == s.rcv_nxt + th.dlen
             q == Append(s.rq, skb)
             a == [s EXCEPT !.rcv_nxt = m, !.rq = q]
             b == tcp_consume_ofo_queue(a)
             p == b.poll \cup {"IN"}
             c == [b EXCEPT !.poll = p]
             o == tcp_data_insert_ordered(s.ofo, skb)
             d == [s EXCEPT !.ofo = o]
  <2>1. /\ s.rcv_nxt \in Nat /\ s.rq \in Seq(ReadSkb) /\ s.ofo \in Seq(ReadSkb)
        /\ th.dlen \in Nat
    BY Fields DEF InSegment
  <2>2. skb \in ReadSkb
    BY DEF ReadSkb, InSegment
  <2>3. tcp_data_queue(s, th) =
          IF th.seq = s.rcv_nxt THEN tcp_recv_notify(c) ELSE tcp_send_ack(d)
    BY DEF tcp_data_queue
  <2> HIDE DEF skb
  <2>4. m \in Nat /\ q \in Seq(ReadSkb) /\ o \in Seq(ReadSkb)
    BY <2>1, <2>2, InsertOrdered
  <2> HIDE DEF m, q, o
  <2>5. /\ a \in Tsk /\ d \in Tsk
    BY <2>4 DEF Tsk
  <2>6. /\ a.wq = s.wq /\ SameTimers(s, a)
        /\ d.wq = s.wq /\ SameTimers(s, d)
    BY DEF Tsk, SameTimers
  <2> HIDE DEF a, d
  <2>7. b \in Tsk /\ b.wq = a.wq /\ SameTimers(a, b)
    <3>1. b \in Tsk
      BY <2>5, ConsumeEffect
    <3>2. b = a \/ \E x, y, z : b = [a EXCEPT !.rcv_nxt = x, !.rq = y, !.ofo = z]
      BY DEF tcp_consume_ofo_queue
    <3> HIDE DEF b
    <3> QED
      BY <2>5, <3>1, <3>2 DEF SameTimers, Tsk
  <2> HIDE DEF b
  <2>8. p \in SUBSET PollEvents
    BY <2>7, Fields DEF PollEvents
  <2> HIDE DEF p
  <2>9. c \in Tsk /\ c.wq = b.wq /\ SameTimers(b, c)
    BY <2>7, <2>8 DEF Tsk, SameTimers
  <2> HIDE DEF c
  <2>10. Steady(s, c) /\ Steady(s, d)
    BY <2>6, <2>7, <2>9, SteadySame DEF SameTimers
  <2>11. /\ Steady(c, tcp_recv_notify(c)) /\ tcp_recv_notify(c) \in Tsk
         /\ Steady(d, tcp_send_ack(d)) /\ tcp_send_ack(d) \in Tsk
    BY <2>5, <2>9, LightSteady, WakingQueue DEF SameQueue
  <2> QED
    BY <2>3, <2>5, <2>9, <2>10, <2>11, SteadyTransitive
<1> QED
  BY <1>1, <1>2, <1>3 DEF ProcessText

\* The FIN of the peer.
LEMMA ProcessFinLife ==
    ASSUME NEW s \in Tsk, LifeOK(s), NEW th \in InSegment, NEW expected \in BOOLEAN
    PROVE  LifeOK(ProcessFin(s, th, expected))
<1> DEFINE n == s.rcv_nxt + 1
           p == s.poll \cup {"IN"}
           a == [s EXCEPT !.rcv_nxt = n, !.fin = TRUE, !.poll = p]
           b == tcp_send_ack(a)
           c == tcp_recv_notify(b)
           d == tcp_enter_time_wait(c)
           cw == [c EXCEPT !.state = "CLOSE_WAIT"]
           cl == [c EXCEPT !.state = "CLOSING"]
<1>1. n \in Nat /\ p \in SUBSET PollEvents
  BY Fields DEF PollEvents
<1>2. \/ ProcessFin(s, th, expected) = s
      \/ ProcessFin(s, th, expected) = cw /\ s.state = "ESTABLISHED"
      \/ ProcessFin(s, th, expected) = cl /\ s.state = "FIN_WAIT_1"
      \/ ProcessFin(s, th, expected) = d
      \/ ProcessFin(s, th, expected) = c
  BY DEF ProcessFin
<1> HIDE DEF n, p
<1>3. a \in Tsk /\ a.wq = s.wq /\ SameTimers(s, a)
  BY <1>1 DEF Tsk, SameTimers
<1> HIDE DEF a
<1>4. Steady(s, a) /\ a.state = s.state
  BY <1>3, SteadySame DEF SameTimers
<1>5. b \in Tsk /\ Steady(a, b) /\ b.state = s.state
  BY <1>3, <1>4, WakingQueue, LightSteady DEF SameQueue
<1> HIDE DEF b
<1>6. c \in Tsk /\ Steady(b, c) /\ c.state = s.state
  BY <1>5, WakingQueue, LightSteady DEF SameQueue
<1> HIDE DEF c
<1>7. Steady(s, c)
  BY <1>3, <1>4, <1>5, <1>6, SteadyTransitive
<1>8. LifeOK(c)
  BY <1>6, <1>7, SteadyLife
<1>9. LifeOK(d)
  BY <1>6, <1>8, TimeWaitLife DEF LifeOK
<1>10. ASSUME NEW x \in {"CLOSE_WAIT", "CLOSING"},
              s.state \in {"ESTABLISHED", "FIN_WAIT_1"}
       PROVE  LifeOK([c EXCEPT !.state = x])
  <2> DEFINE t == [c EXCEPT !.state = x]
  <2>1. /\ t \in Tsk /\ t.state = x /\ t.wq = c.wq /\ t.retransmit = c.retransmit
        /\ t.linger = c.linger /\ t.armed = c.armed /\ t.thread = c.thread
        /\ t.ss = c.ss /\ t.freed = c.freed
    BY <1>6 DEF Tsk, TcpStates
  <2> HIDE DEF t
  <2>2. Steady(c, t)
    BY <1>6, <2>1, SteadySame
  <2>3. LifeOK(t)
    BY <1>6, <1>8, <1>10, <2>1, <2>2, SteadyLife DEF Before
  <2> QED
    BY <2>3 DEF t
<1> HIDE DEF d
<1> QED
  BY <1>2, <1>8, <1>9, <1>10

\* tcp_send_next leaves the timer to its caller.
LEMMA SendQueuedTimers ==
    ASSUME NEW s \in Tsk, NEW i \in 1..Len(s.wq)
    PROVE  SameTimers(s, SendQueued(s, i))
<1> DEFINE skb == s.wq[i]
           q == s.snd_nxt
           a == tcp_transmit_skb(s, skb, q)
           n == SeqAfter(skb, q)
           w == [a.wq EXCEPT ![i] = Numbered(skb, q)]
           t == [a EXCEPT !.snd_nxt = n, !.wq = w]
<1>1. s.wq \in Seq(WriteSkb) /\ q \in Nat
  BY Fields
<1>2. skb \in WriteSkb
  BY <1>1
<1>3. SendQueued(s, i) = t
  BY DEF SendQueued
<1>4. a \in Tsk /\ SameTimers(s, a)
  BY <1>1, <1>2, TransmitTimers
<1> HIDE DEF a, n, w
<1>5. SameTimers(a, t)
  BY <1>4 DEF SameTimers, Tsk
<1> HIDE DEF t
<1> QED
  BY <1>3, <1>4, <1>5 DEF SameTimers

\* The same of a flight of up to three buffers.
LEMMA SendNextTimers ==
    ASSUME NEW s \in Tsk, NEW amount \in 1..3, amount <= Len(s.wq)
    PROVE  SameTimers(s, tcp_send_next(s, amount))
<1> DEFINE a == SendQueued(s, 1)
           b == IF amount >= 2 THEN SendQueued(a, 2) ELSE a
           c == IF amount >= 3 THEN SendQueued(b, 3) ELSE b
<1>1. s.wq \in Seq(WriteSkb) /\ Len(s.wq) \in Nat
  BY Fields
<1>2. tcp_send_next(s, amount) = c
  BY DEF tcp_send_next
<1>3. a \in Tsk /\ Len(a.wq) = Len(s.wq) /\ SameTimers(s, a)
  <2>1. 1 \in 1..Len(s.wq)
    BY <1>1
  <2> QED
    BY <2>1, SendQueuedKeeps, SendQueuedTimers DEF Keeps
<1> HIDE DEF a
<1>4. b \in Tsk /\ Len(b.wq) = Len(s.wq) /\ SameTimers(s, b)
  <2>1. CASE amount >= 2
    <3>1. 2 \in 1..Len(a.wq) /\ b = SendQueued(a, 2)
      BY <1>1, <1>3, <2>1
    <3> HIDE DEF b
    <3>2. b \in Tsk /\ Len(b.wq) = Len(a.wq) /\ SameTimers(a, b)
      BY <1>3, <3>1, SendQueuedKeeps, SendQueuedTimers DEF Keeps
    <3> QED
      BY <1>3, <3>2 DEF SameTimers
  <2>2. CASE ~(amount >= 2)
    BY <1>3, <2>2
  <2> QED
    BY <2>1, <2>2
<1> HIDE DEF b
<1>5. SameTimers(s, c)
  <2>1. CASE amount >= 3
    <3>1. 3 \in 1..Len(b.wq) /\ c = SendQueued(b, 3)
      BY <1>1, <1>4, <2>1
    <3> HIDE DEF c
    <3>2. SameTimers(b, c)
      BY <1>4, <3>1, SendQueuedTimers
    <3> QED
      BY <1>4, <3>2 DEF SameTimers
  <2>2. CASE ~(amount >= 3)
    BY <1>4, <2>2
  <2> QED
    BY <2>1, <2>2
<1> QED
  BY <1>2, <1>5

\* The next flight is timed; an acknowledgment, now or later, changes nothing.
LEMMA SendMoreLife ==
    ASSUME NEW s \in Tsk, SendOK(s), LifeOK(s),
           NEW th \in InSegment, NEW expected \in BOOLEAN
    PROVE  LifeOK(SendMoreOrAck(s, th, expected))
<1> DEFINE a == tcp_stop_delack_timer(s)
           pending == MinOf(Len(a.wq), 3)
           big == th.dlen > DELACK_LEN
           n == a.delacks + 1
           b == [a EXCEPT !.delacks = n]
           c == IF big /\ ~th.psh THEN b ELSE a
           d == tcp_send_next(a, pending)
           k == d.inflight + pending
           e == [d EXCEPT !.inflight = k]
           f == [c EXCEPT !.delacks = 0]
           g == [c EXCEPT !.delack = timer_add("delack")]
<1>1. \/ SendMoreOrAck(s, th, expected) = s
      \/ /\ pending > 0 /\ a.inflight = 0 /\ s.state \in TextStates
         /\ SendMoreOrAck(s, th, expected) = tcp_rearm_rto_timer(e)
      \/ SendMoreOrAck(s, th, expected) = tcp_send_ack(f)
      \/ SendMoreOrAck(s, th, expected) = g
      \/ SendMoreOrAck(s, th, expected) = c
  BY DEF SendMoreOrAck
<1>2. SameQueue(s, a) /\ a \in Tsk /\ a.state = s.state /\ Steady(s, a)
  BY TimersQueue, LightSteady DEF SameQueue
<1> HIDE DEF a
<1>3. SendOK(a) /\ LifeOK(a)
  BY <1>2, SameQueueOK, SteadyLife
<1>4. pending \in 0..3 /\ pending <= Len(a.wq)
  <2> DEFINE l == Len(a.wq)
  <2>1. l \in Nat
    BY <1>2, Fields
  <2>2. pending = IF l <= 3 THEN l ELSE 3
    BY DEF MinOf
  <2> HIDE DEF l, pending
  <2>3. pending \in 0..3 /\ pending <= l
    BY <2>1, <2>2
  <2> QED
    BY <2>3 DEF l
<1>5. n \in Nat
  BY <1>2, Fields
<1> HIDE DEF pending, big, n
<1>6. c \in Tsk /\ c.wq = a.wq /\ SameTimers(a, c)
  <2>1. b \in Tsk /\ b.wq = a.wq /\ SameTimers(a, b)
    BY <1>2, <1>5 DEF SameTimers, Tsk
  <2>2. SameTimers(a, a)
    BY DEF SameTimers
  <2> HIDE DEF b
  <2> QED
    BY <1>2, <2>1, <2>2
<1> HIDE DEF c
<1>7. ASSUME pending > 0, a.inflight = 0, s.state \in TextStates
      PROVE  LifeOK(tcp_rearm_rto_timer(e))
  <2>1. pending \in 1..3
    BY <1>4, <1>7
  <2>2. d \in Tsk /\ SameTimers(a, d)
    <3>1. a.wq \in Seq(WriteSkb) /\ a.snd_nxt > 0 /\ Cardinality(Sent(a.wq)) = 0
      BY <1>2, <1>3, <1>7, Fields DEF SendOK
    <3>2. Sent(a.wq) = {}
      BY <3>1, SentFinite
    <3> QED
      BY <1>2, <1>4, <2>1, <3>1, <3>2, SendNextSend, SendNextTimers
  <2> HIDE DEF d
  <2>3. k \in Nat
    BY <2>1, <2>2, Fields
  <2> HIDE DEF k
  <2>4. e \in Tsk /\ SameTimers(d, e)
    BY <2>2, <2>3 DEF Tsk, SameTimers
  <2> HIDE DEF e
  <2>5. SynOK(e) /\ DeletedOK(e) /\ LingerOK(e)
    BY <1>2, <1>3, <1>7, <2>2, <2>4
       DEF LifeOK, SynOK, DeletedOK, LingerOK, Doomed, SameTimers, TextStates
  <2> QED
    BY <2>4, <2>5, RearmLife
<1>8. ASSUME NEW t \in Tsk, t.wq = c.wq, SameTimers(c, t)
      PROVE  LifeOK(t)
  <2>1. Steady(a, t) /\ t.state = a.state
    BY <1>2, <1>6, <1>8, SteadySame DEF SameTimers
  <2> QED
    BY <1>2, <1>3, <2>1, SteadyLife
<1>9. LifeOK(tcp_send_ack(f))
  <2>1. f \in Tsk /\ f.wq = c.wq /\ SameTimers(c, f)
    BY <1>6 DEF SameTimers, Tsk
  <2> HIDE DEF f
  <2>2. LifeOK(f)
    BY <1>8, <2>1
  <2>3. /\ Steady(f, tcp_send_ack(f)) /\ tcp_send_ack(f) \in Tsk
        /\ tcp_send_ack(f).state = f.state
    BY <2>1, LightSteady, WakingQueue DEF SameQueue
  <2> QED
    BY <2>1, <2>2, <2>3, SteadyLife
<1>10. LifeOK(g)
  <2>1. timer_add("delack") \in TimerSlot
    BY SlotTyping DEF TimerKinds
  <2>2. g \in Tsk /\ g.wq = c.wq /\ SameTimers(c, g)
    BY <1>6, <2>1 DEF SameTimers, Tsk
  <2> HIDE DEF g
  <2> QED
    BY <1>8, <2>2
<1>11. LifeOK(c)
  BY <1>6, <1>8 DEF SameTimers
<1> HIDE DEF e, f, g
<1> QED
  BY <1>1, <1>7, <1>9, <1>10, <1>11

\* A whole segment.
LEMMA SegmentLife ==
    ASSUME NEW s \in Tsk, SendOK(s), LifeOK(s), s.state # "SYN_SENT",
           NEW th \in InSegment, NEW r \in Nat
    PROVE  LET a == ProcessAck(s, th, r) IN
           LifeOK(tcp_done(a)) /\ LifeOK(ProcessRest(a, th))
<1> DEFINE a == ProcessAck(s, th, r)
           b == QueueEmptied(a, th)
           expected == th.seq = b.rcv_nxt
           c == ProcessText(b, th)
           d == ProcessFin(c, th, expected)
           e == SendMoreOrAck(d, th, expected)
<1>1. SendOK(a) /\ a \in Tsk /\ LifeOK(a) /\ a.state = s.state
  BY ProcessAckSend, ProcessAckLife
<1>2. ProcessRest(a, th) = e
  BY DEF ProcessRest
<1> HIDE DEF a
<1>3. LifeOK(tcp_done(a))
  BY <1>1, DoneLife DEF LifeOK
<1>4. /\ SameQueue(a, b) /\ b \in Tsk /\ Steady(a, b)
      /\ \/ b.state = a.state
         \/ a.state = "FIN_WAIT_1" /\ b.state = "FIN_WAIT_2"
         \/ a.state = "CLOSING" /\ b.state = "TIME_WAIT"
  BY <1>1, QueueEmptiedSend, TextSteady DEF SameQueue
<1> HIDE DEF b
<1>5. LifeOK(b)
  BY <1>1, <1>4, SteadyLife DEF Before
<1>6. SameQueue(b, c) /\ c \in Tsk /\ c.state = b.state /\ Steady(b, c)
  BY <1>4, ProcessTextQueue, TextSteady DEF SameQueue
<1> HIDE DEF c
<1>7. LifeOK(c)
  BY <1>4, <1>5, <1>6, SteadyLife
<1>8. expected \in BOOLEAN
  OBVIOUS
<1> HIDE DEF expected
<1>9. SameQueue(c, d) /\ d \in Tsk /\ LifeOK(d)
  BY <1>6, <1>7, <1>8, ProcessFinSend, ProcessFinLife DEF SameQueue
<1> HIDE DEF d
<1>10. SendOK(d)
  BY <1>1, <1>4, <1>6, <1>9, SameQueueOK
<1>11. LifeOK(e)
  BY <1>8, <1>9, <1>10, SendMoreLife
<1> HIDE DEF e
<1> QED
  BY <1>2, <1>3, <1>11 DEF a

----------------------------------------------------------------------------
(* The actions *)

\* What keeps the connection alive is in order once connect() was called.
LifeInv ==
    /\ ConnInv
    /\ app.pc # "start" /\ peer.mode # "simopen" => LifeOK(tsk)

\* A peer that does not open the connection itself sends no SYN but the one
\* that acknowledges ours.
LEMMA SynAcked ==
    ASSUME peer.mode # "simopen", NEW th \in InFlight
    PROVE  th.syn => th.ack
<1> DEFINE F(x) == x.syn => x.ack
<1>1. NoFlags = [seq |-> 0, dlen |-> 0, data |-> 0, ack_seq |-> 0, syn |-> FALSE,
                 fin |-> FALSE, rst |-> FALSE, ack |-> FALSE, psh |-> FALSE]
  BY DEF NoFlags
<1>2. \A x \in Handshake : F(x)
  <2>1. \A x \in Handshake :
           \/ x = [NoFlags EXCEPT !.rst = TRUE, !.ack = TRUE, !.ack_seq = ISS + 1]
           \/ x = [NoFlags EXCEPT !.syn = TRUE, !.seq = IRS, !.ack = TRUE,
                                  !.ack_seq = ISS + 1]
    BY DEF Handshake
  <2> QED
    BY <1>1, <2>1
<1>3. \A x \in Resets : F(x)
  BY <1>1 DEF Resets
<1>4. ASSUME NEW p \in peer.hist
      PROVE  \A x \in PeerData(p) \cup PeerFin(p) \cup PeerAck(p) : F(x)
  <2>1. ASSUME NEW a, NEW b, NEW c, NEW d, NEW e
        PROVE  /\ F([NoFlags EXCEPT !.seq = a, !.data = b, !.dlen = c, !.ack = TRUE,
                                    !.ack_seq = d, !.psh = e])
               /\ F([NoFlags EXCEPT !.seq = a, !.data = b, !.dlen = c, !.ack = TRUE,
                                    !.ack_seq = d, !.fin = TRUE])
    BY <1>1
  <2>2. \A x \in PeerAck(p) : \E a, b :
           x = [NoFlags EXCEPT !.seq = a, !.ack = TRUE, !.ack_seq = b]
    BY DEF PeerAck
  <2>3. \A x \in PeerData(p) : F(x)
    <3> HIDE DEF F
    <3> SUFFICES ASSUME NEW x \in (0..PeerBytes) \X (0..PeerBytes) \X BOOLEAN
                 PROVE  F([NoFlags EXCEPT !.seq = IRS + 1 + x[1], !.data = x[1] + 1,
                              !.dlen = x[2] - x[1], !.ack = TRUE,
                              !.ack_seq = p.ack, !.psh = x[3]])
      BY DEF PeerData
    <3> QED
      BY <2>1
  <2>4. \A x \in PeerFin(p) : F(x)
    <3> HIDE DEF F
    <3> SUFFICES ASSUME NEW lo \in 0..PeerBytes
                 PROVE  F([NoFlags EXCEPT !.seq = IRS + 1 + lo, !.data = lo + 1,
                              !.dlen = PeerBytes - lo, !.ack = TRUE,
                              !.ack_seq = p.ack, !.fin = TRUE])
      BY DEF PeerFin
    <3> QED
      BY <2>1
  <2>5. \A x \in PeerAck(p) : F(x)
    BY <1>1, <2>2
  <2> QED
    BY <2>3, <2>4, <2>5
<1> HIDE DEF F
<1>5. F(th)
  <2>1. \/ th \in Handshake \/ th \in Resets
        \/ \E p \in peer.hist : th \in PeerData(p) \cup PeerFin(p) \cup PeerAck(p)
    BY DEF InFlight
  <2> QED
    BY <1>2, <1>3, <1>4, <2>1
<1> QED
  BY <1>5 DEF F

\* connect() and its return.
LEMMA ConnectStays ==
    ASSUME ConnInv, tsk' \in Tsk, app.pc # "start" => LifeOK(tsk),
           Connect \/ ConnectWoken \/ ConnectFree
    PROVE  LifeOK(tsk')
<1>1. tsk \in Tsk
  BY DEF ConnInv, TypeInv, TypeOK
<1>2. CASE Connect
  <2> DEFINE a == tcp_connect(tsk)
             w == IF app.nonblock THEN "idle" ELSE "asleep"
  <2>1. tsk = NewSock
    BY <1>2 DEF ConnInv, TypeInv, Fresh, Connect
  <2>2. tsk.state = "CLOSE"
    BY <2>1 DEF NewSock
  <2>3. LifeOK(a) /\ a \in Tsk
    BY <1>1, <2>1, <2>2, ConnectLife, ConnectKeeps
  <2>4. tsk' = [a EXCEPT !.ss = "CONNECTING", !.err = "EINPROGRESS", !.sleep = w]
    BY <1>2 DEF Connect
  <2> HIDE DEF a, w
  <2>5. /\ tsk'.wq = a.wq /\ tsk'.retransmit = a.retransmit /\ tsk'.linger = a.linger
        /\ tsk'.armed = a.armed /\ tsk'.thread = a.thread /\ tsk'.freed = a.freed
        /\ tsk'.ss = "CONNECTING" /\ tsk'.state = a.state
    BY <2>3, <2>4 DEF Tsk
  <2>6. \A k \in {"conn", "rto", "gc"} :
           /\ a.thread[k] >= a.thread[k]
           /\ a.armed[k] + a.thread[k] >= a.armed[k] + a.thread[k]
    BY <2>3, Counts
  <2>7. Steady(a, tsk')
    BY <2>5, <2>6 DEF Steady
  <2> QED
    BY <2>3, <2>5, <2>7, SteadyLife
<1>3. CASE ConnectWoken \/ ConnectFree
  <2> DEFINE c == IF tsk.err = "0" THEN "CONNECTED" ELSE tsk.ss
  <2>1. /\ \/ tsk' = [tsk EXCEPT !.sleep = "idle", !.ss = c]
           \/ tsk' = [tsk EXCEPT !.freed = TRUE]
        /\ app.pc # "start"
    BY <1>3 DEF ConnectWoken, ConnectFree
  <2>2. c = tsk.ss \/ c = "CONNECTED"
    OBVIOUS
  <2> HIDE DEF c
  <2>3. /\ tsk'.wq = tsk.wq /\ tsk'.retransmit = tsk.retransmit
        /\ tsk'.linger = tsk.linger /\ tsk'.armed = tsk.armed
        /\ tsk'.thread = tsk.thread /\ tsk'.state = tsk.state
        /\ tsk'.ss = c \/ tsk'.ss = tsk.ss
        /\ tsk.freed => tsk'.freed
    BY <1>1, <2>1 DEF Tsk
  <2>4. \A k \in {"conn", "rto", "gc"} :
           /\ tsk.thread[k] >= tsk.thread[k]
           /\ tsk.armed[k] + tsk.thread[k] >= tsk.armed[k] + tsk.thread[k]
    BY <1>1, Counts
  <2>5. Steady(tsk, tsk')
    BY <2>2, <2>3, <2>4 DEF Steady
  <2> QED
    BY <1>1, <2>1, <2>3, <2>5, SteadyLife
<1> QED
  BY <1>2, <1>3

\* write() and close().
LEMMA WriteCloseStays ==
    ASSUME ConnInv, LifeOK(tsk), (\E len \in WriteSizes : Write(len)) \/ Close
    PROVE  LifeOK(tsk')
<1>1. tsk \in Tsk /\ wrote \in Nat
  BY DEF ConnInv, TypeInv, TypeOK
<1>2. ASSUME NEW len \in WriteSizes, Write(len) PROVE LifeOK(tsk')
  <2>1. len \in Nat \ {0} /\ wrote + 1 \in Nat
    BY <1>1, TcpRunConstants
  <2>2. tsk' = tcp_send(tsk, wrote + 1, len) /\ tsk.state # "SYN_SENT"
    BY <1>2 DEF Write
  <2> QED
    BY <1>1, <2>1, <2>2, SendLife
<1>3. CASE Close
  <2> DEFINE a == [tsk EXCEPT !.state = "FIN_WAIT_1"]
             b == [tsk EXCEPT !.err = "EBADF"]
  <2>1. LifeOK(tcp_done(tsk))
    BY <1>1, DoneLife DEF LifeOK
  <2>2. \/ tsk' = tcp_done(tsk)
        \/ tsk.state = "ESTABLISHED" /\ tsk' = tcp_queue_fin(a)
        \/ tsk.state = "CLOSE_WAIT" /\ tsk' = tcp_queue_fin(tsk)
        \/ tsk' = b
    BY <1>3 DEF Close
  <2>3. /\ a \in Tsk /\ a.state = "FIN_WAIT_1" /\ a.wq = tsk.wq
        /\ a.retransmit = tsk.retransmit /\ a.linger = tsk.linger
        /\ a.armed = tsk.armed /\ a.thread = tsk.thread /\ a.ss = tsk.ss
        /\ a.freed = tsk.freed
    BY <1>1 DEF Tsk, TcpStates
  <2>4. /\ b \in Tsk /\ b.wq = tsk.wq /\ SameTimers(tsk, b)
    BY <1>1 DEF Tsk, Errors, SameTimers
  <2> HIDE DEF a, b
  <2>5. Steady(tsk, a) /\ Steady(tsk, b) /\ b.state = tsk.state
    BY <1>1, <2>3, <2>4, SteadySame DEF SameTimers
  <2>6. LifeOK(b)
    BY <1>1, <2>4, <2>5, SteadyLife
  <2>7. ASSUME tsk.state = "ESTABLISHED" PROVE LifeOK(tcp_queue_fin(a))
    <3>1. LifeOK(a)
      BY <1>1, <2>3, <2>5, <2>7, SteadyLife DEF Before
    <3> QED
      BY <2>3, <3>1, QueueFinLife
  <2>8. ASSUME tsk.state = "CLOSE_WAIT" PROVE LifeOK(tcp_queue_fin(tsk))
    BY <1>1, <2>8, QueueFinLife
  <2> QED
    BY <2>1, <2>2, <2>6, <2>7, <2>8
<1> QED
  BY <1>2, <1>3

\* The copying of a buffer.
LEMMA CopySkbTimers ==
    ASSUME TypeOK, CopySkb
    PROVE  tsk'.wq = tsk.wq /\ SameTimers(tsk, tsk')
<1> DEFINE skb == tsk.rq[1]
           n == MinOf(skb.dlen, app.want - app.rlen)
           l == skb.dlen - n
           m == skb.data + n
           p == tsk.psh \/ skb.psh
           q == Tail(tsk.rq)
           r == [tsk.rq EXCEPT ![1] = [skb EXCEPT !.dlen = l, !.data = m]]
           a == [tsk EXCEPT !.rq = q, !.psh = p]
           b == [tsk EXCEPT !.rq = r]
<1>1. tsk \in Tsk /\ tsk.rq \in Seq(ReadSkb) /\ tsk.rq # << >>
  BY Fields DEF TypeOK, CopySkb
<1>2. skb \in ReadSkb /\ Head(tsk.rq) = skb /\ 1 \in 1..Len(tsk.rq)
  BY <1>1
<1>3. (n = skb.dlen /\ tsk' = a) \/ tsk' = b
  BY <1>2, ZenonT(60) DEF CopySkb
<1> HIDE DEF p, q, r
<1>4. /\ a.wq = tsk.wq /\ SameTimers(tsk, a)
      /\ b.wq = tsk.wq /\ SameTimers(tsk, b)
  BY <1>1 DEF Tsk, SameTimers
<1> HIDE DEF a, b
<1> QED
  BY <1>3, <1>4

\* read().
LEMMA ReadStays ==
    ASSUME ConnInv, tsk' \in Tsk, LifeOK(tsk),
           \/ ReadAtEnd \/ (\E len \in ReadSizes : Read(len))
           \/ CopySkb \/ CopyDone \/ ReadWoken
    PROVE  LifeOK(tsk')
<1>1. tsk \in Tsk
  BY DEF ConnInv, TypeInv, TypeOK
<1>2. ASSUME tsk'.wq = tsk.wq, SameTimers(tsk, tsk')
      PROVE  LifeOK(tsk')
  <2>1. Steady(tsk, tsk') /\ tsk'.state = tsk.state
    BY <1>1, <1>2, SteadySame DEF SameTimers
  <2> QED
    BY <1>1, <2>1, SteadyLife
<1>3. CASE ReadAtEnd
  <2>1. tsk' = tsk \/ tsk' = [tsk EXCEPT !.fin = FALSE]
    BY <1>3 DEF ReadAtEnd
  <2> QED
    BY <1>1, <1>2, <2>1 DEF Tsk, SameTimers
<1>4. CASE \E len \in ReadSizes : Read(len)
  BY <1>2, <1>4 DEF Read, SameTimers
<1>5. CASE CopySkb
  BY <1>2, <1>5, CopySkbTimers DEF ConnInv, TypeInv
<1>6. CASE CopyDone
  <2> DEFINE p == tsk.poll \ {"IN"}
             s == IF tsk.rq = << >> /\ ~tsk.fin
                  THEN [tsk EXCEPT !.poll = p] ELSE tsk
             a == [s EXCEPT !.psh = FALSE]
             b == [s EXCEPT !.recv_wait = "asleep"]
  <2>1. tsk' = tcp_rearm_user_timeout(a) \/ tsk' = s \/ tsk' = b
    BY <1>6 DEF CopyDone
  <2>2. p \in SUBSET PollEvents
    BY <1>1, Fields
  <2> HIDE DEF p
  <2>3. s \in Tsk /\ s.wq = tsk.wq /\ SameTimers(tsk, s)
    BY <1>1, <2>2 DEF Tsk, SameTimers
  <2> HIDE DEF s
  <2>4. /\ a \in Tsk /\ a.wq = tsk.wq /\ SameTimers(tsk, a)
        /\ b.wq = tsk.wq /\ SameTimers(tsk, b)
    BY <2>3 DEF Tsk, SameTimers
  <2> HIDE DEF a, b
  <2>5. CASE tsk' = tcp_rearm_user_timeout(a)
    <3>1. Steady(tsk, a) /\ a.state = tsk.state
      BY <1>1, <2>4, SteadySame DEF SameTimers
    <3>2. Steady(a, tsk') /\ tsk'.state = a.state
      BY <2>4, <2>5, LightSteady, TimersQueue
    <3>3. Steady(tsk, tsk')
      BY <1>1, <2>4, <3>1, <3>2, SteadyTransitive
    <3> QED
      BY <1>1, <3>1, <3>2, <3>3, SteadyLife
  <2> QED
    BY <1>2, <2>1, <2>3, <2>4, <2>5
<1>7. CASE ReadWoken
  <2>1. tsk' = [tsk EXCEPT !.recv_wait = "idle"]
    BY <1>7 DEF ReadWoken
  <2> QED
    BY <1>1, <1>2, <2>1 DEF Tsk, SameTimers
<1> QED
  BY <1>3, <1>4, <1>5, <1>6, <1>7

\* Expiring timers. One that tsk->retransmit points to has a handler from then on.
LEMMA ExpireStays ==
    ASSUME ConnInv, tsk' \in Tsk, LifeOK(tsk),
           \/ \E slot \in {"retransmit", "delack", "linger"} : Expire(slot)
           \/ \E kind \in TimerKinds : ExpireUnowned(kind)
    PROVE  LifeOK(tsk')
<1>1. tsk \in Tsk /\ tsk.thread \in [TimerKinds -> Nat] /\ tsk.armed \in [TimerKinds -> Nat]
  BY Fields DEF ConnInv, TypeInv, TypeOK
<1>2. ASSUME NEW slot \in {"retransmit", "delack", "linger"}, Expire(slot)
      PROVE  LifeOK(tsk')
  <2> DEFINE n == tsk[slot].kind
             h == [tsk.thread EXCEPT ![n] = @ + 1]
             e == [tsk[slot] EXCEPT !.fired = TRUE]
  <2>1. tsk' = [tsk EXCEPT ![slot] = e, !.thread = h]
    BY <1>2 DEF Expire
  <2>2. n \in TimerKinds
    BY <1>2, TcpRunConstants DEF Expire
  <2> HIDE DEF n
  <2>3. \A k \in TimerKinds : h[k] \in Nat /\ h[k] >= tsk.thread[k]
    BY <1>1, <2>2
  <2>4. h[n] > 0
    BY <1>1, <2>2
  <2>5. tsk[slot] \in TimerSlot
    <3>1. /\ tsk["retransmit"] \in TimerSlot /\ tsk["delack"] \in TimerSlot
          /\ tsk["linger"] \in TimerSlot
      BY <1>1 DEF Tsk
    <3> QED
      BY <3>1
  <2>6. e.kind = n /\ e.fired
    BY <2>5 DEF TimerSlot, n
  <2> HIDE DEF e, h
  <2>7. /\ tsk'.wq = tsk.wq /\ tsk'.armed = tsk.armed /\ tsk'.thread = h
        /\ tsk'.freed = tsk.freed /\ tsk'.ss = tsk.ss /\ tsk'.state = tsk.state
    BY <1>1, <2>1 DEF Tsk
  <2>8. /\ slot # "retransmit" => tsk'.retransmit = tsk.retransmit
        /\ slot = "retransmit" => tsk'.retransmit = e
        /\ slot # "linger" => tsk'.linger = tsk.linger
        /\ slot = "linger" => tsk'.linger = e
    BY <1>1, <2>1 DEF Tsk
  <2>9. tsk'.linger.kind = tsk.linger.kind /\ tsk'.retransmit.kind = tsk.retransmit.kind
    <3>1. CASE slot = "retransmit"
      BY <2>6, <2>8, <3>1 DEF n
    <3>2. CASE slot = "linger"
      BY <2>6, <2>8, <3>2 DEF n
    <3>3. CASE slot = "delack"
      BY <2>8, <3>3
    <3> QED
      BY <3>1, <3>2, <3>3
  <2>10. \A k \in {"conn", "rto", "gc"} :
           /\ tsk'.thread[k] >= tsk.thread[k]
           /\ tsk'.armed[k] + tsk'.thread[k] >= tsk.armed[k] + tsk.thread[k]
    BY <1>1, <2>3, <2>7 DEF TimerKinds
  <2>11. CASE slot # "retransmit"
    <3>1. Steady(tsk, tsk')
      BY <2>7, <2>8, <2>9, <2>10, <2>11 DEF Steady
    <3> QED
      BY <1>1, <2>7, <3>1, SteadyLife
  <2>12. CASE slot = "retransmit"
    <3>1. SlotOK(tsk')
      <4>1. tsk'.retransmit.kind = n /\ tsk'.thread[n] > 0
        BY <2>4, <2>6, <2>7, <2>8, <2>12
      <4>2. n \in {"none", "conn", "rto"} /\ n # "none"
        BY <2>9, <2>2, <4>1 DEF LifeOK, SlotOK, TimerKinds
      <4> QED
        BY <4>1, <4>2 DEF SlotOK
    <3>2. Doomed(tsk) => Doomed(tsk')
      <4>1. /\ tsk.armed["gc"] \in Nat /\ tsk.thread["gc"] \in Nat
            /\ tsk'.armed["gc"] \in Nat /\ tsk'.thread["gc"] \in Nat
        BY <1>1, Counts
      <4> QED
        BY <2>7, <2>10, <4>1 DEF Doomed
    <3>3. SynOK(tsk')
      BY <2>7 DEF LifeOK, SynOK
    <3>4. DeletedOK(tsk') /\ LingerOK(tsk')
      BY <2>7, <2>9, <3>2 DEF LifeOK, DeletedOK, LingerOK
    <3>5. HeadTimed(tsk')
      <4> DEFINE k == RtoKind(tsk)
      <4>1. RtoKind(tsk') = k /\ k \in {"conn", "rto", "gc"}
        BY <2>7 DEF RtoKind
      <4> HIDE DEF k
      <4>2. tsk.armed[k] \in Nat /\ tsk.thread[k] \in Nat
            /\ tsk'.armed[k] \in Nat /\ tsk'.thread[k] \in Nat
        BY <1>1, <4>1, Counts
      <4>3. tsk.armed[k] + tsk.thread[k] > 0 => tsk'.armed[k] + tsk'.thread[k] > 0
        BY <2>10, <4>1, <4>2
      <4>4. Timed(tsk) => Timed(tsk')
        BY <2>9, <4>1, <4>3 DEF Timed, k
      <4> QED
        BY <2>7, <3>2, <4>4 DEF LifeOK, HeadTimed
    <3> QED
      BY <3>1, <3>3, <3>4, <3>5 DEF LifeOK
  <2> QED
    BY <2>11, <2>12
<1>3. ASSUME NEW kind \in TimerKinds, ExpireUnowned(kind) PROVE LifeOK(tsk')
  <2> DEFINE h == [tsk.thread EXCEPT ![kind] = @ + 1]
             m == [tsk.armed EXCEPT ![kind] = @ - 1]
  <2>1. tsk' = [tsk EXCEPT !.armed = m, !.thread = h]
    BY <1>3 DEF ExpireUnowned
  <2>2. \A k \in TimerKinds : h[k] >= tsk.thread[k] /\ m[k] + h[k] >= tsk.armed[k] + tsk.thread[k]
    BY <1>1
  <2> HIDE DEF h, m
  <2>3. /\ tsk'.wq = tsk.wq /\ tsk'.retransmit = tsk.retransmit
        /\ tsk'.linger = tsk.linger /\ tsk'.armed = m /\ tsk'.thread = h
        /\ tsk'.freed = tsk.freed /\ tsk'.ss = tsk.ss /\ tsk'.state = tsk.state
    BY <1>1, <2>1 DEF Tsk
  <2>4. Steady(tsk, tsk')
    BY <2>2, <2>3 DEF Steady, TimerKinds
  <2> QED
    BY <1>1, <2>3, <2>4, SteadyLife
<1> QED
  BY <1>2, <1>3

\* The handlers.
LEMMA HandlerStays ==
    ASSUME ConnInv, tsk' \in Tsk, LifeOK(tsk), NEW kind \in TimerKinds, RunHandler(kind)
    PROVE  LifeOK(tsk')
<1> DEFINE h == [tsk.thread EXCEPT ![kind] = @ - 1]
           s == [tsk EXCEPT !.thread = h]
           c == [s EXCEPT !.linger = NoTimer]
           d == [s EXCEPT !.freed = TRUE]
<1>1. tsk \in Tsk /\ tsk.thread \in [TimerKinds -> Nat]
  BY Fields DEF ConnInv, TypeInv, TypeOK
<1>2. tsk' = Handler(kind, s) /\ tsk.thread[kind] > 0
  BY DEF RunHandler
<1>3. h \in [TimerKinds -> Nat]
  BY <1>1, <1>2
<1>4. \A k \in TimerKinds : k # kind => h[k] = tsk.thread[k]
  BY <1>1
<1> HIDE DEF h
<1>5. /\ s \in Tsk /\ s.state = tsk.state /\ s.wq = tsk.wq
      /\ s.retransmit = tsk.retransmit /\ s.linger = tsk.linger
      /\ s.armed = tsk.armed /\ s.thread = h
      /\ s.freed = tsk.freed /\ s.ss = tsk.ss
  BY <1>1, <1>3 DEF Tsk
<1> HIDE DEF s
<1>6. /\ c \in Tsk /\ c.ss = s.ss /\ c.armed = s.armed /\ c.thread = s.thread
      /\ c.freed = s.freed
  BY <1>5, SlotTyping DEF Tsk
<1>7. \/ kind = "conn" /\ tsk' = tcp_connect_rto(s)
      \/ kind = "rto" /\ tsk' = tcp_retransmission_timeout(s)
      \/ kind = "delack" /\ tsk' = tcp_send_delack(s)
      \/ kind = "user" /\ tsk' = tcp_abort(c)
      \/ kind = "2msl" /\ tsk' = tcp_done(c)
      \/ kind = "gc" /\ tsk' = d
  BY <1>2 DEF Handler, CancelLinger, TimerKinds
<1> HIDE DEF c
<1>8. kind # "gc" => (Doomed(s) <=> Doomed(tsk))
  BY <1>4, <1>5 DEF Doomed, TimerKinds
<1>9. SynOK(s)
  BY <1>5 DEF LifeOK, SynOK
<1>10. kind # "gc" => DeletedOK(s) /\ LingerOK(s)
  BY <1>5, <1>8 DEF LifeOK, DeletedOK, LingerOK
<1>11. kind # "gc" => DeletedOK(c)
  BY <1>6, <1>10 DEF DeletedOK, Doomed
<1>12. kind \notin {RtoKind(s), "gc"} => HeadTimed(s)
  <2>1. RtoKind(s) = RtoKind(tsk) /\ RtoKind(s) \in TimerKinds
    BY <1>5 DEF RtoKind, TimerKinds
  <2>2. kind \notin {RtoKind(s), "gc"} => s.thread[RtoKind(s)] = tsk.thread[RtoKind(s)]
    BY <1>4, <1>5, <2>1
  <2> QED
    BY <1>5, <1>8, <2>1, <2>2 DEF LifeOK, HeadTimed, Timed
<1>13. \A k \in {"conn", "rto"} :
          k # kind /\ s.retransmit.kind = k /\ s.retransmit.fired => s.thread[k] > 0
  BY <1>4, <1>5 DEF LifeOK, SlotOK, TimerKinds
<1>14. CASE kind = "conn"
  <2>1. s.state # "SYN_SENT" => HeadTimed(s)
    BY <1>12, <1>14 DEF RtoKind
  <2> QED
    BY <1>5, <1>7, <1>9, <1>10, <1>13, <1>14, <2>1, ConnectRtoLife
<1>15. CASE kind = "rto"
  <2>1. s.state = "SYN_SENT" => HeadTimed(s)
    BY <1>12, <1>15 DEF RtoKind
  <2> QED
    BY <1>5, <1>7, <1>9, <1>10, <1>13, <1>15, <2>1, RetransmissionLife
<1>16. CASE kind = "delack"
  <2>1. HeadTimed(s)
    BY <1>12, <1>16 DEF RtoKind
  <2>2. SlotOK(s)
    BY <1>5, <1>13, <1>16 DEF LifeOK, SlotOK
  <2>3. LifeOK(s)
    BY <1>9, <1>10, <1>16, <2>1, <2>2 DEF LifeOK
  <2>4. Steady(s, tsk') /\ tsk'.state = s.state
    BY <1>5, <1>7, <1>16, SendDelackSteady, SendDelackQueue
  <2> QED
    BY <1>5, <2>3, <2>4, SteadyLife
<1>17. CASE kind = "user" \/ kind = "2msl"
  BY <1>6, <1>7, <1>11, <1>17, AbortLife, DoneLife
<1>18. CASE kind = "gc"
  <2>1. /\ tsk'.freed /\ tsk'.retransmit = tsk.retransmit /\ tsk'.wq = tsk.wq
        /\ tsk'.state = tsk.state /\ tsk'.thread = s.thread
    BY <1>5, <1>7, <1>18 DEF Tsk
  <2>2. SlotOK(tsk')
    BY <1>5, <1>13, <1>18, <2>1 DEF LifeOK, SlotOK
  <2>3. SynOK(tsk')
    BY <2>1 DEF LifeOK, SynOK
  <2> QED
    BY <2>1, <2>2, <2>3 DEF LifeOK, DeletedOK, HeadTimed, LingerOK, Doomed
<1> QED
  BY <1>14, <1>15, <1>16, <1>17, <1>18 DEF TimerKinds

\* An arriving segment.
LEMMA CoreStays ==
    ASSUME ConnInv, tsk' \in Tsk, LifeOK(tsk), app.pc # "start",
           peer.mode # "simopen", CoreNext
    PROVE  LifeOK(tsk')
<1>1. tsk \in Tsk /\ peer \in PeerType /\ SendOK(tsk)
  BY DEF ConnInv, TypeInv, TypeOK
<1>2. PICK th \in InFlight :
         \/ RcvSynSent(th) \/ RcvUnacceptable(th) \/ RcvReset(th)
         \/ \E r \in RttSamples : RcvSegment(th, r)
  BY DEF CoreNext
<1>3. th \in InSegment /\ (th.syn => th.ack)
  BY <1>1, InFlightTyping, SynAcked
<1>4. CASE RcvSynSent(th)
  BY <1>1, <1>3, <1>4, SynsentLife DEF RcvSynSent
<1>5. CASE RcvUnacceptable(th)
  <2>1. tsk' = tcp_send_ack(tsk)
    BY <1>5 DEF RcvUnacceptable
  <2>2. Steady(tsk, tsk') /\ tsk'.state = tsk.state
    BY <1>1, <2>1, LightSteady, WakingQueue
  <2> QED
    BY <1>1, <2>2, SteadyLife
<1>6. CASE RcvReset(th)
  <2> DEFINE a == tcp_enter_time_wait(tsk)
  <2>1. tsk' = tcp_recv_notify(a)
    BY <1>6 DEF RcvReset
  <2>2. a \in Tsk /\ LifeOK(a)
    BY <1>1, EndingQueue, TimeWaitLife DEF LifeOK, SameQueue
  <2> HIDE DEF a
  <2>3. Steady(a, tsk') /\ tsk'.state = a.state
    BY <2>1, <2>2, LightSteady, WakingQueue
  <2> QED
    BY <2>2, <2>3, SteadyLife
<1>7. ASSUME NEW r \in RttSamples, RcvSegment(th, r) PROVE LifeOK(tsk')
  <2> DEFINE s == ProcessAck(tsk, th, r)
  <2>1. r \in Nat
    BY TcpRunConstants
  <2>2. tsk.state # "SYN_SENT" /\ (tsk' = tcp_done(s) \/ tsk' = ProcessRest(s, th))
    BY <1>7 DEF RcvSegment
  <2>3. LifeOK(tcp_done(s)) /\ LifeOK(ProcessRest(s, th))
    BY <1>1, <1>3, <2>1, <2>2, SegmentLife
  <2> HIDE DEF s
  <2> QED
    BY <2>2, <2>3
<1> QED
  BY <1>2, <1>4, <1>5, <1>6, <1>7

\* No step changes what the peer does with the connection attempt.
LEMMA ModeFixed ==
    ASSUME TypeOK, [Next]_vars
    PROVE  peer'.mode = peer.mode
<1>1. peer \in PeerType
  BY DEF TypeOK
<1>2. CASE UNCHANGED peer
  BY <1>2
<1>3. CASE PeerNext
  <2>1. CASE PeerSend \/ PeerReset
    <3> DEFINE n == peer.snd + 1
               h == peer.hist \cup {[snd |-> peer.snd + 1, ack |-> peer.rcv_nxt]}
               r == IRS + 1 + peer.snd
    <3>1. peer' = [peer EXCEPT !.snd = n, !.hist = h] \/ peer' = [peer EXCEPT !.rst = r]
      BY <2>1 DEF PeerSend, PeerReset
    <3> HIDE DEF n, h, r
    <3> QED
      BY <1>1, <3>1 DEF PeerType
  <2>2. ASSUME NEW seg \in tsk.wire, PeerReceive(seg) PROVE peer'.mode = peer.mode
    <3> DEFINE m == seg.seq + 1
               k == {[snd |-> 0, ack |-> seg.seq + 1]}
               end == seg.seq + seg.dlen + (IF seg.fin THEN 1 ELSE 0)
               skip == peer.rcv_nxt - seg.seq
               g == peer.got \o [i \in 1..(seg.dlen - skip) |-> seg.data + skip + i - 1]
               h == peer.hist \cup {[snd |-> peer.snd, ack |-> end]}
               f == seg.fin
    <3>1. \/ peer' = [peer EXCEPT !.rcv_nxt = m, !.hist = k]
          \/ peer' = [peer EXCEPT !.rcv_nxt = end, !.got = g, !.fin = f, !.hist = h]
      BY <2>2, Zenon DEF PeerReceive
    <3> HIDE DEF m, k, end, skip, g, h, f
    <3> QED
      BY <1>1, <3>1 DEF PeerType
  <2> QED
    BY <1>3, <2>1, <2>2 DEF PeerNext
<1>4. CASE AppNext \/ TimerNext \/ CoreNext
  <2>1. UNCHANGED peer
    BY <1>4 DEF AppNext, Connect, ConnectWoken, ConnectFree, Write, ReadAtEnd, Read,
       CopySkb, CopyDone, ReadWoken, Close,
       TimerNext, Expire, ExpireUnowned, RunHandler,
       CoreNext, RcvSynSent, RcvUnacceptable, RcvReset, RcvSegment, Arrives
  <2> QED
    BY <2>1
<1> QED
  BY <1>2, <1>3, <1>4 DEF Next, vars

\* The step of the induction.
LEMMA LifeStep ==
    ASSUME LifeInv, [Next]_vars
    PROVE  LifeInv'
<1>1. ConnInv /\ ConnInv' /\ TypeOK /\ tsk' \in Tsk
  BY ConnStep DEF LifeInv, ConnInv, TypeInv, TypeOK
<1>2. peer'.mode = peer.mode
  BY <1>1, ModeFixed
<1> SUFFICES ASSUME app'.pc # "start", peer.mode # "simopen"
             PROVE  LifeOK(tsk')
  BY <1>1, <1>2 DEF LifeInv
<1>3. app.pc # "start" => LifeOK(tsk)
  BY DEF LifeInv
<1>4. ASSUME UNCHANGED << tsk, app >> PROVE LifeOK(tsk')
  BY <1>3, <1>4
<1>5. CASE UNCHANGED vars
  BY <1>4, <1>5 DEF vars
<1>6. CASE PeerNext
  BY <1>1, <1>4, <1>6, PeerSteps
<1>7. CASE AppNext
  <2>1. CASE Connect \/ ConnectWoken \/ ConnectFree
    BY <1>1, <1>3, <2>1, ConnectStays
  <2>2. CASE (\E len \in WriteSizes : Write(len)) \/ Close
    <3>1. app.pc # "start"
      BY <2>2 DEF Write, Close
    <3> QED
      BY <1>1, <1>3, <2>2, <3>1, WriteCloseStays
  <2>3. CASE \/ ReadAtEnd \/ (\E len \in ReadSizes : Read(len))
             \/ CopySkb \/ CopyDone \/ ReadWoken
    <3>1. app.pc # "start"
      BY <2>3 DEF ReadAtEnd, Read, CopySkb, CopyDone, ReadWoken
    <3> QED
      BY <1>1, <1>3, <2>3, <3>1, ReadStays
  <2> QED
    BY <1>7, <2>1, <2>2, <2>3 DEF AppNext
<1>8. CASE TimerNext \/ CoreNext
  <2>1. UNCHANGED app
    BY <1>8 DEF TimerNext, Expire, ExpireUnowned, RunHandler,
       CoreNext, RcvSynSent, RcvUnacceptable, RcvReset, RcvSegment, Arrives
  <2>2. app.pc # "start" /\ LifeOK(tsk)
    BY <1>3, <2>1
  <2> QED
    BY <1>1, <1>8, <2>2, ExpireStays, HandlerStays, CoreStays DEF TimerNext
<1> QED
  BY <1>5, <1>6, <1>7, <1>8 DEF Next

\* The invariant holds of every reachable state: before connect() there is
\* nothing to keep alive, and connect() times the SYN it sends.
THEOREM AliveInvariant == Spec => []LifeInv
<1>1. Init => LifeInv
  BY TypeInit DEF Init, ConnInv, LifeInv
<1>2. LifeInv /\ [Next]_vars => LifeInv'
  BY LifeStep
<1> QED
  BY <1>1, <1>2, PTL DEF Spec

\* The oldest buffer of the write queue, once transmitted, has a retransmission
\* timer of the kind its state asks for until it is acknowledged, the connection
\* is reset, is in TIME_WAIT or the socket is given up: whatever expires, late handlers that
\* drop the pointer to a later timer included, no step loses the last one.
THEOREM OldestTimed == Spec => [](peer.mode # "simopen" => HeadTimed(tsk))
<1>1. LifeInv => (peer.mode # "simopen" => HeadTimed(tsk))
  <2>1. app.pc = "start" /\ ConnInv => tsk.wq = << >>
    BY DEF ConnInv, TypeInv, Fresh, NewSock
  <2> QED
    BY <2>1 DEF LifeInv, LifeOK, HeadTimed
<1> QED
  BY <1>1, AliveInvariant, PTL

\* From the establishment to garbage collection a user timeout or a time-wait
\* timer guards the connection, unless the peer opens it at the same time: no
\* order of calls, segments and late handlers leaves a socket that nothing
\* will ever collect.
THEOREM ConnectionsGuarded == Spec => [](peer.mode # "simopen" => Guarded)
<1>1. LifeInv => (peer.mode # "simopen" => Guarded)
  <2>1. app.pc = "start" /\ ConnInv => tsk.state = "CLOSE"
    BY DEF ConnInv, TypeInv, Fresh, NewSock
  <2>2. LifeOK(tsk) => Guarded
    BY DEF LifeOK, LingerOK, Guarded, Doomed, Collecting, Before
  <2> QED
    BY <2>1, <2>2 DEF LifeInv, Guarded
<1> QED
  BY <1>1, AliveInvariant, PTL

=============================================================================
