-------------------------- MODULE TcpStreamProofs --------------------------
(***************************************************************************)
(* What a connection does for its two streams and for the application      *)
(* that waits, for every value of the constants.                           *)
(*                                                                         *)
(* Part 1.  The application reads the peer's bytes in order: InOrder.      *)
(* InOrder alone is not inductive.  What makes it so is StreamOK: what is  *)
(* delivered, the receive queue and rcv_nxt fit together without a gap,    *)
(* and the out-of-order queue holds bytes at the positions their sequence  *)
(* numbers say.                                                            *)
(*                                                                         *)
(* Part 2.  A reader that sleeps has nothing to read, and poll() says so:  *)
(* NoLostWakeup and PollTellsTruth.                                        *)
(*                                                                         *)
(* Part 3.  A connection that carries bytes in one direction only: what    *)
(* has been sent and is not acknowledged has a timer, UnackedTimed.        *)
(*                                                                         *)
(* Part 4.  What read() gives the application implements ByteStream, step  *)
(* by step: ReadsStream.                                                   *)
(***************************************************************************)
EXTENDS TcpConnProofs, TcpStreams

\* The buffers of q follow each other, and the first follows byte n.
Contiguous(q, n) ==
    \A i \in 1..Len(q) :
        q[i].data = IF i = 1 THEN n + 1 ELSE q[i-1].data + q[i-1].dlen

\* The position after the last byte of q, or after byte n.
StreamEnd(q, n) == IF q = << >> THEN n + 1 ELSE q[Len(q)].data + q[Len(q)].dlen

\* Buffers whose sequence numbers tell their positions in the peer's stream.
Placed(q) == \A j \in 1..Len(q) : q[j].seq = IRS + q[j].data

\* The receive side of socket s when n bytes have been delivered.
StreamOK(s, n) ==
    /\ Contiguous(s.rq, n)
    /\ Placed(s.ofo)
    /\ s.state \in Receiving => s.rcv_nxt = IRS + StreamEnd(s.rq, n)
    /\ s.state \in Before => s.rq = << >> /\ n = 0

\* What the sequence number of a segment of the peer says.
SegmentOK(th) ==
    /\ th.psh \/ th.dlen > 0 => th.seq = IRS + th.data
    /\ th.syn => th.seq = IRS

StreamInv == TypeInv /\ StreamOK(tsk, Len(delivered)) /\ InOrder

----------------------------------------------------------------------------

\* An operation that receives nothing preserves StreamOK.
LEMMA KeepsStream ==
    ASSUME NEW s, NEW t, NEW n, Keeps(s, t), StreamOK(s, n)
    PROVE  StreamOK(t, n)
<1>1. Placed(t.ofo)
  <2>1. CASE t.ofo = s.ofo
    BY <2>1 DEF StreamOK
  <2>2. CASE t.ofo = << >>
    BY <2>2 DEF Placed
  <2> QED
    BY <2>1, <2>2 DEF Keeps
<1> QED
  BY <1>1 DEF Keeps, StreamOK

\* The peer's SYN starts its stream.
LEMMA StartsStream ==
    ASSUME NEW s \in Tsk, NEW n, StreamOK(s, n), s.state = "SYN_SENT"
    PROVE  StreamOK([s EXCEPT !.rcv_nxt = IRS + 1, !.state = "ESTABLISHED"], n)
<1> DEFINE t == [s EXCEPT !.rcv_nxt = IRS + 1, !.state = "ESTABLISHED"]
<1>1. /\ t.rq = s.rq /\ t.ofo = s.ofo /\ t.state = "ESTABLISHED"
      /\ t.rcv_nxt = IRS + 1
  BY DEF Tsk
<1>2. s.rq = << >> /\ n = 0
  BY DEF StreamOK, Before
<1> HIDE DEF t
<1>3. t.rcv_nxt = IRS + StreamEnd(t.rq, n)
  BY <1>1, <1>2 DEF StreamEnd
<1>4. t.state \notin Before
  BY <1>1 DEF Before
<1>5. StreamOK(t, n)
  BY <1>1, <1>3, <1>4 DEF StreamOK
<1> QED
  BY <1>5 DEF t

\* A buffer at the end of the stream extends it.
LEMMA AppendStream ==
    ASSUME NEW q \in Seq(ReadSkb), NEW n \in Nat, NEW skb \in ReadSkb,
           Contiguous(q, n), skb.data = StreamEnd(q, n)
    PROVE  /\ Contiguous(Append(q, skb), n)
           /\ StreamEnd(Append(q, skb), n) = skb.data + skb.dlen
<1> DEFINE a == Append(q, skb)
<1>1. /\ a \in Seq(ReadSkb) /\ Len(a) = Len(q) + 1 /\ Len(q) \in Nat
      /\ a[Len(q) + 1] = skb
      /\ \A i \in 1..Len(q) : a[i] = q[i]
  OBVIOUS
<1>2. a # << >>
  BY <1>1
<1> HIDE DEF a
<1>3. StreamEnd(a, n) = skb.data + skb.dlen
  BY <1>1, <1>2 DEF StreamEnd
<1>4. ASSUME NEW i \in 1..Len(a)
      PROVE  a[i].data = IF i = 1 THEN n + 1 ELSE a[i-1].data + a[i-1].dlen
  <2>1. CASE i <= Len(q)
    <3>1. i \in 1..Len(q) /\ a[i] = q[i]
      BY <1>1, <2>1
    <3>2. CASE i = 1
      BY <3>1, <3>2 DEF Contiguous
    <3>3. CASE i # 1
      <4>1. i - 1 \in 1..Len(q)
        BY <1>1, <3>1, <3>3
      <4>2. a[i-1] = q[i-1]
        BY <1>1, <4>1
      <4> QED
        BY <3>1, <3>3, <4>2 DEF Contiguous
    <3> QED
      BY <3>2, <3>3
  <2>2. CASE i = Len(q) + 1
    <3>1. CASE q = << >>
      BY <1>1, <2>2, <3>1 DEF StreamEnd
    <3>2. CASE q # << >>
      <4>1. Len(q) \in 1..Len(q) /\ i # 1 /\ i - 1 = Len(q)
        BY <1>1, <2>2, <3>2
      <4>2. a[i-1] = q[Len(q)]
        BY <1>1, <4>1
      <4> QED
        BY <1>1, <2>2, <3>2, <4>1, <4>2 DEF StreamEnd
    <3> QED
      BY <3>1, <3>2
  <2> QED
    BY <1>1, <2>1, <2>2
<1>5. Contiguous(a, n)
  BY <1>4 DEF Contiguous
<1> QED
  BY <1>3, <1>5 DEF a

\* Sequence numbers and stream positions differ by a constant.
LEMMA Shifted ==
    ASSUME NEW a \in Nat, NEW b \in Nat, NEW c \in Nat, NEW d \in Nat,
           a + b = (a + c) + d
    PROVE  b = c + d
OBVIOUS

\* What the out-of-order queue has for the stream extends it further.
LEMMA ConsumeStream ==
    ASSUME NEW s \in Tsk, NEW n \in Nat, StreamOK(s, n), s.state \in TextStates
    PROVE  StreamOK(tcp_consume_ofo_queue(s), n)
<1> DEFINE k == Consumed(s)
           t == tcp_consume_ofo_queue(s)
           p == SubSeq(s.ofo, 1, k)
           q == s.rq \o p
           o == SubSeq(s.ofo, k + 1, Len(s.ofo))
<1>1. /\ s.rq \in Seq(ReadSkb) /\ s.ofo \in Seq(ReadSkb)
      /\ Len(s.rq) \in Nat /\ Len(s.ofo) \in Nat
  BY Fields
<1>2. /\ k \in 0..Len(s.ofo)
      /\ \A j \in 1..k :
            s.ofo[j].seq = IF j = 1 THEN s.rcv_nxt
                           ELSE s.ofo[j-1].seq + s.ofo[j-1].dlen
      /\ t \in Tsk /\ t.state = s.state
      /\ k = 0 => t = s
      /\ k # 0 => /\ t.rcv_nxt = s.ofo[k].seq + s.ofo[k].dlen
                  /\ t.rq = q /\ t.ofo = o
  BY ConsumeEffect
<1> HIDE DEF k, t
<1>3. ASSUME k # 0 PROVE StreamOK(t, n)
  <2>1. k \in 1..Len(s.ofo) /\ k \in Nat /\ 1 \in 1..Len(s.ofo)
    BY <1>1, <1>2, <1>3
  <2>2. /\ p \in Seq(ReadSkb) /\ Len(p) = k
        /\ \A j \in 1..k : p[j] = s.ofo[j] /\ j \in 1..Len(s.ofo)
    <3>1. \A j \in 1..k : j \in 1..Len(s.ofo)
      BY <1>1, <2>1
    <3> QED
      BY <1>1, <2>1, <3>1, SubSeqProperties
  <2>3. /\ o \in Seq(ReadSkb) /\ Len(o) = Len(s.ofo) - k
        /\ \A j \in 1..(Len(s.ofo) - k) : o[j] = s.ofo[k + j] /\ k + j \in 1..Len(s.ofo)
    <3>1. \A j \in (k + 1)..Len(s.ofo) : j \in 1..Len(s.ofo)
      BY <1>1, <2>1
    <3>2. \A j \in 1..(Len(s.ofo) - k) : k + j \in 1..Len(s.ofo)
      BY <1>1, <2>1
    <3> QED
      BY <1>1, <2>1, <3>1, <3>2, SubSeqProperties
  <2> HIDE DEF p, o
  <2>4. /\ q \in Seq(ReadSkb) /\ Len(q) = Len(s.rq) + k
        /\ \A i \in 1..Len(s.rq) : q[i] = s.rq[i]
        /\ \A j \in 1..k : q[Len(s.rq) + j] = s.ofo[j]
    <3>1. q \in Seq(ReadSkb) /\ Len(q) = Len(s.rq) + k
      BY <1>1, <2>1, <2>2, ConcatProperties
    <3>2. \A i \in 1..Len(s.rq) : q[i] = s.rq[i]
      BY <1>1, <2>2
    <3>3. ASSUME NEW j \in 1..k PROVE q[Len(s.rq) + j] = s.ofo[j]
      <4>1. q[Len(s.rq) + j] = p[j]
        BY <1>1, <2>1, <2>2
      <4> QED
        BY <2>2, <4>1
    <3> QED
      BY <3>1, <3>2, <3>3
  <2>5. q # << >>
    BY <1>1, <2>1, <2>4
  <2> HIDE DEF q
  <2>6. s.rcv_nxt = IRS + StreamEnd(s.rq, n) /\ IRS \in Nat
    BY TcpConstants DEF StreamOK, Receiving
  <2>7. \A j \in 1..Len(s.ofo) :
           /\ s.ofo[j].seq = IRS + s.ofo[j].data
           /\ s.ofo[j].data \in Nat /\ s.ofo[j].dlen \in Nat
    <3>1. \A j \in 1..Len(s.ofo) : s.ofo[j] \in ReadSkb
      BY <1>1
    <3>2. \A x \in ReadSkb : x.data \in Nat /\ x.dlen \in Nat
      BY DEF ReadSkb
    <3> QED
      BY <3>1, <3>2 DEF StreamOK, Placed
  <2>8. StreamEnd(s.rq, n) \in Nat
    <3>1. CASE s.rq = << >>
      BY <3>1 DEF StreamEnd
    <3>2. CASE s.rq # << >>
      <4>1. s.rq[Len(s.rq)] \in ReadSkb
        BY <1>1, <3>2
      <4>2. s.rq[Len(s.rq)].data \in Nat /\ s.rq[Len(s.rq)].dlen \in Nat
        BY <4>1 DEF ReadSkb
      <4> QED
        BY <3>2, <4>2 DEF StreamEnd
    <3> QED
      BY <3>1, <3>2
  <2>9. Contiguous(q, n)
    <3> SUFFICES ASSUME NEW i \in 1..Len(q)
                 PROVE  q[i].data = IF i = 1 THEN n + 1 ELSE q[i-1].data + q[i-1].dlen
      BY DEF Contiguous
    <3>1. CASE i <= Len(s.rq)
      <4>1. i \in 1..Len(s.rq) /\ q[i] = s.rq[i]
        BY <1>1, <2>4, <3>1
      <4>2. s.rq[i].data = IF i = 1 THEN n + 1 ELSE s.rq[i-1].data + s.rq[i-1].dlen
        BY <4>1 DEF StreamOK, Contiguous
      <4>3. i = 1 \/ q[i-1] = s.rq[i-1]
        BY <1>1, <2>4, <4>1
      <4> QED
        BY <4>1, <4>2, <4>3
    <3>2. CASE i = Len(s.rq) + 1
      <4>1. q[i] = s.ofo[1]
        BY <1>1, <2>1, <2>4, <3>2
      <4>2. s.ofo[1].seq = s.rcv_nxt
        BY <1>2, <2>1
      <4>3. s.ofo[1].data = StreamEnd(s.rq, n)
        BY <2>1, <2>6, <2>7, <2>8, <4>2
      <4>4. CASE s.rq = << >>
        BY <1>1, <3>2, <4>1, <4>3, <4>4 DEF StreamEnd
      <4>5. CASE s.rq # << >>
        <5>1. Len(s.rq) \in 1..Len(s.rq) /\ i # 1 /\ i - 1 = Len(s.rq)
          BY <1>1, <3>2, <4>5
        <5>2. q[i-1] = s.rq[Len(s.rq)]
          BY <2>4, <5>1
        <5> QED
          BY <4>1, <4>3, <4>5, <5>1, <5>2 DEF StreamEnd
      <4> QED
        BY <4>4, <4>5
    <3>3. CASE i > Len(s.rq) + 1
      <4> DEFINE j == i - Len(s.rq)
      <4>1. /\ j \in 1..k /\ j - 1 \in 1..k /\ j # 1 /\ i # 1
            /\ i = Len(s.rq) + j /\ i - 1 = Len(s.rq) + (j - 1)
        BY <1>1, <2>1, <2>4, <3>3
      <4> HIDE DEF j
      <4>2. q[i] = s.ofo[j] /\ q[i-1] = s.ofo[j-1]
        BY <2>4, <4>1
      <4>3. s.ofo[j].seq = s.ofo[j-1].seq + s.ofo[j-1].dlen
        BY <1>2, <4>1
      <4>4. j \in 1..Len(s.ofo) /\ j - 1 \in 1..Len(s.ofo)
        BY <2>2, <4>1
      <4>5. s.ofo[j].data = s.ofo[j-1].data + s.ofo[j-1].dlen
        <5> DEFINE x == s.ofo[j]
                   y == s.ofo[j-1]
        <5>1. x.seq = IRS + x.data /\ x.data \in Nat
          BY <2>7, <4>4
        <5>2. y.seq = IRS + y.data /\ y.data \in Nat /\ y.dlen \in Nat
          BY <2>7, <4>4
        <5>3. x.seq = y.seq + y.dlen
          BY <4>3
        <5> HIDE DEF x, y
        <5>4. IRS + x.data = (IRS + y.data) + y.dlen
          BY ONLY <5>1, <5>2, <5>3
        <5>5. x.data = y.data + y.dlen
          BY ONLY <2>6, <5>1, <5>2, <5>4, Shifted
        <5> QED
          BY <5>5 DEF x, y
      <4>6. q[i].data = q[i-1].data + q[i-1].dlen
        BY ONLY <4>2, <4>5
      <4>7. i # 1
        BY <4>1
      <4> QED
        BY ONLY <4>6, <4>7
    <3> QED
      BY <1>1, <3>1, <3>2, <3>3
  <2>10. t.rcv_nxt = IRS + StreamEnd(q, n)
    <3>1. q[Len(q)] = s.ofo[k]
      BY <2>1, <2>4
    <3>2. StreamEnd(q, n) = s.ofo[k].data + s.ofo[k].dlen
      BY <2>5, <3>1 DEF StreamEnd
    <3> QED
      BY <1>2, <1>3, <2>1, <2>6, <2>7, <3>2
  <2>11. Placed(o)
    BY <2>3, <2>7 DEF Placed
  <2>12. s.state \notin Before
    BY DEF TextStates, Before
  <2> QED
    BY <1>2, <1>3, <2>9, <2>10, <2>11, <2>12 DEF StreamOK
<1> QED
  BY <1>2, <1>3 DEF t

\* tcp_data_queue preserves StreamOK, wherever the segment falls.
LEMMA DataQueueStream ==
    ASSUME NEW s \in Tsk, NEW n \in Nat, NEW th \in InSegment, StreamOK(s, n),
           s.state \in TextStates, th.seq = IRS + th.data
    PROVE  StreamOK(tcp_data_queue(s, th), n)
<1> DEFINE skb == Received(th)
           t == tcp_data_queue(s, th)
<1>1. /\ skb \in ReadSkb /\ skb.seq = th.seq /\ skb.data = th.data
      /\ skb.dlen = th.dlen
  BY DEF Received, ReadSkb, InSegment
<1>2. /\ s.rq \in Seq(ReadSkb) /\ s.ofo \in Seq(ReadSkb) /\ s.rcv_nxt \in Nat
      /\ th.dlen \in Nat /\ th.data \in Nat /\ IRS \in Nat
  BY Fields, TcpConstants DEF InSegment
<1>3. t \in Tsk /\ t.state = s.state /\ s.state \notin Before
  BY DataQueueEffect DEF TextStates, Before
<1>4. s.rcv_nxt = IRS + StreamEnd(s.rq, n)
  BY DEF StreamOK, Receiving
<1>5. CASE th.seq = s.rcv_nxt
  <2> DEFINE m == s.rcv_nxt + th.dlen
             q == Append(s.rq, skb)
             a == [s EXCEPT !.rcv_nxt = m, !.rq = q]
  <2>1. /\ a \in Tsk /\ t.rq = tcp_consume_ofo_queue(a).rq
        /\ t.ofo = tcp_consume_ofo_queue(a).ofo
        /\ t.rcv_nxt = tcp_consume_ofo_queue(a).rcv_nxt
    BY <1>5, DataQueueEffect
  <2> HIDE DEF m, q, t
  <2>2. a.state = s.state /\ a.rcv_nxt = m /\ a.rq = q /\ a.ofo = s.ofo
    BY DEF Tsk
  <2> HIDE DEF a, skb
  <2>3. StreamEnd(s.rq, n) \in Nat
    <3>1. CASE s.rq = << >>
      BY <3>1 DEF StreamEnd
    <3>2. CASE s.rq # << >>
      <4>1. s.rq[Len(s.rq)] \in ReadSkb
        BY <1>2, <3>2
      <4>2. s.rq[Len(s.rq)].data \in Nat /\ s.rq[Len(s.rq)].dlen \in Nat
        BY <4>1 DEF ReadSkb
      <4> QED
        BY <3>2, <4>2 DEF StreamEnd
    <3> QED
      BY <3>1, <3>2
  <2>4. skb.data = StreamEnd(s.rq, n)
    BY <1>1, <1>2, <1>4, <1>5, <2>3
  <2>5. Contiguous(q, n) /\ StreamEnd(q, n) = skb.data + skb.dlen
    BY <1>1, <1>2, <2>4, AppendStream DEF StreamOK, q
  <2>6. m = IRS + StreamEnd(q, n)
    BY <1>1, <1>2, <1>5, <2>5 DEF m
  <2>7. StreamOK(a, n)
    BY <1>3, <2>2, <2>5, <2>6 DEF StreamOK
  <2>8. StreamOK(tcp_consume_ofo_queue(a), n) /\ tcp_consume_ofo_queue(a).state = s.state
    BY <2>1, <2>2, <2>7, ConsumeStream, ConsumeEffect
  <2> QED
    BY <1>3, <2>1, <2>8 DEF StreamOK, t
<1>6. CASE th.seq # s.rcv_nxt
  <2>1. /\ t.rq = s.rq /\ t.rcv_nxt = s.rcv_nxt
        /\ t.ofo = tcp_data_insert_ordered(s.ofo, skb)
    BY <1>6, DataQueueEffect
  <2>2. skb.seq = IRS + skb.data
    BY <1>1
  <2> HIDE DEF t, skb
  <2>3. \A j \in 1..Len(t.ofo) : t.ofo[j] = skb \/ \E i \in 1..Len(s.ofo) : t.ofo[j] = s.ofo[i]
    <3> DEFINE o == tcp_data_insert_ordered(s.ofo, skb)
    <3>1. \A j \in 1..Len(o) : o[j] = skb \/ \E i \in 1..Len(s.ofo) : o[j] = s.ofo[i]
      BY <1>1, <1>2, InsertOrdered
    <3> HIDE DEF o
    <3>2. t.ofo = o
      BY <2>1 DEF o
    <3> QED
      BY <3>1, <3>2
  <2>4. Placed(t.ofo)
    BY <2>2, <2>3 DEF StreamOK, Placed
  <2> QED
    BY <1>3, <1>4, <2>1, <2>4 DEF StreamOK, t
<1> QED
  BY <1>5, <1>6

----------------------------------------------------------------------------

\* Every segment of the peer puts its bytes at their positions.
LEMMA InFlightPlaced ==
    ASSUME peer \in PeerType, NEW th \in InFlight
    PROVE  SegmentOK(th)
<1>1. /\ NoFlags.dlen = 0 /\ NoFlags.psh = FALSE /\ NoFlags.syn = FALSE
      /\ NoFlags.seq = 0 /\ NoFlags.data = 0
      /\ DOMAIN NoFlags = {"seq", "dlen", "data", "ack_seq", "syn", "fin", "rst",
                           "ack", "psh"}
  BY DEF NoFlags
<1>2. IRS \in Nat /\ PeerBytes \in Nat
  BY TcpConstants, TcpRunConstants
<1>3. CASE th \in Handshake
  <2>1. th.psh = FALSE /\ th.dlen = 0 /\ (th.syn => th.seq = IRS)
    BY <1>3 DEF Handshake, NoFlags
  <2> QED
    BY <2>1 DEF SegmentOK
<1>4. CASE th \in Resets
  <2>1. th.psh = FALSE /\ th.dlen = 0 /\ th.syn = FALSE
    BY <1>4 DEF Resets, NoFlags
  <2> QED
    BY <2>1 DEF SegmentOK
<1>5. ASSUME NEW p \in peer.hist, th \in PeerData(p) PROVE SegmentOK(th)
  <2>1. PICK x \in (0..PeerBytes) \X (0..PeerBytes) \X BOOLEAN :
           th = [NoFlags EXCEPT !.seq = IRS + 1 + x[1], !.data = x[1] + 1,
                     !.dlen = x[2] - x[1], !.ack = TRUE, !.ack_seq = p.ack,
                     !.psh = x[3]]
    BY <1>5 DEF PeerData
  <2>2. x[1] \in Nat
    BY <1>2
  <2>3. th.seq = IRS + 1 + x[1] /\ th.data = x[1] + 1 /\ th.syn = FALSE
    BY <2>1 DEF NoFlags
  <2> QED
    BY <1>2, <2>2, <2>3 DEF SegmentOK
<1>6. ASSUME NEW p \in peer.hist, th \in PeerFin(p) PROVE SegmentOK(th)
  <2>1. PICK lo \in 0..PeerBytes :
           th = [NoFlags EXCEPT !.seq = IRS + 1 + lo, !.data = lo + 1,
                     !.dlen = PeerBytes - lo, !.ack = TRUE, !.ack_seq = p.ack,
                     !.fin = TRUE]
    BY <1>6 DEF PeerFin
  <2>2. lo \in Nat
    BY <1>2
  <2>3. th.seq = IRS + 1 + lo /\ th.data = lo + 1 /\ th.syn = FALSE
    BY <2>1 DEF NoFlags
  <2> QED
    BY <1>2, <2>2, <2>3 DEF SegmentOK
<1>7. ASSUME NEW p \in peer.hist, th \in PeerAck(p) PROVE SegmentOK(th)
  <2>1. th.psh = FALSE /\ th.dlen = 0 /\ th.syn = FALSE
    BY <1>7 DEF PeerAck, NoFlags
  <2> QED
    BY <2>1 DEF SegmentOK
<1> QED
  BY <1>3, <1>4, <1>5, <1>6, <1>7 DEF InFlight

\* An arriving segment preserves StreamOK.
LEMMA CoreStream ==
    ASSUME TypeOK, CoreNext, StreamOK(tsk, Len(delivered))
    PROVE  StreamOK(tsk', Len(delivered')) /\ delivered' = delivered
<1> DEFINE n == Len(delivered)
<1>1. tsk \in Tsk /\ peer \in PeerType /\ n \in Nat
  BY DEF TypeOK
<1>2. PICK th \in InFlight :
              /\ th \in InSegment
              /\ UNCHANGED << app, wrote, delivered, peer >>
              /\ tsk.state # "CLOSE"
              /\ \/ Keeps(tsk, tsk')
                 \/ /\ tsk.state = "SYN_SENT" /\ th.syn
                    /\ Keeps([tsk EXCEPT !.rcv_nxt = th.seq + 1,
                                         !.state = "ESTABLISHED"], tsk')
                 \/ \E a \in Tsk :
                       /\ Keeps(tsk, a) /\ a.state \in TextStates
                       /\ th.psh \/ th.dlen > 0
                       /\ Keeps(tcp_data_queue(a, th), tsk')
  BY CoreSteps
<1>3. SegmentOK(th)
  BY <1>1, InFlightPlaced
<1> HIDE DEF n
<1>4. StreamOK(tsk, n)
  BY DEF n
<1>5. ASSUME Keeps(tsk, tsk') PROVE StreamOK(tsk', n)
  BY <1>4, <1>5, KeepsStream
<1>6. ASSUME tsk.state = "SYN_SENT", th.syn,
             Keeps([tsk EXCEPT !.rcv_nxt = th.seq + 1, !.state = "ESTABLISHED"], tsk')
      PROVE  StreamOK(tsk', n)
  <2> DEFINE t == [tsk EXCEPT !.rcv_nxt = IRS + 1, !.state = "ESTABLISHED"]
  <2>1. th.seq = IRS
    BY <1>3, <1>6 DEF SegmentOK
  <2>2. StreamOK(t, n)
    BY <1>1, <1>4, <1>6, StartsStream
  <2>3. Keeps(t, tsk')
    BY <1>6, <2>1
  <2> HIDE DEF t
  <2> QED
    BY <2>2, <2>3, KeepsStream
<1>7. ASSUME NEW a \in Tsk, Keeps(tsk, a), a.state \in TextStates,
             th.psh \/ th.dlen > 0, Keeps(tcp_data_queue(a, th), tsk')
      PROVE  StreamOK(tsk', n)
  <2>1. StreamOK(a, n)
    BY <1>4, <1>7, KeepsStream
  <2>2. th.seq = IRS + th.data
    BY <1>3, <1>7 DEF SegmentOK
  <2>3. StreamOK(tcp_data_queue(a, th), n)
    BY <1>1, <1>2, <1>7, <2>1, <2>2, DataQueueStream
  <2> QED
    BY <1>7, <2>3, KeepsStream
<1>8. StreamOK(tsk', n)
  BY <1>2, <1>5, <1>6, <1>7
<1> QED
  BY <1>2, <1>8 DEF n

\* Copying a buffer out delivers the next bytes, and the rest of the queue
\* follows them up to the same end.
LEMMA CopyStream ==
    ASSUME TypeOK, CopySkb, StreamOK(tsk, Len(delivered)), InOrder
    PROVE  /\ StreamOK(tsk', Len(delivered')) /\ InOrder'
           /\ StreamEnd(tsk'.rq, Len(delivered')) = StreamEnd(tsk.rq, Len(delivered))
<1> DEFINE n == Len(delivered)
           q == tsk.rq
           skb == q[1]
<1>1. tsk \in Tsk /\ q \in Seq(ReadSkb) /\ delivered \in Seq(Nat) /\ n \in Nat
  BY Fields DEF TypeOK
<1>2. /\ tsk'.state = tsk.state /\ tsk'.rcv_nxt = tsk.rcv_nxt
      /\ tsk'.ofo = tsk.ofo /\ q # << >>
  BY CopySkbEffect
<1>3. PICK m \in 0..skb.dlen :
         /\ delivered' = delivered \o [i \in 1..m |-> skb.data + i - 1]
         /\ \/ m = skb.dlen /\ tsk'.rq = Tail(q)
            \/ tsk'.rq = [q EXCEPT ![1] = [skb EXCEPT !.dlen = skb.dlen - m,
                                                      !.data = skb.data + m]]
  BY CopySkbEffect
<1>4. /\ 1 \in 1..Len(q) /\ skb \in ReadSkb /\ Len(q) \in Nat
      /\ skb.dlen \in Nat /\ m \in Nat /\ m <= skb.dlen
  <2>1. 1 \in 1..Len(q) /\ skb \in ReadSkb /\ Len(q) \in Nat
    BY <1>1, <1>2
  <2>2. skb.dlen \in Nat
    BY <2>1 DEF ReadSkb
  <2> QED
    BY <2>1, <2>2
<1>5. /\ Contiguous(q, n) /\ Placed(tsk.ofo) /\ skb.data = n + 1
      /\ tsk.state \in Receiving => tsk.rcv_nxt = IRS + StreamEnd(q, n)
      /\ tsk.state \notin Before
  BY <1>2, <1>4 DEF StreamOK, Contiguous
<1>6. \A i \in 1..Len(q) : q[i] \in ReadSkb /\ q[i].data \in Nat /\ q[i].dlen \in Nat
  <2>1. \A i \in 1..Len(q) : q[i] \in ReadSkb
    BY <1>1
  <2>2. \A x \in ReadSkb : x.data \in Nat /\ x.dlen \in Nat
    BY DEF ReadSkb
  <2> QED
    BY <2>1, <2>2
<1>5a. /\ skb.data + skb.dlen = n + skb.dlen + 1
      /\ skb.data + m = n + m + 1
      /\ (skb.data + m) + (skb.dlen - m) = skb.data + skb.dlen
      /\ \A i \in 1..m : skb.data + i - 1 = n + i
  <2> DEFINE d == skb.data
             l == skb.dlen
  <2>1. d = n + 1 /\ n \in Nat /\ l \in Nat /\ m \in Nat
    BY <1>1, <1>4, <1>5
  <2> HIDE DEF d, l, n
  <2>2. /\ d + l = n + l + 1 /\ d + m = n + m + 1
        /\ (d + m) + (l - m) = d + l
        /\ \A i \in 1..m : d + i - 1 = n + i
    BY <2>1
  <2> QED
    BY <2>2 DEF d, l
<1> DEFINE f == [i \in 1..m |-> skb.data + i - 1]
<1>7. /\ delivered' = delivered \o f
      /\ f \in Seq(Nat) /\ Len(f) = m
      /\ \A i \in 1..m : f[i] = n + i
  <2>1. delivered' = delivered \o f
    BY <1>3
  <2> HIDE DEF n
  <2>2. f = [i \in 1..m |-> n + i]
    BY <1>5a
  <2>3. \A i \in 1..m : n + i \in Nat
    BY <1>1, <1>4
  <2> HIDE DEF f
  <2> QED
    BY <1>4, <2>1, <2>2, <2>3
<1> HIDE DEF n, q, f
<1>8. Len(delivered') = n + m /\ InOrder'
  <2>1. /\ delivered' \in Seq(Nat) /\ Len(delivered') = n + m
        /\ \A i \in 1..n : delivered'[i] = delivered[i]
        /\ \A i \in 1..(n + m) : i > n => delivered'[i] = f[i - n] /\ i - n \in 1..m
    <3>1. /\ delivered' \in Seq(Nat) /\ Len(delivered') = Len(delivered) + Len(f)
          /\ \A i \in 1..(Len(delivered) + Len(f)) :
                delivered'[i] = IF i <= Len(delivered) THEN delivered[i]
                                ELSE f[i - Len(delivered)]
      BY <1>1, <1>7, ConcatProperties
    <3>2. Len(delivered) = n /\ Len(f) = m
      BY <1>7 DEF n
    <3>3. \A i \in 1..(n + m) :
             delivered'[i] = IF i <= n THEN delivered[i] ELSE f[i - n]
      BY <3>1, <3>2
    <3>4. /\ \A i \in 1..n : i \in 1..(n + m) /\ i <= n
          /\ \A i \in 1..(n + m) : i > n => ~(i <= n) /\ i - n \in 1..m
      BY <1>1, <1>4
    <3> QED
      BY <3>1, <3>2, <3>3, <3>4
  <2>2. \A i \in 1..n : delivered[i] = i
    BY DEF InOrder, n
  <2>3. ASSUME NEW i \in 1..(n + m) PROVE delivered'[i] = i
    <3>1. CASE i <= n
      BY <1>1, <2>1, <2>2, <3>1
    <3>2. CASE i > n
      <4>1. delivered'[i] = f[i - n] /\ i - n \in 1..m
        BY <2>1, <3>2
      <4>2. f[i - n] = n + (i - n)
        BY <1>7, <4>1
      <4> QED
        BY <1>1, <1>4, <4>1, <4>2
    <3> QED
      BY <1>1, <1>4, <3>1, <3>2
  <2> QED
    BY <2>1, <2>3 DEF InOrder
<1>9. \A i \in 1..Len(q) : i # 1 => /\ i - 1 \in 1..Len(q)
                                    /\ q[i].data = q[i-1].data + q[i-1].dlen
  BY <1>4, <1>5 DEF Contiguous
<1>10. Contiguous(tsk'.rq, n + m) /\ StreamEnd(tsk'.rq, n + m) = StreamEnd(q, n)
  <2>1. CASE m = skb.dlen /\ tsk'.rq = Tail(q)
    <3> DEFINE r == Tail(q)
    <3>1. /\ r \in Seq(ReadSkb) /\ Len(r) = Len(q) - 1
          /\ \A i \in 1..(Len(q) - 1) : r[i] = q[i + 1]
      BY <1>1, <1>2
    <3> HIDE DEF r
    <3>2. ASSUME NEW i \in 1..Len(r)
          PROVE  r[i].data = IF i = 1 THEN n + m + 1 ELSE r[i-1].data + r[i-1].dlen
      <4>1. /\ r[i] = q[i + 1] /\ i + 1 \in 1..Len(q) /\ i + 1 # 1
            /\ (i + 1) - 1 = i /\ i \in 1..Len(q)
        BY <1>4, <3>1
      <4>2. q[i + 1].data = q[i].data + q[i].dlen
        BY <1>9, <4>1
      <4>3. CASE i = 1
        <5>1. r[i].data = skb.data + skb.dlen
          BY <4>1, <4>2, <4>3
        <5> QED
          BY <1>1, <1>4, <1>5, <2>1, <4>3, <5>1
      <4>4. CASE i # 1
        <5>1. i - 1 \in 1..(Len(q) - 1) /\ (i - 1) + 1 = i
          BY <1>4, <3>1, <4>4
        <5>2. r[i-1] = q[i]
          BY <3>1, <5>1
        <5> QED
          BY <4>1, <4>2, <4>4, <5>2
      <4> QED
        BY <4>3, <4>4
    <3>3. Contiguous(r, n + m)
      BY <3>2 DEF Contiguous
    <3>4. StreamEnd(r, n + m) = StreamEnd(q, n)
      <4>1. CASE Len(q) = 1
        <5>1. r = << >>
          BY <3>1, <4>1
        <5>2. StreamEnd(q, n) = skb.data + skb.dlen
          BY <1>2, <4>1 DEF StreamEnd
        <5>3. StreamEnd(r, n + m) = n + m + 1
          BY <5>1 DEF StreamEnd
        <5> QED
          BY <1>5a, <2>1, <5>2, <5>3
      <4>2. CASE Len(q) # 1
        <5>1. /\ r # << >> /\ Len(r) \in 1..(Len(q) - 1)
              /\ Len(r) + 1 = Len(q)
          BY <1>4, <3>1, <4>2
        <5>2. r[Len(r)] = q[Len(q)]
          BY <3>1, <5>1
        <5> QED
          BY <1>2, <5>1, <5>2 DEF StreamEnd
      <4> QED
        BY <4>1, <4>2
    <3> QED
      BY <2>1, <3>3, <3>4 DEF r
  <2>2. CASE tsk'.rq = [q EXCEPT ![1] = [skb EXCEPT !.dlen = skb.dlen - m,
                                                    !.data = skb.data + m]]
    <3> DEFINE x == [skb EXCEPT !.dlen = skb.dlen - m, !.data = skb.data + m]
               r == [q EXCEPT ![1] = x]
    <3>1. x.dlen = skb.dlen - m /\ x.data = skb.data + m
      BY <1>4 DEF ReadSkb
    <3> HIDE DEF x
    <3>2. /\ Len(r) = Len(q) /\ r[1] = x /\ r # << >>
          /\ \A i \in 1..Len(q) : i # 1 => r[i] = q[i]
      BY <1>1, <1>4
    <3> HIDE DEF r
    <3>3. x.data = n + m + 1 /\ x.data + x.dlen = q[1].data + q[1].dlen
      BY <1>5a, <3>1
    <3>4. ASSUME NEW i \in 1..Len(r)
          PROVE  r[i].data = IF i = 1 THEN n + m + 1 ELSE r[i-1].data + r[i-1].dlen
      <4>1. CASE i = 1
        BY <3>2, <3>3, <4>1
      <4>2. CASE i = 2
        <5>1. i \in 1..Len(q) /\ i # 1 /\ i - 1 = 1
          BY <3>2, <4>2
        <5>2. r[i] = q[i] /\ q[i].data = q[1].data + q[1].dlen
          BY <1>9, <3>2, <5>1
        <5>3. r[i-1] = x
          BY <3>2, <5>1
        <5> QED
          BY <3>3, <4>2, <5>2, <5>3
      <4>3. CASE i # 1 /\ i # 2
        <5>1. i \in 1..Len(q) /\ i - 1 \in 1..Len(q) /\ i - 1 # 1
          BY <1>4, <3>2, <4>3
        <5>2. r[i] = q[i] /\ r[i-1] = q[i-1] /\ q[i].data = q[i-1].data + q[i-1].dlen
          BY <1>9, <3>2, <4>3, <5>1
        <5> QED
          BY <4>3, <5>2
      <4> QED
        BY <4>1, <4>2, <4>3
    <3>5. Contiguous(r, n + m)
      BY <3>4 DEF Contiguous
    <3>6. StreamEnd(r, n + m) = StreamEnd(q, n)
      <4>1. CASE Len(q) = 1
        BY <1>2, <3>2, <3>3, <4>1 DEF StreamEnd
      <4>2. CASE Len(q) # 1
        <5>1. r[Len(r)] = q[Len(q)] /\ Len(r) = Len(q)
          BY <1>4, <3>2, <4>2
        <5> QED
          BY <1>2, <3>2, <5>1 DEF StreamEnd
      <4> QED
        BY <4>1, <4>2
    <3>7. tsk'.rq = r
      BY <2>2 DEF r, x
    <3> QED
      BY <3>5, <3>6, <3>7
  <2> QED
    BY <1>3, <2>1, <2>2
<1>11. StreamOK(tsk', n + m)
  BY <1>2, <1>5, <1>10 DEF StreamOK
<1>12. StreamEnd(tsk'.rq, Len(delivered')) = StreamEnd(q, n)
  BY <1>8, <1>10
<1> QED
  BY <1>8, <1>11, <1>12 DEF n, q

\* A step that receives and delivers nothing preserves the stream.
LEMMA QuietStream ==
    ASSUME StreamOK(tsk, Len(delivered)), InOrder, QuietStep
    PROVE  StreamOK(tsk', Len(delivered')) /\ InOrder'
BY KeepsStream DEF QuietStep, InOrder

----------------------------------------------------------------------------

\* The step of the induction.
LEMMA StreamStep ==
    ASSUME StreamInv, [Next]_vars
    PROVE  StreamInv'
<1>1. TypeInv /\ TypeOK /\ StreamOK(tsk, Len(delivered)) /\ InOrder
  BY DEF StreamInv, TypeInv
<1>2. TypeInv'
  BY <1>1, TypeStep
<1>3. CASE UNCHANGED vars
  BY <1>1, <1>2, <1>3 DEF StreamInv, InOrder, vars
<1>4. CASE AppNext
  <2>1. CopySkb \/ QuietStep
    BY <1>1, <1>4, ConnectSteps, WriteCloseSteps, ReadSteps DEF AppNext
  <2> QED
    BY <1>1, <1>2, <2>1, CopyStream, QuietStream DEF StreamInv
<1>5. CASE TimerNext
  BY <1>1, <1>2, <1>5, TimerSteps, QuietStream DEF StreamInv
<1>6. CASE PeerNext
  <2>1. tsk' = tsk /\ delivered' = delivered
    BY <1>1, <1>6, PeerSteps
  <2> QED
    BY <1>1, <1>2, <2>1 DEF StreamInv, InOrder
<1>7. CASE CoreNext
  <2>1. StreamOK(tsk', Len(delivered')) /\ delivered' = delivered
    BY <1>1, <1>7, CoreStream
  <2> QED
    BY <1>1, <1>2, <2>1 DEF StreamInv, InOrder
<1> QED
  BY <1>3, <1>4, <1>5, <1>6, <1>7 DEF Next

\* Nothing is delivered, queued or expected at first.
LEMMA StreamInit ==
    ASSUME Init
    PROVE  StreamInv
<1>1. TypeInv /\ tsk = NewSock /\ delivered = << >>
  BY TypeInit DEF Init
<1>2. /\ tsk.rq = << >> /\ tsk.ofo = << >> /\ tsk.state = "CLOSE"
      /\ Len(delivered) = 0
  BY <1>1 DEF NewSock
<1>3. StreamOK(tsk, Len(delivered))
  BY <1>2 DEF StreamOK, Contiguous, Placed, Before, Receiving, TextStates
<1> QED
  BY <1>1, <1>3 DEF StreamInv, InOrder

\* The stream is delivered in order in every behaviour, whatever is lost,
\* repeated, reordered or resegmented on the way, for every window, every
\* stream length and every sequence of read() calls.
THEOREM StreamInOrder == Spec => []InOrder
<1>1. Init => StreamInv
  BY StreamInit
<1>2. StreamInv /\ [Next]_vars => StreamInv'
  BY StreamStep
<1>3. StreamInv => InOrder
  BY DEF StreamInv
<1> QED
  BY <1>1, <1>2, <1>3, PTL DEF Spec

----------------------------------------------------------------------------
(***************************************************************************)
(* Part 2.  The reader: NoLostWakeup and PollTellsTruth.                   *)
(***************************************************************************)

\* The connection is over, or was given up or reset.
Ended == {"CLOSING", "TIME_WAIT"}

\* The peer's FIN has come first, and we have not.
Passive == {"CLOSE_WAIT", "LAST_ACK"}

\* t is s after an operation that neither gives the reader anything nor takes
\* anything away, and that ends no connection but may end this one.
SameRead(s, t) ==
    /\ Keeps(s, t)
    /\ t.fin = s.fin /\ t.psh = s.psh /\ t.rcv_nxt = s.rcv_nxt
    /\ t.recv_wait = s.recv_wait
    /\ ("IN" \in t.poll) <=> ("IN" \in s.poll)
    /\ t.state \notin Ended => s.state \notin Ended
    /\ t.state \in Passive => s.state \in Passive

\* The same of an operation that does not change the state either: it is enough
\* to compare the fields.
LEMMA SameFields ==
    ASSUME NEW s \in Tsk, NEW t, Keeps(s, t), t.state = s.state,
           t.fin = s.fin, t.psh = s.psh, t.rcv_nxt = s.rcv_nxt,
           t.recv_wait = s.recv_wait, t.poll = s.poll
    PROVE  SameRead(s, t)
BY DEF SameRead

\* Such operations compose.
LEMMA SameReadTransitive ==
    ASSUME NEW s, NEW t, NEW u, SameRead(s, t), SameRead(t, u)
    PROVE  SameRead(s, u)
BY KeepsTransitive DEF SameRead

\* Arming, releasing and cancelling timers.
LEMMA TimersRead ==
    ASSUME NEW s \in Tsk
    PROVE  /\ SameRead(s, tcp_release_rto_timer(s))
           /\ SameRead(s, tcp_release_delack_timer(s))
           /\ SameRead(s, tcp_stop_rto_timer(s))
           /\ SameRead(s, tcp_stop_delack_timer(s))
           /\ SameRead(s, tcp_clear_timers(s))
           /\ SameRead(s, tcp_rearm_user_timeout(s))
<1> DEFINE Same(t) == /\ t.state = s.state /\ t.fin = s.fin /\ t.psh = s.psh
                      /\ t.rcv_nxt = s.rcv_nxt /\ t.recv_wait = s.recv_wait
                      /\ t.poll = s.poll
<1>1. Same(tcp_release_rto_timer(s)) /\ Same(tcp_release_delack_timer(s))
  BY DEF tcp_release_rto_timer, tcp_release_delack_timer, Tsk
<1>2. Same(tcp_stop_rto_timer(s)) /\ Same(tcp_stop_delack_timer(s))
  BY DEF tcp_stop_rto_timer, tcp_stop_delack_timer, Tsk
<1>3. Same(tcp_clear_timers(s)) /\ Same(tcp_rearm_user_timeout(s))
  BY DEF tcp_clear_timers, tcp_rearm_user_timeout, Tsk
<1>4. \A t : Keeps(s, t) /\ Same(t) => SameRead(s, t)
  BY SameFields
<1> HIDE DEF Same
<1> QED
  BY <1>1, <1>2, <1>3, <1>4, TimersKeep

\* Rearming the retransmission timer, entering TIME_WAIT.
LEMMA RearmRead ==
    ASSUME NEW s \in Tsk
    PROVE  /\ SameRead(s, tcp_rearm_rto_timer(s))
           /\ SameRead(s, tcp_enter_time_wait(s))
<1>1. SameRead(s, tcp_rearm_rto_timer(s))
  <2> DEFINE a == tcp_release_rto_timer(s)
             k == timer_add(IF s.state = "SYN_SENT" THEN "conn" ELSE "rto")
             t == [a EXCEPT !.retransmit = k]
  <2>1. SameRead(s, a) /\ a \in Tsk
    BY TimersRead DEF SameRead, Keeps
  <2>2. tcp_rearm_rto_timer(s) = t /\ Keeps(s, t) /\ a.state = s.state
    BY RearmRtoKeeps, TimersQueue DEF tcp_rearm_rto_timer
  <2> HIDE DEF a, k
  <2>3. /\ t.state = a.state /\ t.fin = a.fin /\ t.psh = a.psh /\ t.rcv_nxt = a.rcv_nxt
        /\ t.recv_wait = a.recv_wait /\ t.poll = a.poll
    BY <2>1 DEF Tsk
  <2> HIDE DEF t
  <2> QED
    BY <2>1, <2>2, <2>3 DEF SameRead
<1>2. SameRead(s, tcp_enter_time_wait(s))
  <2> DEFINE a == tcp_clear_timers(s)
             t == [a EXCEPT !.state = "TIME_WAIT", !.linger = timer_add("2msl")]
  <2>1. SameRead(s, a) /\ a \in Tsk
    BY TimersRead DEF SameRead, Keeps
  <2>2. tcp_enter_time_wait(s) = t /\ Keeps(s, t)
    BY TimeWaitKeeps DEF tcp_enter_time_wait
  <2> HIDE DEF a
  <2>3. /\ t.state = "TIME_WAIT" /\ t.fin = a.fin /\ t.psh = a.psh
        /\ t.rcv_nxt = a.rcv_nxt
        /\ t.recv_wait = a.recv_wait /\ t.poll = a.poll
    BY <2>1 DEF Tsk
  <2> HIDE DEF t
  <2> QED
    BY <2>1, <2>2, <2>3 DEF SameRead, Ended, Passive
<1> QED
  BY <1>1, <1>2

\* Telling a thread in connect(), the states of the FIN, acknowledgments and
\* resets, measuring.
LEMMA LightRead ==
    ASSUME NEW s \in Tsk
    PROVE  /\ SameRead(s, s)
           /\ SameRead(s, tcp_notify_user(s)) /\ SameRead(s, tcp_handle_fin_state(s))
           /\ SameRead(s, tcp_send_ack(s)) /\ SameRead(s, tcp_send_synack(s))
           /\ SameRead(s, tcp_send_reset(s))
           /\ \A r \in Nat : SameRead(s, tcp_rtt(s, r))
<1> DEFINE Same(t) == /\ t.state = s.state /\ t.fin = s.fin /\ t.psh = s.psh
                      /\ t.rcv_nxt = s.rcv_nxt /\ t.recv_wait = s.recv_wait
                      /\ t.poll = s.poll
<1>1. Same(tcp_notify_user(s)) /\ Same(tcp_send_ack(s))
  BY DEF tcp_notify_user, tcp_send_ack, Tsk
<1>2. Same(tcp_send_synack(s)) /\ Same(tcp_send_reset(s))
  BY DEF tcp_send_synack, tcp_send_reset, Tsk
<1>3. \A r \in Nat : Same(tcp_rtt(s, r))
  BY DEF tcp_rtt, Tsk
<1>4. \A t : Keeps(s, t) /\ Same(t) => SameRead(s, t)
  BY SameFields
<1>5. SameRead(s, tcp_handle_fin_state(s))
  <2> DEFINE t == tcp_handle_fin_state(s)
  <2>1. /\ t.fin = s.fin /\ t.psh = s.psh /\ t.rcv_nxt = s.rcv_nxt
        /\ t.recv_wait = s.recv_wait /\ t.poll = s.poll
        /\ \/ t.state = s.state
           \/ s.state = "CLOSE_WAIT" /\ t.state = "LAST_ACK"
           \/ s.state = "ESTABLISHED" /\ t.state = "FIN_WAIT_1"
    BY DEF tcp_handle_fin_state, Tsk
  <2>2. Keeps(s, t)
    BY WakingKeeps
  <2> HIDE DEF t
  <2>3. /\ t.state \notin Ended => s.state \notin Ended
        /\ t.state \in Passive => s.state \in Passive
    BY <2>1 DEF Ended, Passive
  <2>4. SameRead(s, t)
    BY <2>1, <2>2, <2>3 DEF SameRead
  <2> QED
    BY <2>4 DEF t
<1>6. Same(s)
  OBVIOUS
<1> HIDE DEF Same
<1> QED
  BY <1>1, <1>2, <1>3, <1>4, <1>5, <1>6, KeepsReflexive, WakingKeeps, SendAckKeeps,
     SynackKeeps, ResetKeeps, RttKeeps

\* tcp_done, an abort.
LEMMA DoneRead ==
    ASSUME NEW s \in Tsk
    PROVE  /\ SameRead(s, tcp_done(s)) /\ SameRead(s, tcp_abort(s))
           /\ tcp_done(s) \in Tsk
<1>1. ASSUME NEW u \in Tsk PROVE SameRead(u, tcp_done(u)) /\ tcp_done(u) \in Tsk
  <2> DEFINE a == [u EXCEPT !.state = "CLOSING"]
             b == tcp_clear_timers(a)
             c == [b EXCEPT !.ofo = << >>, !.sleep = wait_wakeup(b.sleep)]
             t == tcp_done(u)
  <2>1. a \in Tsk
    BY DEF Tsk, TcpStates
  <2>2. /\ a.fin = u.fin /\ a.psh = u.psh /\ a.rcv_nxt = u.rcv_nxt
        /\ a.recv_wait = u.recv_wait /\ a.poll = u.poll
    BY DEF Tsk
  <2>3. t = socket_delete(c)
    BY DEF tcp_done, tcp_free
  <2> HIDE DEF a
  <2>4. SameRead(a, b) /\ b \in Tsk
    BY <2>1, TimersRead DEF SameRead, Keeps
  <2> HIDE DEF b
  <2>5. /\ c.fin = b.fin /\ c.psh = b.psh /\ c.rcv_nxt = b.rcv_nxt
        /\ c.recv_wait = b.recv_wait /\ c.poll = b.poll /\ c \in Tsk
    <3>1. wait_wakeup(b.sleep) \in WaitStates /\ << >> \in Seq(ReadSkb)
      BY <2>4, Fields DEF wait_wakeup, WaitStates
    <3> QED
      BY <2>4, <3>1 DEF Tsk
  <2> HIDE DEF c
  <2>6. /\ t.fin = c.fin /\ t.psh = c.psh /\ t.rcv_nxt = c.rcv_nxt
        /\ t.recv_wait = c.recv_wait /\ t.poll = c.poll
    BY <2>3, <2>5 DEF socket_delete, Tsk
  <2>7. Keeps(u, t) /\ t.state = "CLOSING" /\ t \in Tsk
    BY DoneKeeps, DoneQueue
  <2> HIDE DEF t
  <2>8. SameRead(u, t)
    BY <2>2, <2>4, <2>5, <2>6, <2>7 DEF SameRead, Ended, Passive
  <2> QED
    BY <2>7, <2>8 DEF t
<1>2. SameRead(s, tcp_send_reset(s)) /\ tcp_send_reset(s) \in Tsk
  BY LightRead DEF SameRead, Keeps
<1> QED
  BY <1>1, <1>2, SameReadTransitive DEF tcp_abort

\* Putting a buffer of the write queue on the wire.
LEMMA TransmitRead ==
    ASSUME NEW s \in Tsk, NEW skb \in WriteSkb, NEW seq \in Nat
    PROVE  SameRead(s, tcp_transmit_skb(s, skb, seq))
<1> DEFINE g == [seq |-> seq, dlen |-> skb.dlen, data |-> skb.data,
                 syn |-> skb.syn, fin |-> skb.fin, rst |-> FALSE,
                 ack |-> ~skb.syn]
           w == s.wire \cup {g}
           n == IF skb.syn THEN s.acked ELSE s.rcv_nxt
           t == [s EXCEPT !.wire = w, !.acked = n]
<1>1. tcp_transmit_skb(s, skb, seq) = t /\ Keeps(s, t)
  BY TransmitKeeps DEF tcp_transmit_skb
<1> HIDE DEF w, n
<1>2. /\ t.state = s.state /\ t.fin = s.fin /\ t.psh = s.psh /\ t.rcv_nxt = s.rcv_nxt
      /\ t.recv_wait = s.recv_wait /\ t.poll = s.poll
  BY DEF Tsk
<1> HIDE DEF t
<1> QED
  BY <1>1, <1>2, SameFields

\* Queueing a buffer, the FIN, the payload of a write().
LEMMA QueueRead ==
    ASSUME NEW s \in Tsk, NEW skb \in WriteSkb
    PROVE  SameRead(s, tcp_queue_transmit_skb(s, skb))
<1> DEFINE a == IF s.wq = << >> THEN tcp_rearm_rto_timer(s) ELSE s
           b == tcp_transmit_skb(a, skb, a.snd_nxt)
           k == b.inflight + 1
           n == SeqAfter(skb, a.snd_nxt)
           w == Append(b.wq, Numbered(skb, a.snd_nxt))
           c == [b EXCEPT !.inflight = k, !.snd_nxt = n, !.wq = w]
           v == Append(a.wq, skb)
           d == [a EXCEPT !.wq = v]
           t == tcp_queue_transmit_skb(s, skb)
<1>1. t = IF a.inflight = 0 THEN c ELSE d
  BY DEF tcp_queue_transmit_skb
<1>2. SameRead(s, a) /\ a \in Tsk /\ a.state = s.state
  BY RearmRead, RearmRtoQueue, LightRead DEF SameRead, Keeps
<1> HIDE DEF a
<1>3. SameRead(a, b) /\ b \in Tsk /\ b.state = s.state
  <2>1. a.snd_nxt \in Nat
    BY <1>2, Fields
  <2> QED
    BY <1>2, <2>1, TransmitRead, TransmitQueue DEF SameRead, Keeps
<1> HIDE DEF b, k, n, w, v
<1>4. /\ c.state = b.state /\ c.fin = b.fin /\ c.psh = b.psh /\ c.rcv_nxt = b.rcv_nxt
      /\ c.recv_wait = b.recv_wait /\ c.poll = b.poll
  BY <1>3 DEF Tsk
<1>5. /\ d.state = a.state /\ d.fin = a.fin /\ d.psh = a.psh /\ d.rcv_nxt = a.rcv_nxt
      /\ d.recv_wait = a.recv_wait /\ d.poll = a.poll
  BY <1>2 DEF Tsk
<1>6. Keeps(s, t)
  BY QueueTransmitKeeps
<1> HIDE DEF c, d, t
<1>7. SameRead(s, t)
  <2>1. CASE t = c
    BY <1>2, <1>3, <1>4, <1>6, <2>1 DEF SameRead
  <2>2. CASE t = d
    BY <1>2, <1>5, <1>6, <2>2 DEF SameRead
  <2> QED
    BY <1>1, <2>1, <2>2
<1> QED
  BY <1>7 DEF t

\* The FIN of close().
LEMMA QueueFinRead ==
    ASSUME NEW s \in Tsk
    PROVE  SameRead(s, tcp_queue_fin(s))
<1> DEFINE skb == [seq |-> 0, end_seq |-> 0, dlen |-> 0, data |-> 0, syn |-> FALSE,
                   fin |-> TRUE]
<1>1. skb \in WriteSkb
  BY DEF WriteSkb
<1>2. tcp_queue_fin(s) = tcp_queue_transmit_skb(s, skb)
  BY DEF tcp_queue_fin
<1> HIDE DEF skb
<1> QED
  BY <1>1, <1>2, QueueRead

\* The payload of a write().
LEMMA SendRead ==
    ASSUME NEW s \in Tsk, NEW pos \in Nat, NEW len \in Nat \ {0}
    PROVE  SameRead(s, tcp_send(s, pos, len))
<1> DEFINE n == (len + SMSS - 1) \div SMSS
           Skb(i) == [seq |-> 0, end_seq |-> 0,
                      dlen |-> MinOf(SMSS, len - (i - 1) * SMSS),
                      data |-> pos + (i - 1) * SMSS,
                      syn |-> FALSE, fin |-> FALSE]
           x == Skb(1)
           first == tcp_queue_transmit_skb(s, x)
           u == [i \in 1..(n - 1) |-> Skb(i + 1)]
           w == first.wq \o u
           b == [first EXCEPT !.wq = w]
           t == tcp_rearm_user_timeout(b)
<1>1. n \in Nat \ {0} /\ \A i \in 0..n-1 : i * SMSS \in Nat /\ i * SMSS < len
  BY Cutting
<1>2. tcp_send(s, pos, len) = t
  BY DEF tcp_send
<1> HIDE DEF n
<1>3. \A j \in 0..n-1 : MinOf(SMSS, len - j * SMSS) \in Nat /\ pos + j * SMSS \in Nat
  <2> SUFFICES ASSUME NEW j \in 0..n-1
               PROVE MinOf(SMSS, len - j * SMSS) \in Nat /\ pos + j * SMSS \in Nat
    OBVIOUS
  <2> DEFINE d == j * SMSS
  <2>1. d \in Nat /\ d < len /\ SMSS \in Nat
    BY <1>1, TcpConstants
  <2> HIDE DEF d
  <2>2. MinOf(SMSS, len - d) \in Nat /\ pos + d \in Nat
    BY <2>1 DEF MinOf
  <2> QED
    BY <2>2 DEF d
<1>4. \A i \in 1..n : Skb(i) \in WriteSkb
  <2> SUFFICES ASSUME NEW i \in 1..n PROVE Skb(i) \in WriteSkb
    OBVIOUS
  <2> DEFINE l == MinOf(SMSS, len - (i - 1) * SMSS)
             m == pos + (i - 1) * SMSS
  <2>1. i - 1 \in 0..n-1
    BY <1>1
  <2>2. l \in Nat /\ m \in Nat
    BY <1>3, <2>1
  <2>3. Skb(i) = [seq |-> 0, end_seq |-> 0, dlen |-> l, data |-> m,
                  syn |-> FALSE, fin |-> FALSE]
    OBVIOUS
  <2> HIDE DEF l, m, Skb
  <2> QED
    BY <2>2, <2>3 DEF WriteSkb
<1> HIDE DEF Skb
<1>5. x \in WriteSkb
  BY <1>1, <1>4
<1> HIDE DEF x
<1>6. SameRead(s, first) /\ first \in Tsk
  BY <1>5, QueueRead DEF SameRead, Keeps
<1> HIDE DEF first
<1>7. w \in Seq(WriteSkb)
  <2>1. n - 1 \in Nat /\ \A i \in 1..(n - 1) : Skb(i + 1) \in WriteSkb
    BY <1>1, <1>4
  <2>2. u \in Seq(WriteSkb)
    BY <2>1
  <2>3. first.wq \in Seq(WriteSkb)
    BY <1>6, Fields
  <2> HIDE DEF u
  <2> QED
    BY <2>2, <2>3
<1> HIDE DEF w
<1>8. SameRead(first, b) /\ b \in Tsk
  <2>1. b \in Tsk
    BY <1>6, <1>7 DEF Tsk
  <2>2. /\ b.state = first.state /\ b.fin = first.fin /\ b.psh = first.psh
        /\ b.rcv_nxt = first.rcv_nxt /\ b.recv_wait = first.recv_wait
        /\ b.poll = first.poll /\ b.rq = first.rq /\ b.ofo = first.ofo
    BY <1>6 DEF Tsk
  <2> HIDE DEF b
  <2> QED
    BY <2>1, <2>2 DEF SameRead, Keeps
<1> HIDE DEF b
<1>9. SameRead(b, t)
  BY <1>8, TimersRead
<1> HIDE DEF t
<1> QED
  BY <1>2, <1>6, <1>8, <1>9, SameReadTransitive

\* One more buffer of the next flight.
LEMMA SendQueuedRead ==
    ASSUME NEW s \in Tsk, NEW i \in 1..Len(s.wq)
    PROVE  SameRead(s, SendQueued(s, i))
<1> DEFINE skb == s.wq[i]
           q == s.snd_nxt
           a == tcp_transmit_skb(s, skb, q)
           n == SeqAfter(skb, q)
           x == Numbered(skb, q)
           w == [a.wq EXCEPT ![i] = x]
           t == [a EXCEPT !.snd_nxt = n, !.wq = w]
<1>1. s.wq \in Seq(WriteSkb) /\ q \in Nat
  BY Fields
<1>2. skb \in WriteSkb
  BY <1>1
<1>3. SendQueued(s, i) = t
  BY DEF SendQueued
<1> HIDE DEF skb
<1>4. SameRead(s, a) /\ a \in Tsk /\ a.state = s.state
  BY <1>1, <1>2, TransmitRead, TransmitQueue DEF SameRead, Keeps
<1> HIDE DEF a, n, x, w
<1>5. /\ t.state = a.state /\ t.fin = a.fin /\ t.psh = a.psh /\ t.rcv_nxt = a.rcv_nxt
      /\ t.recv_wait = a.recv_wait /\ t.poll = a.poll /\ t.rq = a.rq /\ t.ofo = a.ofo
  BY <1>4 DEF Tsk
<1> HIDE DEF t
<1>6. t \in Tsk
  BY <1>3, SendQueuedKeeps
<1>7. SameRead(a, t)
  BY <1>5, <1>6 DEF SameRead, Keeps
<1> QED
  BY <1>3, <1>4, <1>7, SameReadTransitive

\* The next flight.
LEMMA SendNextRead ==
    ASSUME NEW s \in Tsk, NEW amount \in 1..3, amount <= Len(s.wq)
    PROVE  SameRead(s, tcp_send_next(s, amount))
<1> DEFINE a == SendQueued(s, 1)
           b == IF amount >= 2 THEN SendQueued(a, 2) ELSE a
           c == IF amount >= 3 THEN SendQueued(b, 3) ELSE b
<1>0. s.wq \in Seq(WriteSkb) /\ Len(s.wq) \in Nat
  BY DEF Tsk
<1>1. SameRead(s, a) /\ a \in Tsk /\ Len(a.wq) = Len(s.wq)
  <2>1. 1 \in 1..Len(s.wq)
    BY <1>0
  <2> QED
    BY <2>1, SendQueuedRead, SendQueuedKeeps
<1>2. tcp_send_next(s, amount) = c
  BY DEF tcp_send_next
<1> HIDE DEF a
<1>3. SameRead(s, b) /\ b \in Tsk /\ Len(b.wq) = Len(s.wq)
  <2>1. CASE amount >= 2
    <3>1. 2 \in 1..Len(a.wq) /\ b = SendQueued(a, 2)
      BY <1>0, <1>1, <2>1
    <3> HIDE DEF b
    <3>2. SameRead(a, b) /\ b \in Tsk /\ Len(b.wq) = Len(a.wq)
      BY <1>1, <3>1, SendQueuedRead, SendQueuedKeeps
    <3> QED
      BY <1>1, <3>2, SameReadTransitive
  <2>2. CASE ~(amount >= 2)
    BY <1>1, <2>2
  <2> QED
    BY <2>1, <2>2
<1> HIDE DEF b
<1>4. SameRead(s, c)
  <2>1. CASE amount >= 3
    <3>1. 3 \in 1..Len(b.wq) /\ c = SendQueued(b, 3)
      BY <1>0, <1>3, <2>1
    <3> HIDE DEF c
    <3>2. SameRead(b, c)
      BY <1>3, <3>1, SendQueuedRead
    <3> QED
      BY <1>3, <3>2, SameReadTransitive
  <2>2. CASE ~(amount >= 3)
    BY <1>3, <2>2
  <2> QED
    BY <2>1, <2>2
<1> QED
  BY <1>2, <1>4

----------------------------------------------------------------------------

\* The same again, field by field.
LEMMA FieldsRead ==
    ASSUME NEW s \in Tsk, NEW t \in Tsk, t.state = s.state,
           t.fin = s.fin, t.psh = s.psh, t.rcv_nxt = s.rcv_nxt,
           t.recv_wait = s.recv_wait, t.rq = s.rq, t.ofo = s.ofo,
           ("IN" \in t.poll) <=> ("IN" \in s.poll)
    PROVE  SameRead(s, t)
BY DEF SameRead, Keeps

\* The SYN of connect().
LEMMA ConnectRead ==
    ASSUME NEW s \in Tsk, s.state = "CLOSE", s.rcv_nxt = 0
    PROVE  SameRead(s, tcp_connect(s)) /\ tcp_connect(s) \in Tsk
<1> DEFINE i == ISS
           a == [s EXCEPT !.snd_una = i, !.snd_nxt = i, !.rcv_nxt = 0,
                          !.state = "SYN_SENT"]
           skb == [seq |-> 0, end_seq |-> 0, dlen |-> 0, data |-> 0,
                   syn |-> TRUE, fin |-> FALSE]
           b == tcp_queue_transmit_skb(a, skb)
           n == b.snd_nxt + 1
           t == [b EXCEPT !.snd_nxt = n]
<1>1. i \in Nat
  BY TcpConstants
<1>2. s.state = "CLOSE" /\ s.rcv_nxt = 0
  OBVIOUS
<1>3. tcp_connect(s) = t
  BY DEF tcp_connect
<1> HIDE DEF i
<1>4. /\ a \in Tsk /\ a.state = "SYN_SENT" /\ a.fin = s.fin /\ a.psh = s.psh
      /\ a.rcv_nxt = s.rcv_nxt /\ a.recv_wait = s.recv_wait /\ a.poll = s.poll
      /\ a.rq = s.rq /\ a.ofo = s.ofo
  <2>1. a \in Tsk
    BY <1>1 DEF Tsk, TcpStates
  <2>2. a.state = "SYN_SENT" /\ a.rcv_nxt = 0
    BY DEF Tsk
  <2>3. /\ a.fin = s.fin /\ a.psh = s.psh /\ a.recv_wait = s.recv_wait
        /\ a.poll = s.poll /\ a.rq = s.rq /\ a.ofo = s.ofo
    BY DEF Tsk
  <2> QED
    BY <1>2, <2>1, <2>2, <2>3
<1> HIDE DEF a
<1>5. SameRead(s, a)
  <2>1. s.state \in Before /\ s.state \notin Ended
    BY <1>2 DEF Before, Ended
  <2>2. a.state \notin Receiving /\ a.state \notin Ended /\ a.state \notin Passive
    BY <1>4 DEF Receiving, TextStates, Ended, Passive
  <2> QED
    BY <1>4, <2>1, <2>2 DEF SameRead, Keeps
<1>6. skb \in WriteSkb
  BY DEF WriteSkb
<1> HIDE DEF skb
<1>7. SameRead(a, b) /\ b \in Tsk
  BY <1>4, <1>6, QueueRead DEF SameRead, Keeps
<1> HIDE DEF b
<1>8. n \in Nat
  BY <1>7, Fields
<1> HIDE DEF n
<1>9. /\ t \in Tsk /\ t.state = b.state /\ t.fin = b.fin /\ t.psh = b.psh
      /\ t.rcv_nxt = b.rcv_nxt /\ t.recv_wait = b.recv_wait /\ t.poll = b.poll
      /\ t.rq = b.rq /\ t.ofo = b.ofo
  BY <1>7, <1>8 DEF Tsk
<1> HIDE DEF t
<1>10. SameRead(b, t)
  BY <1>7, <1>9, FieldsRead
<1> QED
  BY <1>3, <1>5, <1>7, <1>9, <1>10, SameReadTransitive

\* tcp_connect_rto.
LEMMA ConnectRtoRead ==
    ASSUME NEW s \in Tsk
    PROVE  SameRead(s, tcp_connect_rto(s))
<1> DEFINE a == tcp_release_rto_timer(s)
           p == a.poll \cup {"OUT", "ERR", "HUP"}
           b == [a EXCEPT !.err = "ETIMEDOUT", !.poll = p]
           c == tcp_transmit_skb(a, Head(a.wq), a.snd_una)
           k == c.backoff + 1
           d == [c EXCEPT !.backoff = k]
<1>1. SameRead(s, a) /\ a \in Tsk
  BY TimersRead DEF SameRead, Keeps
<1>2. tcp_connect_rto(s) =
        IF a.state # "SYN_SENT" THEN a
        ELSE IF a.backoff > TCP_CONN_RETRIES THEN tcp_done(b)
        ELSE IF a.wq = << >> THEN a
        ELSE tcp_rearm_rto_timer(d)
  BY DEF tcp_connect_rto
<1> HIDE DEF a
<1>3. SameRead(s, tcp_done(b))
  <2>1. p \in SUBSET PollEvents /\ (("IN" \in p) <=> ("IN" \in a.poll))
    BY <1>1, Fields DEF PollEvents
  <2> HIDE DEF p
  <2>2. /\ b \in Tsk /\ b.state = a.state /\ b.fin = a.fin /\ b.psh = a.psh
        /\ b.rcv_nxt = a.rcv_nxt /\ b.recv_wait = a.recv_wait /\ b.poll = p
        /\ b.rq = a.rq /\ b.ofo = a.ofo
    BY <1>1, <2>1 DEF Tsk, Errors
  <2> HIDE DEF b
  <2>3. SameRead(a, b)
    BY <1>1, <2>1, <2>2, FieldsRead
  <2> QED
    BY <1>1, <2>2, <2>3, DoneRead, SameReadTransitive
<1>4. ASSUME a.wq # << >> PROVE SameRead(s, tcp_rearm_rto_timer(d))
  <2>1. Head(a.wq) \in WriteSkb /\ a.snd_una \in Nat
    BY <1>1, <1>4, Fields
  <2>2. SameRead(a, c) /\ c \in Tsk
    BY <1>1, <2>1, TransmitRead DEF SameRead, Keeps
  <2> HIDE DEF c
  <2>3. k \in Nat
    BY <2>2, Fields
  <2> HIDE DEF k
  <2>4. /\ d \in Tsk /\ d.state = c.state /\ d.fin = c.fin /\ d.psh = c.psh
        /\ d.rcv_nxt = c.rcv_nxt /\ d.recv_wait = c.recv_wait /\ d.poll = c.poll
        /\ d.rq = c.rq /\ d.ofo = c.ofo
    BY <2>2, <2>3 DEF Tsk
  <2> HIDE DEF d
  <2>5. SameRead(c, d)
    BY <2>2, <2>4, FieldsRead
  <2> QED
    BY <1>1, <2>2, <2>4, <2>5, RearmRead, SameReadTransitive
<1> HIDE DEF b, d
<1> QED
  BY <1>1, <1>2, <1>3, <1>4

\* tcp_retransmission_timeout.
LEMMA RetransmissionRead ==
    ASSUME NEW s \in Tsk
    PROVE  SameRead(s, tcp_retransmission_timeout(s))
<1> DEFINE a == tcp_release_rto_timer(s)
           b == [a EXCEPT !.backoff = 0]
           c == tcp_transmit_skb(a, Head(a.wq), a.snd_una)
           d == tcp_done(c)
           e == [d EXCEPT !.err = "ETIMEDOUT", !.poll = d.poll \cup {"OUT", "ERR", "HUP"}]
           f == [c EXCEPT !.rto = 2 * c.rto, !.backoff = c.backoff + 1,
                          !.retransmit = timer_add("rto")]
<1>1. SameRead(s, a) /\ a \in Tsk
  BY TimersRead DEF SameRead, Keeps
<1>2. tcp_retransmission_timeout(s) =
        IF a.wq = << >> THEN tcp_notify_user(b)
        ELSE IF a.rto > RTO_MAX THEN e
        ELSE IF Head(a.wq).fin THEN tcp_handle_fin_state(f)
        ELSE f
  BY DEF tcp_retransmission_timeout
<1> HIDE DEF a
<1>3. SameRead(s, tcp_notify_user(b))
  <2>1. /\ b \in Tsk /\ b.state = a.state /\ b.fin = a.fin /\ b.psh = a.psh
        /\ b.rcv_nxt = a.rcv_nxt /\ b.recv_wait = a.recv_wait /\ b.poll = a.poll
        /\ b.rq = a.rq /\ b.ofo = a.ofo
    BY <1>1 DEF Tsk
  <2> HIDE DEF b
  <2>2. SameRead(a, b)
    BY <1>1, <2>1, FieldsRead
  <2> QED
    BY <1>1, <2>1, <2>2, LightRead, SameReadTransitive
<1>4. ASSUME a.wq # << >>
      PROVE  SameRead(s, e) /\ SameRead(s, f) /\ f \in Tsk
  <2>1. Head(a.wq) \in WriteSkb /\ a.snd_una \in Nat
    BY <1>1, <1>4, Fields
  <2>2. SameRead(a, c) /\ c \in Tsk
    BY <1>1, <2>1, TransmitRead DEF SameRead, Keeps
  <2> HIDE DEF c
  <2>3. SameRead(c, d) /\ d \in Tsk
    BY <2>2, DoneRead
  <2> HIDE DEF d
  <2>4. SameRead(d, e)
    <3> DEFINE p == d.poll \cup {"OUT", "ERR", "HUP"}
    <3>1. p \in SUBSET PollEvents /\ (("IN" \in p) <=> ("IN" \in d.poll))
      BY <2>3, Fields DEF PollEvents
    <3> HIDE DEF p
    <3>2. e = [d EXCEPT !.err = "ETIMEDOUT", !.poll = p]
      BY DEF p
    <3> HIDE DEF e
    <3>3. /\ e \in Tsk /\ e.state = d.state /\ e.fin = d.fin /\ e.psh = d.psh
          /\ e.rcv_nxt = d.rcv_nxt /\ e.recv_wait = d.recv_wait /\ e.poll = p
          /\ e.rq = d.rq /\ e.ofo = d.ofo
      BY <2>3, <3>1, <3>2 DEF Tsk, Errors
    <3> QED
      BY <2>3, <3>1, <3>3, FieldsRead
  <2>5. SameRead(c, f) /\ f \in Tsk
    <3> DEFINE r == 2 * c.rto
               k == c.backoff + 1
               g == timer_add("rto")
    <3>1. r \in Nat /\ k \in Nat /\ g \in TimerSlot
      BY <2>2, Fields, SlotTyping DEF TimerKinds
    <3> HIDE DEF r, k, g
    <3>2. f = [c EXCEPT !.rto = r, !.backoff = k, !.retransmit = g]
      BY DEF r, k, g
    <3> HIDE DEF f
    <3>3. /\ f \in Tsk /\ f.state = c.state /\ f.fin = c.fin /\ f.psh = c.psh
          /\ f.rcv_nxt = c.rcv_nxt /\ f.recv_wait = c.recv_wait /\ f.poll = c.poll
          /\ f.rq = c.rq /\ f.ofo = c.ofo
      BY <2>2, <3>1, <3>2 DEF Tsk
    <3> QED
      BY <2>2, <3>3, FieldsRead
  <2> HIDE DEF e, f
  <2> QED
    BY <1>1, <2>2, <2>3, <2>4, <2>5, SameReadTransitive
<1> HIDE DEF e, f, b
<1>5. ASSUME a.wq # << >> PROVE SameRead(s, tcp_handle_fin_state(f))
  BY <1>4, <1>5, LightRead, SameReadTransitive
<1> QED
  BY <1>2, <1>3, <1>4, <1>5

\* tcp_send_delack.
LEMMA SendDelackRead ==
    ASSUME NEW s \in Tsk
    PROVE  SameRead(s, tcp_send_delack(s))
<1> DEFINE a == [s EXCEPT !.delacks = 0]
           b == tcp_release_delack_timer(a)
<1>1. /\ a \in Tsk /\ a.state = s.state /\ a.fin = s.fin /\ a.psh = s.psh
      /\ a.rcv_nxt = s.rcv_nxt /\ a.recv_wait = s.recv_wait /\ a.poll = s.poll
      /\ a.rq = s.rq /\ a.ofo = s.ofo
  BY DEF Tsk
<1>2. tcp_send_delack(s) = tcp_send_ack(b)
  BY DEF tcp_send_delack
<1> HIDE DEF a
<1>3. SameRead(s, a)
  BY <1>1, FieldsRead
<1>4. SameRead(a, b) /\ b \in Tsk
  BY <1>1, TimersRead DEF SameRead, Keeps
<1> HIDE DEF b
<1> QED
  BY <1>2, <1>3, <1>4, LightRead, SameReadTransitive

\* Taking what was acknowledged off the write queue, the ACK of a segment.
LEMMA CleanRead ==
    ASSUME NEW s \in Tsk, NEW una \in Nat
    PROVE  SameRead(s, tcp_clean_rto_queue(s, una))
<1> DEFINE n == Leading(Len(s.wq), {j \in 1..Len(s.wq) :
                           s.wq[j].seq > 0 /\ s.wq[j].end_seq <= una})
           w == SubSeq(s.wq, n + 1, Len(s.wq))
           k == IF s.inflight > n THEN s.inflight - n ELSE 0
           a == [s EXCEPT !.wq = w, !.inflight = k]
           b == tcp_stop_rto_timer(a)
           t == tcp_clean_rto_queue(s, una)
<1>1. t = b \/ t = a
  BY DEF tcp_clean_rto_queue
<1> HIDE DEF w, k
<1>2. /\ a.fin = s.fin /\ a.psh = s.psh /\ a.rcv_nxt = s.rcv_nxt
      /\ a.recv_wait = s.recv_wait /\ a.poll = s.poll /\ a.retransmit = s.retransmit
      /\ DOMAIN a = DOMAIN s
  BY DEF Tsk
<1> HIDE DEF a
<1>3. /\ b.fin = a.fin /\ b.psh = a.psh /\ b.rcv_nxt = a.rcv_nxt
      /\ b.recv_wait = a.recv_wait /\ b.poll = a.poll
  BY <1>2 DEF tcp_stop_rto_timer, Tsk
<1> HIDE DEF b
<1>4. Keeps(s, t) /\ t.state = s.state
  BY CleanKeeps
<1> HIDE DEF t
<1>5. SameRead(s, t)
  BY <1>1, <1>2, <1>3, <1>4 DEF SameRead
<1> QED
  BY <1>5 DEF t

\* The ACK of a segment.
LEMMA ProcessAckRead ==
    ASSUME NEW s \in Tsk, NEW th \in InSegment, NEW r \in Nat
    PROVE  SameRead(s, ProcessAck(s, th, r))
<1> DEFINE a == IF s.state = "SYN_RECEIVED"
                THEN [s EXCEPT !.state = "ESTABLISHED"] ELSE s
           u == th.ack_seq
           b == [a EXCEPT !.snd_una = u]
           c == tcp_rtt(b, r)
           d == tcp_clean_rto_queue(c, u)
<1>1. u \in Nat
  BY DEF InSegment
<1>2. ProcessAck(s, th, r) = a \/ ProcessAck(s, th, r) = d
  BY DEF ProcessAck
<1> HIDE DEF u
<1>3. SameRead(s, a) /\ a \in Tsk
  <2>1. CASE s.state = "SYN_RECEIVED"
    <3> DEFINE e == [s EXCEPT !.state = "ESTABLISHED"]
    <3>1. /\ e \in Tsk /\ e.state = "ESTABLISHED" /\ e.fin = s.fin /\ e.psh = s.psh
          /\ e.rcv_nxt = s.rcv_nxt /\ e.recv_wait = s.recv_wait /\ e.poll = s.poll
          /\ e.rq = s.rq /\ e.ofo = s.ofo
      BY DEF Tsk, TcpStates
    <3>2. a = e
      BY <2>1
    <3> HIDE DEF e, a
    <3>3. SameRead(s, e)
      BY <2>1, <3>1 DEF SameRead, Keeps, Before, Receiving, TextStates, Ended, Passive
    <3> QED
      BY <3>1, <3>2, <3>3
  <2>2. CASE s.state # "SYN_RECEIVED"
    BY <2>2, LightRead
  <2> QED
    BY <2>1, <2>2
<1> HIDE DEF a
<1>4. SameRead(a, b) /\ b \in Tsk
  <2>1. /\ b \in Tsk /\ b.state = a.state /\ b.fin = a.fin /\ b.psh = a.psh
        /\ b.rcv_nxt = a.rcv_nxt /\ b.recv_wait = a.recv_wait /\ b.poll = a.poll
        /\ b.rq = a.rq /\ b.ofo = a.ofo
    BY <1>1, <1>3 DEF Tsk
  <2> HIDE DEF b
  <2> QED
    BY <1>3, <2>1, FieldsRead
<1> HIDE DEF b
<1>5. SameRead(b, c) /\ c \in Tsk
  <2>1. SameRead(b, c)
    BY <1>4, LightRead
  <2> HIDE DEF c
  <2> QED
    BY <2>1 DEF SameRead, Keeps
<1> HIDE DEF c
<1>6. SameRead(c, d)
  BY <1>1, <1>5, CleanRead
<1> HIDE DEF d
<1> QED
  BY <1>2, <1>3, <1>4, <1>5, <1>6, SameReadTransitive

\* What is sent in answer to a segment.
LEMMA SendMoreRead ==
    ASSUME NEW s \in Tsk, NEW th \in InSegment, NEW expected \in BOOLEAN
    PROVE  SameRead(s, SendMoreOrAck(s, th, expected))
<1> DEFINE a == tcp_stop_delack_timer(s)
           pending == MinOf(Len(a.wq), 3)
           big == th.dlen > DELACK_LEN
           n == a.delacks + 1
           b == [a EXCEPT !.delacks = n]
           c == IF big /\ ~th.psh THEN b ELSE a
           d == tcp_send_next(a, pending)
           k == d.inflight + pending
           e == [d EXCEPT !.inflight = k]
           f == [c EXCEPT !.delacks = 0]
           g == [c EXCEPT !.delack = timer_add("delack")]
<1>1. \/ SendMoreOrAck(s, th, expected) = s
      \/ pending > 0 /\ SendMoreOrAck(s, th, expected) = tcp_rearm_rto_timer(e)
      \/ SendMoreOrAck(s, th, expected) = tcp_send_ack(f)
      \/ SendMoreOrAck(s, th, expected) = g
      \/ SendMoreOrAck(s, th, expected) = c
  BY DEF SendMoreOrAck
<1>2. SameRead(s, a) /\ a \in Tsk
  BY TimersRead DEF SameRead, Keeps
<1> HIDE DEF a
<1>3. pending \in 0..3 /\ pending <= Len(a.wq)
  <2> DEFINE l == Len(a.wq)
  <2>1. l \in Nat
    BY <1>2, Fields
  <2>2. pending = IF l <= 3 THEN l ELSE 3
    BY DEF MinOf
  <2> HIDE DEF l, pending
  <2>3. pending \in 0..3 /\ pending <= l
    BY <2>1, <2>2
  <2> QED
    BY <2>3 DEF l
<1>4. n \in Nat
  BY <1>2, Fields
<1> HIDE DEF pending, big, n
<1>5. SameRead(s, c) /\ c \in Tsk
  <2>1. /\ b \in Tsk /\ b.state = a.state /\ b.fin = a.fin /\ b.psh = a.psh
        /\ b.rcv_nxt = a.rcv_nxt /\ b.recv_wait = a.recv_wait /\ b.poll = a.poll
        /\ b.rq = a.rq /\ b.ofo = a.ofo
    BY <1>2, <1>4 DEF Tsk
  <2> HIDE DEF b
  <2>2. SameRead(s, b)
    BY <1>2, <2>1, FieldsRead, SameReadTransitive
  <2> QED
    BY <1>2, <2>1, <2>2
<1> HIDE DEF c
<1>6. ASSUME pending > 0 PROVE SameRead(s, tcp_rearm_rto_timer(e))
  <2>1. pending \in 1..3
    BY <1>3, <1>6
  <2>2. SameRead(a, d) /\ d \in Tsk
    BY <1>2, <1>3, <2>1, SendNextRead DEF SameRead, Keeps
  <2> HIDE DEF d
  <2>3. k \in Nat
    <3>1. d.inflight \in Nat
      BY <2>2, Fields
    <3> QED
      BY <2>1, <3>1
  <2> HIDE DEF k
  <2>4. /\ e \in Tsk /\ e.state = d.state /\ e.fin = d.fin /\ e.psh = d.psh
        /\ e.rcv_nxt = d.rcv_nxt /\ e.recv_wait = d.recv_wait /\ e.poll = d.poll
        /\ e.rq = d.rq /\ e.ofo = d.ofo
    BY <2>2, <2>3 DEF Tsk
  <2> HIDE DEF e
  <2>5. SameRead(d, e)
    BY <2>2, <2>4, FieldsRead
  <2> QED
    BY <1>2, <2>2, <2>4, <2>5, RearmRead, SameReadTransitive
<1>7. SameRead(s, tcp_send_ack(f))
  <2>1. /\ f \in Tsk /\ f.state = c.state /\ f.fin = c.fin /\ f.psh = c.psh
        /\ f.rcv_nxt = c.rcv_nxt /\ f.recv_wait = c.recv_wait /\ f.poll = c.poll
        /\ f.rq = c.rq /\ f.ofo = c.ofo
    BY <1>5 DEF Tsk
  <2> HIDE DEF f
  <2>2. SameRead(c, f)
    BY <1>5, <2>1, FieldsRead
  <2> QED
    BY <1>5, <2>1, <2>2, LightRead, SameReadTransitive
<1>8. SameRead(s, g)
  <2>1. timer_add("delack") \in TimerSlot
    BY SlotTyping DEF TimerKinds
  <2>2. /\ g \in Tsk /\ g.state = c.state /\ g.fin = c.fin /\ g.psh = c.psh
        /\ g.rcv_nxt = c.rcv_nxt /\ g.recv_wait = c.recv_wait /\ g.poll = c.poll
        /\ g.rq = c.rq /\ g.ofo = c.ofo
    BY <1>5, <2>1 DEF Tsk
  <2> HIDE DEF g
  <2> QED
    BY <1>5, <2>2, FieldsRead, SameReadTransitive
<1> HIDE DEF e, f, g
<1> QED
  BY <1>1, <1>5, <1>6, <1>7, <1>8, LightRead

----------------------------------------------------------------------------

\* The peer's FIN has been counted.
AtEnd(s) == s.rcv_nxt = IRS + PeerBytes + 2

\* The out-of-order queue holds bytes of the peer's stream, none of its end.
WithinStream(q) ==
    \A j \in 1..Len(q) : q[j].dlen > 0 /\ q[j].data + q[j].dlen <= PeerBytes + 1

\* What the reader finds on socket s when it is at pc.  While the connection has
\* not ended, readable means data or the peer's FIN, but for a reader that has
\* just emptied the queue; a sleeping reader has nothing to read.
ReadOK(s, pc) ==
    /\ s.rq # << >> => "IN" \in s.poll
    /\ WithinStream(s.ofo)
    /\ s.state \in Before => s.rq = << >> /\ "IN" \notin s.poll
    /\ s.state \in Before \cup Receiving => ~s.fin
    /\ s.state \in Passive => AtEnd(s)
    /\ s.state \notin Ended /\ "IN" \in s.poll =>
          s.rq # << >> \/ pc = "copy" \/ AtEnd(s)
    /\ pc = "reading" /\ s.recv_wait = "asleep" =>
          s.rq = << >> /\ (s.state \notin Ended => ~s.fin)

\* The payload and the FIN of a segment of the peer lie within its stream.
SegmentWithin(th) ==
    /\ th.psh \/ th.dlen > 0 => th.dlen > 0 /\ th.data + th.dlen <= PeerBytes + 1
    /\ th.fin => th.seq + th.dlen = IRS + 1 + PeerBytes

\* Nothing that SameRead allows disturbs ReadOK.
LEMMA SameReadOK ==
    ASSUME NEW s, NEW t, NEW pc, SameRead(s, t), ReadOK(s, pc)
    PROVE  ReadOK(t, pc)
<1>1. WithinStream(t.ofo)
  BY DEF SameRead, Keeps, ReadOK, WithinStream
<1>2. /\ t.rq = s.rq /\ t.fin = s.fin /\ t.rcv_nxt = s.rcv_nxt
      /\ t.recv_wait = s.recv_wait
      /\ ("IN" \in t.poll) <=> ("IN" \in s.poll)
      /\ t.state \notin Ended => s.state \notin Ended
      /\ t.state \in Passive => s.state \in Passive
      /\ t.state \in Before => s.state \in Before
      /\ t.state \in Receiving => s.state \in Receiving
  BY DEF SameRead, Keeps
<1>3. t.state \in Before \cup Receiving => ~t.fin
  BY <1>2 DEF ReadOK
<1>4. AtEnd(t) <=> AtEnd(s)
  BY <1>2 DEF AtEnd
<1> QED
  BY <1>1, <1>2, <1>3, <1>4 DEF ReadOK

\* Neither does the application's going from one call to another.
LEMMA OtherCall ==
    ASSUME NEW s, NEW pc, NEW to, ReadOK(s, pc), pc # "copy", to # "reading"
    PROVE  ReadOK(s, to)
BY DEF ReadOK

\* Every segment of the peer stays within its stream.
LEMMA InFlightWithin ==
    ASSUME NEW th \in InFlight
    PROVE  SegmentWithin(th)
<1>1. IRS \in Nat /\ PeerBytes \in Nat
  BY TcpConstants, TcpRunConstants
<1>2. CASE th \in Handshake
  <2>1. th.psh = FALSE /\ th.dlen = 0 /\ th.fin = FALSE
    BY <1>2 DEF Handshake, NoFlags
  <2> QED
    BY <2>1 DEF SegmentWithin
<1>3. CASE th \in Resets
  <2>1. th.psh = FALSE /\ th.dlen = 0 /\ th.fin = FALSE
    BY <1>3 DEF Resets, NoFlags
  <2> QED
    BY <2>1 DEF SegmentWithin
<1>4. ASSUME NEW p \in peer.hist, th \in PeerData(p) PROVE SegmentWithin(th)
  <2>1. PICK x \in (0..PeerBytes) \X (0..PeerBytes) \X BOOLEAN :
           /\ x[1] < x[2]
           /\ th = [NoFlags EXCEPT !.seq = IRS + 1 + x[1], !.data = x[1] + 1,
                     !.dlen = x[2] - x[1], !.ack = TRUE, !.ack_seq = p.ack,
                     !.psh = x[3]]
    BY <1>4 DEF PeerData
  <2>2. x[1] \in Nat /\ x[2] \in Nat /\ x[2] <= PeerBytes
    BY <1>1
  <2>3. th.dlen = x[2] - x[1] /\ th.data = x[1] + 1 /\ th.fin = FALSE
    BY <2>1 DEF NoFlags
  <2> QED
    BY <1>1, <2>1, <2>2, <2>3 DEF SegmentWithin
<1>5. ASSUME NEW p \in peer.hist, th \in PeerFin(p) PROVE SegmentWithin(th)
  <2>1. PICK lo \in 0..PeerBytes :
           th = [NoFlags EXCEPT !.seq = IRS + 1 + lo, !.data = lo + 1,
                     !.dlen = PeerBytes - lo, !.ack = TRUE, !.ack_seq = p.ack,
                     !.fin = TRUE]
    BY <1>5 DEF PeerFin
  <2>2. lo \in Nat /\ lo <= PeerBytes
    BY <1>1
  <2>3. /\ th.seq = IRS + 1 + lo /\ th.data = lo + 1 /\ th.dlen = PeerBytes - lo
        /\ th.psh = FALSE
    BY <2>1 DEF NoFlags
  <2> QED
    BY <1>1, <2>2, <2>3 DEF SegmentWithin
<1>6. ASSUME NEW p \in peer.hist, th \in PeerAck(p) PROVE SegmentWithin(th)
  <2>1. th.psh = FALSE /\ th.dlen = 0 /\ th.fin = FALSE
    BY <1>6 DEF PeerAck, NoFlags
  <2> QED
    BY <2>1 DEF SegmentWithin
<1> QED
  BY <1>2, <1>3, <1>4, <1>5, <1>6 DEF InFlight

\* A woken reader sleeps no more.
LEMMA NotifiedRead ==
    ASSUME NEW s \in Tsk
    PROVE  /\ tcp_recv_notify(s) \in Tsk /\ tcp_recv_notify(s).recv_wait # "asleep"
           /\ tcp_recv_notify(s).state = s.state
           /\ tcp_recv_notify(s).rq = s.rq /\ tcp_recv_notify(s).ofo = s.ofo
           /\ tcp_recv_notify(s).rcv_nxt = s.rcv_nxt
           /\ tcp_recv_notify(s).fin = s.fin /\ tcp_recv_notify(s).poll = s.poll
<1> DEFINE w == wait_wakeup(s.recv_wait)
           t == [s EXCEPT !.recv_wait = w]
<1>1. tcp_recv_notify(s) = t
  BY DEF tcp_recv_notify
<1>2. w \in WaitStates /\ w # "asleep"
  BY Fields DEF wait_wakeup, WaitStates
<1> HIDE DEF w
<1>3. /\ t \in Tsk /\ t.recv_wait = w /\ t.state = s.state /\ t.rq = s.rq
      /\ t.ofo = s.ofo /\ t.rcv_nxt = s.rcv_nxt /\ t.fin = s.fin /\ t.poll = s.poll
  BY <1>2 DEF Tsk
<1> HIDE DEF t
<1> QED
  BY <1>1, <1>2, <1>3

\* The closing handshake on an empty write queue; in TIME_WAIT it marks the end
\* of the stream again.
LEMMA QueueEmptiedRead ==
    ASSUME NEW s \in Tsk, NEW th \in InSegment, NEW pc, ReadOK(s, pc)
    PROVE  ReadOK(QueueEmptied(s, th), pc)
<1> DEFINE a == [s EXCEPT !.state = "FIN_WAIT_2"]
           b == [s EXCEPT !.state = "TIME_WAIT"]
           c == [s EXCEPT !.fin = TRUE]
           d == tcp_send_ack(c)
<1>1. \/ QueueEmptied(s, th) = s
      \/ QueueEmptied(s, th) = a /\ s.state = "FIN_WAIT_1"
      \/ QueueEmptied(s, th) = b /\ s.state = "CLOSING"
      \/ QueueEmptied(s, th) = d /\ s.state = "TIME_WAIT"
  BY DEF QueueEmptied
<1>2. ASSUME s.state = "FIN_WAIT_1" PROVE ReadOK(a, pc)
  <2>1. /\ a \in Tsk /\ a.state = "FIN_WAIT_2" /\ a.fin = s.fin /\ a.psh = s.psh
        /\ a.rcv_nxt = s.rcv_nxt /\ a.recv_wait = s.recv_wait /\ a.poll = s.poll
        /\ a.rq = s.rq /\ a.ofo = s.ofo
    BY DEF Tsk, TcpStates
  <2> HIDE DEF a
  <2>2. /\ a.state \notin Before /\ s.state \in Receiving /\ s.state \notin Ended
        /\ a.state \notin Passive
    BY <1>2, <2>1 DEF Before, Receiving, TextStates, Ended, Passive
  <2>3. SameRead(s, a)
    BY <2>1, <2>2 DEF SameRead, Keeps
  <2> QED
    BY <2>3, SameReadOK
<1>3. ASSUME s.state = "CLOSING" PROVE ReadOK(b, pc)
  <2>1. /\ b \in Tsk /\ b.state = "TIME_WAIT" /\ b.fin = s.fin /\ b.psh = s.psh
        /\ b.rcv_nxt = s.rcv_nxt /\ b.recv_wait = s.recv_wait /\ b.poll = s.poll
        /\ b.rq = s.rq /\ b.ofo = s.ofo
    BY DEF Tsk, TcpStates
  <2> HIDE DEF b
  <2>2. /\ b.state \notin Before /\ b.state \notin Receiving /\ b.state \in Ended
        /\ b.state \notin Passive
    BY <2>1 DEF Before, Receiving, TextStates, Ended, Passive
  <2>3. SameRead(s, b)
    BY <2>1, <2>2 DEF SameRead, Keeps
  <2> QED
    BY <2>3, SameReadOK
<1>4. ASSUME s.state = "TIME_WAIT" PROVE ReadOK(d, pc)
  <2>1. /\ c \in Tsk /\ c.state = s.state /\ c.fin = TRUE
        /\ c.rcv_nxt = s.rcv_nxt /\ c.recv_wait = s.recv_wait /\ c.poll = s.poll
        /\ c.rq = s.rq /\ c.ofo = s.ofo
    BY DEF Tsk
  <2> HIDE DEF c
  <2>2. c.state \notin Before \cup Receiving \cup Passive /\ c.state \in Ended
    BY <1>4, <2>1 DEF Before, Receiving, TextStates, Ended, Passive
  <2>3. ReadOK(c, pc)
    BY <2>1, <2>2 DEF ReadOK
  <2>4. SameRead(c, d)
    BY <2>1, LightRead
  <2> QED
    BY <2>3, <2>4, SameReadOK
<1> HIDE DEF a, b, d
<1> QED
  BY <1>1, <1>2, <1>3, <1>4

\* In-sequence data are there to be read, and wake the reader; other data leave
\* the reader as it was.
LEMMA DataQueueRead ==
    ASSUME NEW s \in Tsk, NEW th \in InSegment
    PROVE  LET t == tcp_data_queue(s, th) IN
           /\ t.fin = s.fin
           /\ th.seq = s.rcv_nxt =>
                 t.rq # << >> /\ "IN" \in t.poll /\ t.recv_wait # "asleep"
           /\ th.seq # s.rcv_nxt => t.poll = s.poll /\ t.recv_wait = s.recv_wait
<1> DEFINE skb == Received(th)
           m == s.rcv_nxt + th.dlen
           q == Append(s.rq, skb)
           a == [s EXCEPT !.rcv_nxt = m, !.rq = q]
           b == tcp_consume_ofo_queue(a)
           p == b.poll \cup {"IN"}
           c == [b EXCEPT !.poll = p]
           o == tcp_data_insert_ordered(s.ofo, skb)
           d == [s EXCEPT !.ofo = o]
           t == tcp_data_queue(s, th)
<1>1. /\ s.rcv_nxt \in Nat /\ s.rq \in Seq(ReadSkb) /\ s.ofo \in Seq(ReadSkb)
      /\ th.dlen \in Nat
  BY Fields DEF InSegment
<1>2. skb \in ReadSkb
  BY DEF Received, ReadSkb, InSegment
<1>3. t = IF th.seq = s.rcv_nxt THEN tcp_recv_notify(c) ELSE tcp_send_ack(d)
  BY DEF tcp_data_queue, Received
<1> HIDE DEF skb, t
<1>4. m \in Nat /\ o \in Seq(ReadSkb)
  BY <1>1, <1>2, InsertOrdered
<1>5. q \in Seq(ReadSkb) /\ Len(q) = Len(s.rq) + 1 /\ Len(s.rq) \in Nat
  BY <1>1, <1>2
<1> HIDE DEF m, q, o
<1>6. a \in Tsk /\ a.rq = q /\ a.fin = s.fin /\ a.state = s.state
  BY <1>4, <1>5 DEF Tsk
<1> HIDE DEF a
<1>7. b \in Tsk /\ b.fin = s.fin /\ b.rq # << >>
  <2>1. b \in Tsk
    BY <1>6, ConsumeEffect
  <2>2. b.fin = a.fin
    <3>1. b = a \/ \E x, y, z : b = [a EXCEPT !.rcv_nxt = x, !.rq = y, !.ofo = z]
      BY DEF tcp_consume_ofo_queue
    <3> HIDE DEF b
    <3> QED
      BY <1>6, <3>1 DEF Tsk
  <2>3. b.rq # << >>
    <3> DEFINE n == Consumed(a)
               u == SubSeq(a.ofo, 1, n)
    <3>1. /\ n \in 0..Len(a.ofo)
          /\ n = 0 => b = a
          /\ n # 0 => b.rq = a.rq \o u
      BY <1>6, ConsumeEffect
    <3> DEFINE ahead == a.ofo
    <3>2. ahead \in Seq(ReadSkb) /\ Len(ahead) \in Nat
      BY <1>6, Fields
    <3> HIDE DEF n, b
    <3>3. u \in Seq(ReadSkb)
      <4>1. n \in 0..Len(ahead) /\ u = SubSeq(ahead, 1, n)
        BY <3>1
      <4> HIDE DEF ahead, u
      <4>2. \A i \in 1..n : ahead[i] \in ReadSkb
        BY <3>2, <4>1
      <4> QED
        BY <3>2, <4>1, <4>2, SubSeqProperties
    <3> HIDE DEF u
    <3>4. Len(a.rq \o u) = Len(a.rq) + Len(u) /\ Len(u) \in Nat
      BY <1>5, <1>6, <3>3
    <3>5. q # << >> /\ a.rq \o u # << >>
      BY <1>5, <1>6, <3>4
    <3> QED
      BY <1>6, <3>1, <3>5
  <2> QED
    BY <1>6, <2>1, <2>2, <2>3
<1> HIDE DEF b
<1>8. c \in Tsk /\ c.fin = s.fin /\ c.rq # << >> /\ "IN" \in c.poll
  <2>1. p \in SUBSET PollEvents /\ "IN" \in p
    BY <1>7, Fields DEF PollEvents
  <2> HIDE DEF p
  <2> QED
    BY <1>7, <2>1 DEF Tsk
<1> HIDE DEF c
<1>9. CASE th.seq = s.rcv_nxt
  <2>1. t = tcp_recv_notify(c)
    BY <1>3, <1>9
  <2>2. t.fin = s.fin /\ t.rq # << >> /\ "IN" \in t.poll /\ t.recv_wait # "asleep"
    BY <1>8, <2>1, NotifiedRead
  <2> QED
    BY <1>9, <2>2 DEF t
<1>10. CASE th.seq # s.rcv_nxt
  <2>1. d \in Tsk /\ d.fin = s.fin /\ d.poll = s.poll /\ d.recv_wait = s.recv_wait
    BY <1>4 DEF Tsk
  <2>2. t = tcp_send_ack(d)
    BY <1>3, <1>10
  <2> HIDE DEF d
  <2>3. t.fin = s.fin /\ t.poll = s.poll /\ t.recv_wait = s.recv_wait
    BY <2>1, <2>2 DEF tcp_send_ack, Tsk
  <2> QED
    BY <1>10, <2>3 DEF t
<1> QED
  BY <1>9, <1>10

\* The payload of a segment.
LEMMA TextRead ==
    ASSUME NEW s \in Tsk, NEW th \in InSegment, NEW pc, ReadOK(s, pc),
           SegmentWithin(th)
    PROVE  ReadOK(ProcessText(s, th), pc)
<1> DEFINE t == tcp_data_queue(s, th)
           skb == Received(th)
<1>1. CASE ~(s.state \in TextStates /\ (th.psh \/ th.dlen > 0))
  BY <1>1 DEF ProcessText
<1>2. CASE s.state \in TextStates /\ (th.psh \/ th.dlen > 0)
  <2>1. skb \in ReadSkb /\ skb.dlen > 0 /\ skb.data + skb.dlen <= PeerBytes + 1
    BY <1>2 DEF Received, ReadSkb, InSegment, SegmentWithin
  <2>2. s.rq \in Seq(ReadSkb) /\ s.ofo \in Seq(ReadSkb) /\ s.rcv_nxt \in Nat
    BY Fields
  <2>3. t \in Tsk /\ t.state = s.state /\ t.fin = s.fin
    BY DataQueueEffect, DataQueueRead
  <2>4. t.state \notin Before /\ t.state \notin Passive /\ t.state \notin Ended
    BY <1>2, <2>3 DEF TextStates, Before, Passive, Ended
  <2>5. ~s.fin
    BY <1>2 DEF ReadOK, Receiving
  <2>6. WithinStream(s.ofo)
    BY DEF ReadOK
  <2>7. CASE th.seq = s.rcv_nxt
    <3> DEFINE a == [s EXCEPT !.rcv_nxt = s.rcv_nxt + th.dlen,
                              !.rq = Append(s.rq, skb)]
               n == Consumed(a)
    <3>1. a \in Tsk /\ t.ofo = tcp_consume_ofo_queue(a).ofo
      BY <2>7, DataQueueEffect
    <3>2. a.ofo = s.ofo
      BY DEF Tsk
    <3>3. t.rq # << >> /\ "IN" \in t.poll /\ t.recv_wait # "asleep"
      BY <2>7, DataQueueRead
    <3> HIDE DEF a, t
    <3>4. /\ n \in 0..Len(a.ofo)
          /\ n = 0 => tcp_consume_ofo_queue(a) = a
          /\ n # 0 => tcp_consume_ofo_queue(a).ofo = SubSeq(a.ofo, n + 1, Len(a.ofo))
      BY <3>1, ConsumeEffect
    <3> HIDE DEF n
    <3>5. t.ofo = s.ofo \/ t.ofo = SubSeq(s.ofo, n + 1, Len(s.ofo))
      BY <3>1, <3>2, <3>4
    <3>6. WithinStream(SubSeq(s.ofo, n + 1, Len(s.ofo)))
      <4> DEFINE o == s.ofo
                 u == SubSeq(o, n + 1, Len(o))
      <4>1. o \in Seq(ReadSkb) /\ Len(o) \in Nat /\ n \in 0..Len(o)
        BY <2>2, <3>2, <3>4
      <4>2. \A j \in 1..Len(o) : o[j].dlen > 0 /\ o[j].data + o[j].dlen <= PeerBytes + 1
        BY <2>6 DEF WithinStream
      <4> HIDE DEF o
      <4>3. Len(u) = Len(o) - n /\ \A j \in 1..Len(u) : u[j] = o[n + j] /\ n + j \in 1..Len(o)
        <5>1. \A i \in (n + 1)..Len(o) : o[i] \in ReadSkb
          BY <4>1
        <5>2. Len(u) = Len(o) - n /\ \A j \in 1..(Len(o) - n) : u[j] = o[n + 1 + j - 1]
          BY <4>1, <5>1, SubSeqProperties
        <5> HIDE DEF u
        <5>3. \A j \in 1..(Len(o) - n) : n + 1 + j - 1 = n + j /\ n + j \in 1..Len(o)
          BY <4>1
        <5> QED
          BY <5>2, <5>3
      <4> HIDE DEF u
      <4>4. WithinStream(u)
        BY <4>2, <4>3 DEF WithinStream
      <4> QED
        BY <4>4 DEF u, o
    <3>7. WithinStream(t.ofo)
      BY <2>6, <3>5, <3>6
    <3>8. ReadOK(t, pc)
      BY <2>3, <2>4, <2>5, <3>3, <3>7 DEF ReadOK
    <3> QED
      BY <1>2, <3>8 DEF ProcessText, t
  <2>8. CASE th.seq # s.rcv_nxt
    <3>1. /\ t.rq = s.rq /\ t.rcv_nxt = s.rcv_nxt
          /\ t.ofo = tcp_data_insert_ordered(s.ofo, skb)
          /\ t.poll = s.poll /\ t.recv_wait = s.recv_wait
      BY <2>8, DataQueueEffect, DataQueueRead
    <3> HIDE DEF t
    <3>2. WithinStream(t.ofo)
      <4> DEFINE o == tcp_data_insert_ordered(s.ofo, skb)
      <4>1. \A j \in 1..Len(o) : o[j] = skb \/ \E i \in 1..Len(s.ofo) : o[j] = s.ofo[i]
        BY <2>1, <2>2, InsertOrdered
      <4> HIDE DEF o, skb
      <4>2. WithinStream(o)
        BY <2>1, <2>6, <4>1 DEF WithinStream
      <4> QED
        BY <3>1, <4>2 DEF o
    <3>3. AtEnd(t) <=> AtEnd(s)
      BY <3>1 DEF AtEnd
    <3>4. s.state \notin Ended
      BY <2>3, <2>4
    <3>5. ReadOK(t, pc)
      BY <2>3, <2>4, <2>5, <3>1, <3>2, <3>3, <3>4 DEF ReadOK
    <3> QED
      BY <1>2, <3>5 DEF ProcessText, t
  <2> QED
    BY <2>7, <2>8
<1> QED
  BY <1>1, <1>2

\* A FIN is accepted only where the peer's stream ends, and never twice.
LEMMA FinExpected ==
    ASSUME NEW s \in Tsk, NEW n \in Nat, NEW th \in InSegment, NEW pc,
           StreamOK(s, n), ReadOK(s, pc), SegmentOK(th), SegmentWithin(th),
           th.fin, th.seq = s.rcv_nxt
    PROVE  /\ s.state \notin Passive
           /\ s.state \in TextStates =>
                 ProcessText(s, th).rcv_nxt = IRS + 1 + PeerBytes
<1>1. /\ IRS \in Nat /\ PeerBytes \in Nat /\ s.rcv_nxt \in Nat
      /\ th.seq \in Nat /\ th.dlen \in Nat /\ th.data \in Nat
  BY Fields, TcpConstants, TcpRunConstants DEF InSegment
<1>2. th.seq + th.dlen = IRS + 1 + PeerBytes
  BY DEF SegmentWithin
<1>3. s.state \notin Passive
  <2>1. ASSUME s.state \in Passive PROVE FALSE
    <3>1. s.rcv_nxt = IRS + PeerBytes + 2
      BY <2>1 DEF ReadOK, AtEnd
    <3> QED
      BY <1>1, <1>2, <3>1
  <2> QED
    BY <2>1
<1>4. ASSUME s.state \in TextStates
      PROVE  ProcessText(s, th).rcv_nxt = IRS + 1 + PeerBytes
  <2>1. CASE ~(th.psh \/ th.dlen > 0)
    BY <1>1, <1>2, <2>1 DEF ProcessText
  <2>2. CASE th.psh \/ th.dlen > 0
    <3> DEFINE m == s.rcv_nxt + th.dlen
               a == [s EXCEPT !.rcv_nxt = m, !.rq = Append(s.rq, Received(th))]
               k == Consumed(a)
    <3>1. a \in Tsk /\ tcp_data_queue(s, th).rcv_nxt = tcp_consume_ofo_queue(a).rcv_nxt
      BY DataQueueEffect
    <3>2. a.ofo = s.ofo /\ a.rcv_nxt = m
      BY DEF Tsk
    <3>3. m = IRS + 1 + PeerBytes
      BY <1>2
    <3> HIDE DEF a, m
    <3>4. /\ k \in 0..Len(a.ofo)
          /\ k = 0 => tcp_consume_ofo_queue(a) = a
          /\ \A j \in 1..k : a.ofo[j].seq = IF j = 1 THEN a.rcv_nxt
                                            ELSE a.ofo[j-1].seq + a.ofo[j-1].dlen
      BY <3>1, ConsumeEffect
    <3> HIDE DEF k
    <3>5. k = 0
      <4> SUFFICES ASSUME k # 0 PROVE FALSE
        OBVIOUS
      <4> DEFINE o == s.ofo
                 b == o[1]
      <4>1. o \in Seq(ReadSkb) /\ Len(o) \in Nat
        BY Fields
      <4>2. 1 \in 1..k /\ 1 \in 1..Len(o)
        BY <3>2, <3>4, <4>1
      <4>3. b.seq = m
        BY <3>2, <3>4, <4>2
      <4>4. b.seq = IRS + b.data
        BY <4>2 DEF StreamOK, Placed
      <4>5. b.dlen > 0 /\ b.data + b.dlen <= PeerBytes + 1
        BY <4>2 DEF ReadOK, WithinStream
      <4>6. b.data \in Nat /\ b.dlen \in Nat
        <5>1. b \in ReadSkb
          BY <4>1, <4>2
        <5> QED
          BY <5>1 DEF ReadSkb
      <4> HIDE DEF b
      <4> QED
        BY <1>1, <3>3, <4>3, <4>4, <4>5, <4>6
    <3>6. tcp_data_queue(s, th).rcv_nxt = IRS + 1 + PeerBytes
      BY <3>1, <3>2, <3>3, <3>4, <3>5
    <3> QED
      BY <1>4, <2>2, <3>6 DEF ProcessText
  <2> QED
    BY <2>1, <2>2
<1> QED
  BY <1>3, <1>4

\* The FIN of the peer can be read, and wakes the reader.
LEMMA FinRead ==
    ASSUME NEW s \in Tsk, NEW th \in InSegment, NEW expected \in BOOLEAN, NEW pc,
           ReadOK(s, pc), s.state \in Synchronized,
           th.fin /\ expected =>
              /\ s.state \notin Passive
              /\ s.state \in TextStates => s.rcv_nxt = IRS + 1 + PeerBytes
    PROVE  ReadOK(ProcessFin(s, th, expected), pc)
<1> DEFINE n == s.rcv_nxt + 1
           p == s.poll \cup {"IN"}
           a == [s EXCEPT !.rcv_nxt = n, !.fin = TRUE, !.poll = p]
           b == tcp_send_ack(a)
           c == tcp_recv_notify(b)
           d == tcp_enter_time_wait(c)
           cw == [c EXCEPT !.state = "CLOSE_WAIT"]
           cl == [c EXCEPT !.state = "CLOSING"]
           t == ProcessFin(s, th, expected)
<1>1. n \in Nat /\ p \in SUBSET PollEvents /\ "IN" \in p /\ s.rcv_nxt \in Nat
  BY Fields DEF PollEvents
<1>2. CASE ~(th.fin /\ expected)
  BY <1>2 DEF ProcessFin
<1>3. CASE th.fin /\ expected
  <2>1. \/ t = cw /\ s.state = "ESTABLISHED"
        \/ t = cl /\ s.state = "FIN_WAIT_1"
        \/ t = d /\ s.state \in {"FIN_WAIT_1", "FIN_WAIT_2"}
        \/ t = c /\ s.state \notin TextStates
    BY <1>3 DEF ProcessFin, TextStates
  <2>2. /\ a \in Tsk /\ a.state = s.state /\ a.rcv_nxt = n /\ a.fin = TRUE
        /\ a.poll = p /\ a.rq = s.rq /\ a.ofo = s.ofo
    BY <1>1 DEF Tsk
  <2> HIDE DEF a, p, t
  <2>3. /\ b \in Tsk /\ b.state = s.state /\ b.rcv_nxt = n /\ b.fin = TRUE
        /\ "IN" \in b.poll /\ b.rq = s.rq /\ b.ofo = s.ofo
    BY <1>1, <2>2 DEF tcp_send_ack, Tsk
  <2> HIDE DEF b
  <2>4. /\ c \in Tsk /\ c.state = s.state /\ c.rcv_nxt = n /\ c.fin = TRUE
        /\ "IN" \in c.poll /\ c.rq = s.rq /\ c.ofo = s.ofo
        /\ c.recv_wait # "asleep"
    BY <2>3, NotifiedRead
  <2> HIDE DEF c
  <2>5. /\ cw.state = "CLOSE_WAIT" /\ cw.rcv_nxt = n /\ "IN" \in cw.poll
        /\ cw.ofo = s.ofo /\ cw.recv_wait # "asleep"
    BY <2>4 DEF Tsk
  <2>6. /\ cl.state = "CLOSING" /\ "IN" \in cl.poll
        /\ cl.ofo = s.ofo /\ cl.recv_wait # "asleep"
    BY <2>4 DEF Tsk
  <2> HIDE DEF cw, cl
  <2>7. /\ d.state = "TIME_WAIT" /\ "IN" \in d.poll
        /\ WithinStream(d.ofo) /\ d.recv_wait # "asleep"
    <3> DEFINE e == tcp_clear_timers(c)
               f == [e EXCEPT !.state = "TIME_WAIT", !.linger = timer_add("2msl")]
    <3>1. SameRead(c, d)
      BY <2>4, RearmRead
    <3>2. e \in Tsk
      BY <2>4, TimersRead DEF SameRead, Keeps
    <3>3. d = f
      BY DEF tcp_enter_time_wait
    <3> HIDE DEF e, d
    <3>4. d.state = "TIME_WAIT"
      BY <3>2, <3>3 DEF Tsk
    <3>5. d.ofo = s.ofo \/ d.ofo = << >>
      BY <2>4, <3>1 DEF SameRead, Keeps
    <3>6. WithinStream(d.ofo)
      BY <3>5 DEF ReadOK, WithinStream
    <3> QED
      BY <2>4, <3>1, <3>4, <3>6 DEF SameRead
  <2> HIDE DEF d
  <2>8. WithinStream(s.ofo)
    BY DEF ReadOK
  <2>9. ASSUME t = cw, s.state = "ESTABLISHED" PROVE ReadOK(t, pc)
    <3>1. s.rcv_nxt = IRS + 1 + PeerBytes
      BY <1>3, <2>9 DEF TextStates
    <3>2. IRS \in Nat /\ PeerBytes \in Nat
      BY TcpConstants, TcpRunConstants
    <3>3. t.rcv_nxt = IRS + PeerBytes + 2
      BY <1>1, <2>5, <2>9, <3>1, <3>2
    <3>4. t.state \notin Before \cup Receiving /\ t.state \notin Ended
      BY <2>5, <2>9 DEF Before, Receiving, TextStates, Ended
    <3> QED
      BY <2>5, <2>8, <2>9, <3>3, <3>4 DEF ReadOK, AtEnd
  <2>10. ASSUME t.state \in Ended, "IN" \in t.poll, WithinStream(t.ofo),
                t.recv_wait # "asleep"
         PROVE  ReadOK(t, pc)
    <3>1. t.state \notin Before \cup Receiving /\ t.state \notin Passive
      BY <2>10 DEF Before, Receiving, TextStates, Ended, Passive
    <3> QED
      BY <2>10, <3>1 DEF ReadOK
  <2>11. ASSUME t = c, s.state \notin TextStates PROVE c.state \in Ended
    <3>1. s.state \notin Passive
      BY <1>3
    <3> QED
      BY <2>4, <2>11, <3>1 DEF Synchronized, TcpStates, Before, Passive, Ended, TextStates
  <2>12. "CLOSING" \in Ended /\ "TIME_WAIT" \in Ended
    BY DEF Ended
  <2>13. ReadOK(t, pc)
    BY <2>1, <2>4, <2>6, <2>7, <2>8, <2>9, <2>10, <2>11, <2>12
  <2> QED
    BY <2>13 DEF t
<1> QED
  BY <1>2, <1>3

\* A reset after the handshake wakes the reader.
LEMMA ResetRead ==
    ASSUME NEW s \in Tsk, NEW pc, ReadOK(s, pc)
    PROVE  ReadOK(tcp_recv_notify(tcp_enter_time_wait(s)), pc)
<1> DEFINE a == tcp_enter_time_wait(s)
           t == tcp_recv_notify(a)
<1>1. SameRead(s, a) /\ a \in Tsk
  BY RearmRead DEF SameRead, Keeps
<1> HIDE DEF a
<1>2. ReadOK(a, pc)
  BY <1>1, SameReadOK
<1>3. /\ t.recv_wait # "asleep" /\ t.state = a.state /\ t.rq = a.rq /\ t.ofo = a.ofo
      /\ t.rcv_nxt = a.rcv_nxt /\ t.fin = a.fin /\ t.poll = a.poll
  BY <1>1, NotifiedRead
<1> HIDE DEF t
<1>4. ReadOK(t, pc)
  BY <1>2, <1>3 DEF ReadOK, AtEnd
<1> QED
  BY <1>4 DEF t, a

\* A segment in SYN_SENT: there is nothing to read before and after.
LEMMA SynsentRead ==
    ASSUME NEW s \in Tsk, NEW th \in InSegment, NEW pc, ReadOK(s, pc),
           s.state = "SYN_SENT"
    PROVE  ReadOK(tcp_synsent(s, th), pc)
<1> DEFINE m == th.seq + 1
           a == [s EXCEPT !.rcv_nxt = m]
           u == th.ack_seq
           a2 == [a EXCEPT !.snd_una = u]
           b == IF th.ack THEN tcp_clean_rto_queue(a2, u) ELSE a
           v == b.snd_nxt
           r == RTO_INIT
           c == [b EXCEPT !.state = "ESTABLISHED", !.snd_una = v,
                          !.backoff = 0, !.rto = r]
           c1 == tcp_send_ack(c)
           c2 == tcp_rearm_user_timeout(c1)
           d == sock_connected(c2)
           i == ISS
           e == [b EXCEPT !.state = "SYN_RECEIVED", !.snd_una = i]
           f == tcp_send_synack(e)
           x == "ECONNREFUSED"
           g == [s EXCEPT !.poll = {"OUT", "ERR", "HUP"}, !.err = x]
           Nothing(t) == /\ t.rq = << >> /\ WithinStream(t.ofo) /\ ~t.fin
                         /\ "IN" \notin t.poll
           Same(t, w) == /\ w.rq = t.rq /\ (w.ofo = t.ofo \/ w.ofo = << >>)
                         /\ w.fin = t.fin /\ (("IN" \in w.poll) <=> ("IN" \in t.poll))
<1>1. m \in Nat /\ u \in Nat /\ r \in Nat /\ i \in Nat
  BY TcpConstants DEF InSegment
<1>2. \/ tcp_synsent(s, th) = s
      \/ tcp_synsent(s, th) = tcp_done(g)
      \/ tcp_synsent(s, th) = d
      \/ tcp_synsent(s, th) = f
  BY DEF tcp_synsent, tcp_reset
<1> HIDE DEF m, u, r, i
<1>3. Nothing(s)
  BY DEF ReadOK, Before
<1>4. \A t, w : Nothing(t) /\ Same(t, w) => Nothing(w)
  BY DEF WithinStream
<1>5. \A t, w : SameRead(t, w) => Same(t, w)
  BY DEF SameRead, Keeps
<1>6. a \in Tsk /\ Same(s, a)
  BY <1>1 DEF Tsk
<1> HIDE DEF a
<1>7. a2 \in Tsk /\ Same(a, a2)
  BY <1>1, <1>6 DEF Tsk
<1> HIDE DEF a2
<1> HIDE DEF Nothing
<1>8. b \in Tsk /\ Nothing(b)
  <2> DEFINE z == tcp_clean_rto_queue(a2, u)
  <2>1. SameRead(a2, z)
    BY <1>1, <1>7, CleanRead
  <2>2. z \in Tsk /\ Same(a2, z)
    BY <1>5, <2>1 DEF SameRead, Keeps
  <2> HIDE DEF z, Same
  <2>3. Nothing(a) /\ Nothing(z)
    BY <1>3, <1>4, <1>6, <1>7, <2>2
  <2> QED
    BY <1>6, <2>2, <2>3 DEF z
<1> HIDE DEF b
<1>9. v \in Nat
  BY <1>8, Fields
<1> HIDE DEF v
<1>10. c \in Tsk /\ c.state = "ESTABLISHED" /\ Same(b, c)
  BY <1>1, <1>8, <1>9 DEF Tsk, TcpStates
<1>11. e \in Tsk /\ e.state = "SYN_RECEIVED" /\ Same(b, e)
  BY <1>1, <1>8 DEF Tsk, TcpStates
<1>12. g \in Tsk /\ Same(s, g)
  <2>1. {"OUT", "ERR", "HUP"} \in SUBSET PollEvents /\ x \in Errors
    BY DEF PollEvents, Errors
  <2> HIDE DEF x
  <2>2. /\ g \in Tsk /\ g.rq = s.rq /\ g.ofo = s.ofo /\ g.fin = s.fin
        /\ g.poll = {"OUT", "ERR", "HUP"}
    BY <2>1 DEF Tsk
  <2> HIDE DEF g
  <2>3. "IN" \notin s.poll
    BY <1>3 DEF Nothing
  <2> QED
    BY <2>2, <2>3
<1> HIDE DEF c, e, g
<1>13. SameRead(c, c1) /\ c1 \in Tsk
  BY <1>10, LightRead DEF SameRead, Keeps
<1> HIDE DEF c1
<1>14. SameRead(c1, c2) /\ c2 \in Tsk
  BY <1>13, TimersRead DEF SameRead, Keeps
<1> HIDE DEF c2
<1>15. /\ d.rq = c2.rq /\ d.ofo = c2.ofo /\ d.fin = c2.fin /\ d.poll = {"OUT"}
       /\ d.state = c2.state
  BY <1>14 DEF sock_connected, Tsk
<1> HIDE DEF d
<1>16. SameRead(e, f) /\ SameRead(g, tcp_done(g))
  BY <1>11, <1>12, LightRead, DoneRead
<1> HIDE DEF f
<1>17. Nothing(c2) /\ Nothing(f) /\ Nothing(tcp_done(g))
  <2> HIDE DEF Same
  <2> QED
    BY <1>3, <1>4, <1>5, <1>8, <1>10, <1>11, <1>12, <1>13, <1>14, <1>16
<1>18. Nothing(d)
  BY <1>15, <1>17 DEF Nothing
<1>19. f.state \notin Passive /\ tcp_done(g).state \notin Passive
  BY <1>11, <1>12, <1>16, DoneQueue DEF SameRead, Passive
<1>20. d.state \notin Passive
  BY <1>10, <1>13, <1>14, <1>15 DEF SameRead, Passive
<1>21. ASSUME NEW t, Nothing(t), t.state \notin Passive PROVE ReadOK(t, pc)
  BY <1>21 DEF ReadOK, Nothing
<1> QED
  BY <1>2, <1>17, <1>18, <1>19, <1>20, <1>21

\* A whole segment: its ACK, the closing handshake, its text, its FIN, and what
\* is sent in answer.
LEMMA SegmentRead ==
    ASSUME NEW s \in Tsk, NEW n \in Nat, NEW th \in InSegment, NEW r \in Nat, NEW pc,
           StreamOK(s, n), ReadOK(s, pc), SegmentOK(th), SegmentWithin(th),
           s.state \notin Before
    PROVE  LET a == ProcessAck(s, th, r) IN
           ReadOK(tcp_done(a), pc) /\ ReadOK(ProcessRest(a, th), pc)
<1> DEFINE a == ProcessAck(s, th, r)
           b == QueueEmptied(a, th)
           expected == th.seq = b.rcv_nxt
           c == ProcessText(b, th)
           d == ProcessFin(c, th, expected)
           e == SendMoreOrAck(d, th, expected)
<1>1. /\ SameRead(s, a) /\ Keeps(s, a) /\ a \in Tsk
      /\ a.state = IF s.state = "SYN_RECEIVED" THEN "ESTABLISHED" ELSE s.state
  <2>1. SameRead(s, a)
    BY ProcessAckRead
  <2>2. Keeps(s, a) /\ a.state = IF s.state = "SYN_RECEIVED" THEN "ESTABLISHED" ELSE s.state
    BY ProcessAckKeeps
  <2> HIDE DEF a
  <2> QED
    BY <2>1, <2>2 DEF Keeps
<1>2. ProcessRest(a, th) = e
  BY DEF ProcessRest
<1> HIDE DEF a
<1>3. ReadOK(a, pc) /\ StreamOK(a, n)
  BY <1>1, SameReadOK, KeepsStream
<1>4. a.state \in Synchronized
  BY <1>1, Fields DEF Synchronized, Before, TcpStates
<1>5. ReadOK(tcp_done(a), pc)
  <2>1. SameRead(a, tcp_done(a))
    BY <1>1, DoneRead
  <2> QED
    BY <1>3, <2>1, SameReadOK
<1>6. b \in Tsk /\ b.state \in Synchronized /\ StreamOK(b, n) /\ ReadOK(b, pc)
  <2>1. Keeps(a, b) /\ b.state \in Synchronized /\ ReadOK(b, pc)
    BY <1>1, <1>3, <1>4, QueueEmptiedKeeps, QueueEmptiedRead
  <2> HIDE DEF b
  <2>2. StreamOK(b, n)
    BY <1>3, <2>1, KeepsStream
  <2> QED
    BY <2>1, <2>2 DEF Keeps
<1>7. th.fin /\ expected =>
         /\ b.state \notin Passive
         /\ b.state \in TextStates => c.rcv_nxt = IRS + 1 + PeerBytes
  <2> HIDE DEF b
  <2> QED
    BY <1>6, FinExpected
<1> HIDE DEF b
<1>8. c \in Tsk /\ c.state = b.state /\ ReadOK(c, pc)
  <2>1. SameQueue(b, c) /\ c.state = b.state
    BY <1>6, ProcessTextQueue
  <2>2. ReadOK(c, pc)
    BY <1>6, TextRead
  <2> QED
    BY <2>1, <2>2 DEF SameQueue
<1> HIDE DEF c
<1>9. expected \in BOOLEAN
  OBVIOUS
<1> HIDE DEF expected
<1>10. d \in Tsk /\ ReadOK(d, pc)
  <2>1. Keeps(c, d)
    BY <1>6, <1>8, <1>9, ProcessFinKeeps
  <2>2. ReadOK(d, pc)
    BY <1>6, <1>7, <1>8, <1>9, FinRead
  <2> QED
    BY <2>1, <2>2 DEF Keeps
<1> HIDE DEF d
<1>11. SameRead(d, e)
  BY <1>9, <1>10, SendMoreRead
<1> HIDE DEF e
<1>12. ReadOK(e, pc)
  BY <1>10, <1>11, SameReadOK
<1>13. ReadOK(tcp_done(a), pc) /\ ReadOK(ProcessRest(a, th), pc)
  BY <1>2, <1>5, <1>12
<1> QED
  BY <1>13 DEF a

----------------------------------------------------------------------------
(* The actions *)

\* What every step preserves of the reader.
ReaderOK == ReadOK(tsk, app.pc)

\* connect() and its return give the reader nothing.
LEMMA ConnectSame ==
    ASSUME TypeInv, Connect \/ ConnectWoken \/ ConnectFree
    PROVE  SameRead(tsk, tsk')
<1>1. tsk \in Tsk /\ app \in AppType
  BY DEF TypeInv, TypeOK
<1>2. CASE Connect
  <2> DEFINE a == tcp_connect(tsk)
             w == IF app.nonblock THEN "idle" ELSE "asleep"
             t == [a EXCEPT !.ss = "CONNECTING", !.err = "EINPROGRESS", !.sleep = w]
  <2>1. app.pc = "start" /\ tsk' = t
    BY <1>2 DEF Connect
  <2>2. tsk.state = "CLOSE" /\ tsk.rcv_nxt = 0
    BY <2>1 DEF TypeInv, Fresh, NewSock
  <2>3. SameRead(tsk, a) /\ a \in Tsk
    BY <1>1, <2>2, ConnectRead
  <2>4. w \in WaitStates
    BY DEF WaitStates
  <2> HIDE DEF a, w
  <2>5. /\ t \in Tsk /\ t.state = a.state /\ t.fin = a.fin /\ t.psh = a.psh
        /\ t.rcv_nxt = a.rcv_nxt /\ t.recv_wait = a.recv_wait /\ t.poll = a.poll
        /\ t.rq = a.rq /\ t.ofo = a.ofo
    BY <2>3, <2>4 DEF Tsk, SocketStates, Errors
  <2> HIDE DEF t
  <2>6. SameRead(a, t)
    BY <2>3, <2>5, FieldsRead
  <2> QED
    BY <2>1, <2>3, <2>6, SameReadTransitive
<1>3. CASE ConnectWoken
  <2> DEFINE c == IF tsk.err = "0" THEN "CONNECTED" ELSE tsk.ss
             t == [tsk EXCEPT !.sleep = "idle", !.ss = c]
  <2>1. tsk' = t
    BY <1>3 DEF ConnectWoken
  <2>2. c \in SocketStates
    BY <1>1 DEF Tsk, SocketStates
  <2> HIDE DEF c
  <2>3. /\ t \in Tsk /\ t.state = tsk.state /\ t.fin = tsk.fin /\ t.psh = tsk.psh
        /\ t.rcv_nxt = tsk.rcv_nxt /\ t.recv_wait = tsk.recv_wait /\ t.poll = tsk.poll
        /\ t.rq = tsk.rq /\ t.ofo = tsk.ofo
    BY <1>1, <2>2 DEF Tsk, WaitStates
  <2> HIDE DEF t
  <2> QED
    BY <1>1, <2>1, <2>3, FieldsRead
<1>4. CASE ConnectFree
  <2> DEFINE t == [tsk EXCEPT !.freed = TRUE]
  <2>1. tsk' = t
    BY <1>4 DEF ConnectFree
  <2>2. /\ t \in Tsk /\ t.state = tsk.state /\ t.fin = tsk.fin /\ t.psh = tsk.psh
        /\ t.rcv_nxt = tsk.rcv_nxt /\ t.recv_wait = tsk.recv_wait /\ t.poll = tsk.poll
        /\ t.rq = tsk.rq /\ t.ofo = tsk.ofo
    BY <1>1 DEF Tsk
  <2> HIDE DEF t
  <2> QED
    BY <1>1, <2>1, <2>2, FieldsRead
<1> QED
  BY <1>2, <1>3, <1>4

\* Neither do write() and close().
LEMMA WriteCloseSame ==
    ASSUME TypeOK, (\E len \in WriteSizes : Write(len)) \/ Close
    PROVE  SameRead(tsk, tsk')
<1>1. tsk \in Tsk /\ app \in AppType /\ wrote \in Nat
  BY DEF TypeOK
<1>2. ASSUME NEW len \in WriteSizes, Write(len) PROVE SameRead(tsk, tsk')
  <2>1. len \in Nat \ {0} /\ wrote + 1 \in Nat
    BY <1>1, TcpRunConstants
  <2>2. tsk' = tcp_send(tsk, wrote + 1, len)
    BY <1>2 DEF Write
  <2> QED
    BY <1>1, <2>1, <2>2, SendRead
<1>3. CASE Close
  <2> DEFINE a == [tsk EXCEPT !.state = "FIN_WAIT_1"]
             b == [tsk EXCEPT !.err = "EBADF"]
  <2>1. \/ tsk' = tcp_done(tsk)
        \/ tsk.state = "ESTABLISHED" /\ tsk' = tcp_queue_fin(a)
        \/ tsk' = tcp_queue_fin(tsk)
        \/ tsk' = b
    BY <1>3 DEF Close
  <2>2. SameRead(tsk, tcp_done(tsk)) /\ SameRead(tsk, tcp_queue_fin(tsk))
    BY <1>1, DoneRead, QueueFinRead
  <2>3. tsk.state = "ESTABLISHED" => SameRead(tsk, tcp_queue_fin(a))
    <3>1. /\ a \in Tsk /\ a.state = "FIN_WAIT_1" /\ a.fin = tsk.fin /\ a.psh = tsk.psh
          /\ a.rcv_nxt = tsk.rcv_nxt /\ a.recv_wait = tsk.recv_wait
          /\ a.poll = tsk.poll /\ a.rq = tsk.rq /\ a.ofo = tsk.ofo
      BY <1>1 DEF Tsk, TcpStates
    <3> HIDE DEF a
    <3>2. tsk.state = "ESTABLISHED" => SameRead(tsk, a)
      BY <3>1 DEF SameRead, Keeps, Before, Receiving, TextStates, Ended, Passive
    <3> QED
      BY <3>1, <3>2, QueueFinRead, SameReadTransitive
  <2>4. SameRead(tsk, b)
    <3>1. /\ b \in Tsk /\ b.state = tsk.state /\ b.fin = tsk.fin /\ b.psh = tsk.psh
          /\ b.rcv_nxt = tsk.rcv_nxt /\ b.recv_wait = tsk.recv_wait
          /\ b.poll = tsk.poll /\ b.rq = tsk.rq /\ b.ofo = tsk.ofo
      BY <1>1 DEF Tsk, Errors
    <3> HIDE DEF b
    <3> QED
      BY <1>1, <3>1, FieldsRead
  <2> HIDE DEF a, b
  <2> QED
    BY <2>1, <2>2, <2>3, <2>4
<1> QED
  BY <1>2, <1>3

\* So they leave the reader as it was.
LEMMA CallReads ==
    ASSUME TypeInv, ReaderOK,
           \/ Connect \/ ConnectWoken \/ ConnectFree
           \/ (\E len \in WriteSizes : Write(len)) \/ Close
    PROVE  ReaderOK'
<1>1. TypeOK /\ app \in AppType
  BY DEF TypeInv, TypeOK
<1>2. ReadOK(tsk', app.pc)
  BY <1>1, ConnectSame, WriteCloseSame, SameReadOK DEF ReaderOK
<1>3. (app.pc # "copy" /\ app'.pc # "reading") \/ app' = app
  BY <1>1 DEF Connect, ConnectWoken, ConnectFree, Write, Close, AppType
<1> QED
  BY <1>2, <1>3, OtherCall DEF ReaderOK

\* The copying of a buffer: the queue gets shorter, and the reader goes on.
LEMMA CopySkbReads ==
    ASSUME TypeOK, ReaderOK, CopySkb
    PROVE  ReaderOK'
<1> DEFINE skb == Head(tsk.rq)
           n == MinOf(skb.dlen, app.want - app.rlen)
           q == Tail(tsk.rq)
           p == tsk.psh \/ skb.psh
           a == [tsk EXCEPT !.rq = q, !.psh = p]
           y == [tsk.rq EXCEPT ![1].dlen = skb.dlen - n, ![1].data = skb.data + n]
           b == [tsk EXCEPT !.rq[1].dlen = @ - n, !.rq[1].data = @ + n]
<1>1. tsk \in Tsk
  BY DEF TypeOK
<1>2. /\ tsk'.state = tsk.state /\ tsk'.rcv_nxt = tsk.rcv_nxt
      /\ tsk'.ofo = tsk.ofo /\ tsk.rq # << >>
      /\ app.pc = "copy" /\ app'.pc = "copy"
  BY CopySkbEffect
<1>3. tsk' = IF n = skb.dlen THEN a ELSE b
  BY DEF CopySkb
<1> HIDE DEF n, q, p, skb
<1>4. /\ a.fin = tsk.fin /\ a.poll = tsk.poll
      /\ b.fin = tsk.fin /\ b.poll = tsk.poll
  BY <1>1 DEF Tsk
<1> HIDE DEF a, b
<1>5. tsk'.fin = tsk.fin /\ tsk'.poll = tsk.poll
  BY <1>3, <1>4
<1>6. "IN" \in tsk.poll /\ tsk.state \notin Before
  BY <1>2 DEF ReaderOK, ReadOK
<1> QED
  BY <1>2, <1>5, <1>6 DEF ReaderOK, ReadOK, AtEnd

\* read(), but for the copying of a buffer.
LEMMA ReadReads ==
    ASSUME TypeOK, ReaderOK,
           ReadAtEnd \/ (\E len \in ReadSizes : Read(len)) \/ CopyDone \/ ReadWoken
    PROVE  ReaderOK'
<1>1. tsk \in Tsk /\ app \in AppType
  BY DEF TypeOK
<1>2. CASE ReadAtEnd
  <2> DEFINE t == [tsk EXCEPT !.fin = FALSE]
  <2>1. app.pc = "idle" /\ app'.pc = "idle" /\ (tsk' = tsk \/ tsk' = t)
    BY <1>1, <1>2 DEF ReadAtEnd, AppType
  <2>2. /\ t.state = tsk.state /\ t.fin = FALSE /\ t.rcv_nxt = tsk.rcv_nxt
        /\ t.recv_wait = tsk.recv_wait /\ t.poll = tsk.poll
        /\ t.rq = tsk.rq /\ t.ofo = tsk.ofo
    BY <1>1 DEF Tsk
  <2> HIDE DEF t
  <2>3. ReadOK(t, "idle")
    BY <2>1, <2>2 DEF ReaderOK, ReadOK, AtEnd
  <2> QED
    BY <2>1, <2>3 DEF ReaderOK
<1>3. ASSUME NEW len \in ReadSizes, Read(len) PROVE ReaderOK'
  <2>1. tsk' = tsk /\ app.pc = "idle" /\ app'.pc = "copy"
    BY <1>1, <1>3 DEF Read, AppType
  <2> QED
    BY <2>1, OtherCall DEF ReaderOK
<1>4. CASE CopyDone
  <2> DEFINE p == tsk.poll \ {"IN"}
             x == [tsk EXCEPT !.poll = p]
             s == IF tsk.rq = << >> /\ ~tsk.fin THEN x ELSE tsk
             a == [s EXCEPT !.psh = FALSE]
             t == tcp_rearm_user_timeout(a)
             b == [s EXCEPT !.recv_wait = "asleep"]
  <2>1. /\ app.pc = "copy"
        /\ \/ app'.pc = "idle" /\ (tsk' = t \/ tsk' = s)
           \/ /\ app'.pc = "reading" /\ tsk' = b
              /\ tsk.rq = << >> /\ ~tsk.fin
    BY <1>1, <1>4 DEF CopyDone, AppType
  <2>2. p \in SUBSET PollEvents /\ "IN" \notin p
    BY <1>1, Fields
  <2> HIDE DEF p
  <2>3. /\ x \in Tsk /\ x.state = tsk.state /\ x.fin = tsk.fin /\ x.poll = p
        /\ x.rcv_nxt = tsk.rcv_nxt /\ x.recv_wait = tsk.recv_wait
        /\ x.rq = tsk.rq /\ x.ofo = tsk.ofo
    BY <1>1, <2>2 DEF Tsk
  <2> HIDE DEF x
  <2>4. s \in Tsk /\ ReadOK(s, "copy")
    <3>1. CASE tsk.rq = << >> /\ ~tsk.fin
      <4>1. ReadOK(x, "copy")
        BY <2>1, <2>2, <2>3, <3>1 DEF ReaderOK, ReadOK, AtEnd
      <4> QED
        BY <2>3, <3>1, <4>1
    <3>2. CASE ~(tsk.rq = << >> /\ ~tsk.fin)
      BY <1>1, <2>1, <3>2 DEF ReaderOK
    <3> QED
      BY <3>1, <3>2
  <2>5. /\ s.rq = tsk.rq /\ s.fin = tsk.fin
        /\ s.rq = << >> /\ ~s.fin => "IN" \notin s.poll
    BY <2>2, <2>3
  <2> HIDE DEF s
  <2>6. s.state \notin Ended /\ "IN" \in s.poll => s.rq # << >> \/ AtEnd(s)
    <3>1. s.state \notin Ended /\ s.fin => s.state \in Passive
      BY <2>4, Fields DEF ReadOK, Ended, Passive, Before, Receiving, TextStates, TcpStates
    <3> QED
      BY <2>4, <2>5, <3>1 DEF ReadOK
  <2>7. ReadOK(s, "idle")
    BY <2>4, <2>6 DEF ReadOK
  <2>8. ReadOK(t, "idle")
    <3>1. /\ a \in Tsk /\ a.state = s.state /\ a.fin = s.fin /\ a.poll = s.poll
          /\ a.rcv_nxt = s.rcv_nxt /\ a.recv_wait = s.recv_wait
          /\ a.rq = s.rq /\ a.ofo = s.ofo
      BY <2>4 DEF Tsk
    <3> HIDE DEF a
    <3>2. ReadOK(a, "idle")
      BY <2>7, <3>1 DEF ReadOK, AtEnd
    <3>3. SameRead(a, t)
      BY <3>1, TimersRead
    <3> QED
      BY <3>2, <3>3, SameReadOK
  <2>9. ASSUME tsk.rq = << >>, ~tsk.fin PROVE ReadOK(b, "reading")
    <3>1. /\ b.state = s.state /\ b.fin = s.fin /\ b.poll = s.poll
          /\ b.rcv_nxt = s.rcv_nxt /\ b.recv_wait = "asleep"
          /\ b.rq = s.rq /\ b.ofo = s.ofo
      BY <2>4 DEF Tsk
    <3> HIDE DEF b
    <3> QED
      BY <2>5, <2>7, <2>9, <3>1 DEF ReadOK, AtEnd
  <2> HIDE DEF t, b
  <2> QED
    BY <2>1, <2>7, <2>8, <2>9 DEF ReaderOK
<1>5. CASE ReadWoken
  <2> DEFINE t == [tsk EXCEPT !.recv_wait = "idle"]
  <2>1. tsk' = t /\ app'.pc = "copy"
    BY <1>1, <1>5 DEF ReadWoken, AppType
  <2>2. /\ t.state = tsk.state /\ t.fin = tsk.fin /\ t.rcv_nxt = tsk.rcv_nxt
        /\ t.poll = tsk.poll /\ t.rq = tsk.rq /\ t.ofo = tsk.ofo
    BY <1>1 DEF Tsk
  <2> HIDE DEF t
  <2>3. ReadOK(t, "copy")
    BY <2>2 DEF ReaderOK, ReadOK, AtEnd
  <2> QED
    BY <2>1, <2>3 DEF ReaderOK
<1> QED
  BY <1>2, <1>3, <1>4, <1>5

\* Expiring timers and their handlers give the reader nothing.
LEMMA TimerRead ==
    ASSUME TypeOK, TimerNext
    PROVE  SameRead(tsk, tsk') /\ app' = app
<1>1. tsk \in Tsk /\ tsk.thread \in [TimerKinds -> Nat] /\ tsk.armed \in [TimerKinds -> Nat]
  BY Fields DEF TypeOK
<1>2. tsk' \in Tsk
  BY TimerSteps DEF QuietStep, TypeOK
<1>3. ASSUME NEW slot \in {"retransmit", "delack", "linger"}, Expire(slot)
      PROVE  SameRead(tsk, tsk') /\ app' = app
  <2> DEFINE h == [tsk.thread EXCEPT ![tsk[slot].kind] = @ + 1]
             e == [tsk[slot] EXCEPT !.fired = TRUE]
             t == [tsk EXCEPT ![slot] = e, !.thread = h]
  <2>1. tsk' = t /\ app' = app
    BY <1>3 DEF Expire
  <2> HIDE DEF h, e
  <2>2. /\ t.state = tsk.state /\ t.fin = tsk.fin /\ t.psh = tsk.psh
        /\ t.rcv_nxt = tsk.rcv_nxt /\ t.recv_wait = tsk.recv_wait /\ t.poll = tsk.poll
        /\ t.rq = tsk.rq /\ t.ofo = tsk.ofo
    BY <1>1 DEF Tsk
  <2> HIDE DEF t
  <2> QED
    BY <1>1, <1>2, <2>1, <2>2, FieldsRead
<1>4. ASSUME NEW kind \in TimerKinds, ExpireUnowned(kind)
      PROVE  SameRead(tsk, tsk') /\ app' = app
  <2> DEFINE h == [tsk.thread EXCEPT ![kind] = @ + 1]
             m == [tsk.armed EXCEPT ![kind] = @ - 1]
             t == [tsk EXCEPT !.armed = m, !.thread = h]
  <2>1. tsk' = t /\ app' = app
    BY <1>4 DEF ExpireUnowned
  <2> HIDE DEF h, m
  <2>2. /\ t.state = tsk.state /\ t.fin = tsk.fin /\ t.psh = tsk.psh
        /\ t.rcv_nxt = tsk.rcv_nxt /\ t.recv_wait = tsk.recv_wait /\ t.poll = tsk.poll
        /\ t.rq = tsk.rq /\ t.ofo = tsk.ofo
    BY <1>1 DEF Tsk
  <2> HIDE DEF t
  <2> QED
    BY <1>1, <1>2, <2>1, <2>2, FieldsRead
<1>5. ASSUME NEW kind \in TimerKinds, RunHandler(kind)
      PROVE  SameRead(tsk, tsk') /\ app' = app
  <2> DEFINE h == [tsk.thread EXCEPT ![kind] = @ - 1]
             s == [tsk EXCEPT !.thread = h]
             c == [s EXCEPT !.linger = NoTimer]
             d == [s EXCEPT !.freed = TRUE]
  <2>1. tsk.thread[kind] > 0 /\ app' = app
    BY <1>5 DEF RunHandler
  <2>2. h \in [TimerKinds -> Nat]
    BY <1>1, <2>1
  <2>3. tsk' = Handler(kind, s)
    BY <1>5 DEF RunHandler
  <2> HIDE DEF h
  <2>4. /\ s \in Tsk /\ s.state = tsk.state /\ s.fin = tsk.fin /\ s.psh = tsk.psh
        /\ s.rcv_nxt = tsk.rcv_nxt /\ s.recv_wait = tsk.recv_wait /\ s.poll = tsk.poll
        /\ s.rq = tsk.rq /\ s.ofo = tsk.ofo
    BY <1>1, <2>2 DEF Tsk
  <2> HIDE DEF s
  <2>5. /\ c \in Tsk /\ c.state = s.state /\ c.fin = s.fin /\ c.psh = s.psh
        /\ c.rcv_nxt = s.rcv_nxt /\ c.recv_wait = s.recv_wait /\ c.poll = s.poll
        /\ c.rq = s.rq /\ c.ofo = s.ofo
    BY <2>4, SlotTyping DEF Tsk
  <2>6. /\ d \in Tsk /\ d.state = s.state /\ d.fin = s.fin /\ d.psh = s.psh
        /\ d.rcv_nxt = s.rcv_nxt /\ d.recv_wait = s.recv_wait /\ d.poll = s.poll
        /\ d.rq = s.rq /\ d.ofo = s.ofo
    BY <2>4 DEF Tsk
  <2>7. \/ tsk' = tcp_connect_rto(s)
        \/ tsk' = tcp_retransmission_timeout(s)
        \/ tsk' = tcp_send_delack(s)
        \/ tsk' = tcp_abort(c)
        \/ tsk' = tcp_done(c)
        \/ tsk' = d
    BY <2>3 DEF Handler, CancelLinger, TimerKinds
  <2> HIDE DEF c, d
  <2>8. SameRead(tsk, s) /\ SameRead(s, c) /\ SameRead(s, d)
    BY <1>1, <2>4, <2>5, <2>6, FieldsRead
  <2>9. SameRead(s, tsk')
    BY <2>4, <2>5, <2>7, <2>8, ConnectRtoRead, RetransmissionRead, SendDelackRead,
       DoneRead, SameReadTransitive
  <2> QED
    BY <2>1, <2>8, <2>9, SameReadTransitive
<1> QED
  BY <1>3, <1>4, <1>5 DEF TimerNext

\* So they leave the reader as it was.
LEMMA TimerReads ==
    ASSUME TypeOK, ReaderOK, TimerNext
    PROVE  ReaderOK'
BY TimerRead, SameReadOK DEF ReaderOK

\* An arriving segment.
LEMMA CoreReads ==
    ASSUME TypeOK, ReaderOK, StreamOK(tsk, Len(delivered)), CoreNext
    PROVE  ReaderOK'
<1>1. tsk \in Tsk /\ peer \in PeerType /\ Len(delivered) \in Nat
  BY DEF TypeOK
<1>2. PICK th \in InFlight :
         \/ RcvSynSent(th) \/ RcvUnacceptable(th) \/ RcvReset(th)
         \/ \E r \in RttSamples : RcvSegment(th, r)
  BY DEF CoreNext
<1>3. th \in InSegment /\ SegmentOK(th) /\ SegmentWithin(th)
  BY <1>1, InFlightTyping, InFlightPlaced, InFlightWithin
<1>4. ReadOK(tsk, app.pc)
  BY DEF ReaderOK
<1>5. app' = app /\ tsk.state # "CLOSE"
  BY <1>2 DEF RcvSynSent, RcvUnacceptable, RcvReset, RcvSegment, Arrives
<1>6. CASE RcvSynSent(th)
  <2>1. tsk.state = "SYN_SENT" /\ tsk' = tcp_synsent(tsk, th)
    BY <1>6 DEF RcvSynSent
  <2>2. ReadOK(tcp_synsent(tsk, th), app.pc)
    BY <1>1, <1>3, <1>4, <2>1, SynsentRead
  <2> QED
    BY <1>5, <2>1, <2>2 DEF ReaderOK
<1>7. CASE RcvUnacceptable(th)
  <2>1. tsk' = tcp_send_ack(tsk)
    BY <1>7 DEF RcvUnacceptable
  <2>2. SameRead(tsk, tcp_send_ack(tsk))
    BY <1>1, LightRead
  <2>3. ReadOK(tcp_send_ack(tsk), app.pc)
    BY <1>4, <2>2, SameReadOK
  <2> QED
    BY <1>5, <2>1, <2>3 DEF ReaderOK
<1>8. CASE RcvReset(th)
  <2>1. tsk' = tcp_recv_notify(tcp_enter_time_wait(tsk))
    BY <1>8 DEF RcvReset
  <2>2. ReadOK(tcp_recv_notify(tcp_enter_time_wait(tsk)), app.pc)
    BY <1>1, <1>4, ResetRead
  <2> QED
    BY <1>5, <2>1, <2>2 DEF ReaderOK
<1>9. ASSUME NEW r \in RttSamples, RcvSegment(th, r) PROVE ReaderOK'
  <2> DEFINE a == ProcessAck(tsk, th, r)
  <2>1. r \in Nat
    BY TcpRunConstants
  <2>2. tsk' = tcp_done(a) \/ tsk' = ProcessRest(a, th)
    BY <1>9 DEF RcvSegment
  <2>3. tsk.state \notin Before
    BY <1>5, <1>9 DEF RcvSegment, Before
  <2>4. ReadOK(tcp_done(a), app.pc) /\ ReadOK(ProcessRest(a, th), app.pc)
    BY <1>1, <1>3, <1>4, <2>1, <2>3, SegmentRead
  <2> HIDE DEF a
  <2> QED
    BY <1>5, <2>2, <2>4 DEF ReaderOK
<1> QED
  BY <1>2, <1>6, <1>7, <1>8, <1>9

----------------------------------------------------------------------------

\* The inductive invariant of the reader: what it finds, and the stream it is
\* the end of.
ReadInv == StreamInv /\ ReaderOK

\* The step of the induction.
LEMMA ReadStep ==
    ASSUME ReadInv, [Next]_vars
    PROVE  ReadInv'
<1>1. /\ StreamInv /\ TypeInv /\ TypeOK /\ ReaderOK
      /\ StreamOK(tsk, Len(delivered))
  BY DEF ReadInv, StreamInv, TypeInv
<1>2. StreamInv'
  BY <1>1, StreamStep
<1>3. CASE UNCHANGED vars
  <2>1. tsk' = tsk /\ app' = app
    BY <1>3 DEF vars
  <2>2. ReaderOK'
    BY <1>1, <2>1 DEF ReaderOK
  <2> QED
    BY <1>2, <2>2 DEF ReadInv
<1>4. CASE AppNext
  <2>1. ReaderOK'
    BY <1>1, <1>4, CallReads, CopySkbReads, ReadReads DEF AppNext
  <2> QED
    BY <1>2, <2>1 DEF ReadInv
<1>5. CASE TimerNext
  BY <1>1, <1>2, <1>5, TimerReads DEF ReadInv
<1>6. CASE PeerNext
  <2>1. tsk' = tsk /\ app' = app
    BY <1>6 DEF PeerNext, PeerReceive, PeerSend, PeerReset
  <2>2. ReaderOK'
    BY <1>1, <2>1 DEF ReaderOK
  <2> QED
    BY <1>2, <2>2 DEF ReadInv
<1>7. CASE CoreNext
  BY <1>1, <1>2, <1>7, CoreReads DEF ReadInv
<1> QED
  BY <1>3, <1>4, <1>5, <1>6, <1>7 DEF Next

\* There is nothing to read at first, and nobody reads.
LEMMA ReadInit ==
    ASSUME Init
    PROVE  ReadInv
<1>1. StreamInv
  BY StreamInit
<1>2. tsk = NewSock /\ app.pc = "start"
  BY DEF Init
<1>3. /\ tsk.rq = << >> /\ tsk.ofo = << >> /\ tsk.state = "CLOSE"
      /\ tsk.fin = FALSE /\ tsk.poll = {}
  BY <1>2 DEF NewSock
<1>4. ReadOK(tsk, app.pc)
  <2>1. tsk.state \notin Passive
    BY <1>3 DEF Passive
  <2>2. WithinStream(tsk.ofo)
    BY <1>3 DEF WithinStream
  <2> QED
    BY <1>2, <1>3, <2>1, <2>2 DEF ReadOK
<1> QED
  BY <1>1, <1>4 DEF ReadInv, ReaderOK

\* While the connection has not ended, no wake-up of a reader is lost between
\* its look at the queue and its sleep, whatever segments, timers and calls
\* come in between.
THEOREM ReadersWoken == Spec => [](tsk.state \notin Ended => NoLostWakeup)
<1>1. Init => ReadInv
  BY ReadInit
<1>2. ReadInv /\ [Next]_vars => ReadInv'
  BY ReadStep
<1>3. ReadInv => (tsk.state \notin Ended => NoLostWakeup)
  BY DEF ReadInv, ReaderOK, ReadOK, NoLostWakeup
<1> QED
  BY <1>1, <1>2, <1>3, PTL DEF Spec

\* A reader that sleeps has nothing queued, in every state of the connection:
\* what it may miss after a reset or a timeout is the FIN only.
THEOREM SleepersHaveNoData ==
    Spec => [](app.pc = "reading" /\ tsk.recv_wait = "asleep" => tsk.rq = << >>)
<1>1. Init => ReadInv
  BY ReadInit
<1>2. ReadInv /\ [Next]_vars => ReadInv'
  BY ReadStep
<1>3. ReadInv => (app.pc = "reading" /\ tsk.recv_wait = "asleep" => tsk.rq = << >>)
  BY DEF ReadInv, ReaderOK, ReadOK
<1> QED
  BY <1>1, <1>2, <1>3, PTL DEF Spec

\* While the connection has not ended, poll() says readable when there is data
\* and only when there is data or the peer's FIN has been counted.
THEOREM PollTruthful == Spec => [](tsk.state \notin Ended => PollTellsTruth)
<1>1. Init => ReadInv
  BY ReadInit
<1>2. ReadInv /\ [Next]_vars => ReadInv'
  BY ReadStep
<1>3. ReadInv => (tsk.state \notin Ended => PollTellsTruth)
  BY DEF ReadInv, ReaderOK, ReadOK, PollTellsTruth, AtEnd
<1> QED
  BY <1>1, <1>2, <1>3, PTL DEF Spec

\* poll() never hides queued data, in any state of the connection.
THEOREM DataIsPolled == Spec => [](tsk.rq # << >> => "IN" \in tsk.poll)
<1>1. Init => ReadInv
  BY ReadInit
<1>2. ReadInv /\ [Next]_vars => ReadInv'
  BY ReadStep
<1>3. ReadInv => (tsk.rq # << >> => "IN" \in tsk.poll)
  BY DEF ReadInv, ReaderOK, ReadOK
<1> QED
  BY <1>1, <1>2, <1>3, PTL DEF Spec

----------------------------------------------------------------------------
(***************************************************************************)
(* Part 3.  One direction only: UnackedTimed.                              *)
(***************************************************************************)

\* The peer sends no data and does not close.
OneWay == PeerBytes = 0 /\ ~PeerCloses

\* The transmitted buffers come first.
InTurn(w) == \A i \in 1..Len(w) : w[i].seq > 0 => \A j \in 1..i : w[j].seq > 0

\* The sending side while the peer sends nothing: buffers go out in the order of
\* the queue, and none waits when nothing is in flight.
FlightOK(s) ==
    /\ InTurn(s.wq)
    /\ s.state \notin Passive
    /\ s.state \in TextStates =>
          s.rcv_nxt = IRS + 1 /\ (s.wq # << >> => s.inflight > 0)

\* A segment of a peer that sends nothing but the handshake, acknowledgments and
\* resets.
Silent(th) ==
    /\ th.dlen = 0 /\ ~th.psh /\ ~th.fin
    /\ ~th.syn /\ ~th.rst => th.seq = IRS + 1

\* Operations that neither queue nor send preserve FlightOK.
LEMMA SameFlight ==
    ASSUME NEW s \in Tsk, NEW t, SameQueue(s, t), SameRead(s, t), FlightOK(s),
           s.state # "SYN_RECEIVED"
    PROVE  FlightOK(t)
<1>1. /\ t.wq = s.wq /\ t.inflight = s.inflight /\ t.rcv_nxt = s.rcv_nxt
      /\ t.state \in Passive => s.state \in Passive
      /\ t.state \in Receiving => s.state \in Receiving
  BY DEF SameQueue, SameRead, Keeps
<1>2. t.state \in TextStates => s.state \in TextStates
  BY <1>1 DEF Receiving
<1> QED
  BY <1>1, <1>2 DEF FlightOK

\* One buffer more, transmitted only if all others are.
LEMMA InTurnAppend ==
    ASSUME NEW w \in Seq(WriteSkb), NEW x \in WriteSkb, InTurn(w),
           w = << >> \/ x.seq = 0
    PROVE  InTurn(Append(w, x))
<1> DEFINE v == Append(w, x)
           n == Len(w)
<1>1. n \in Nat /\ Len(v) = n + 1 /\ v[n + 1] = x /\ \A i \in 1..n : v[i] = w[i]
  OBVIOUS
<1>2. \A i \in 1..n : w[i].seq > 0 => \A j \in 1..i : w[j].seq > 0
  BY DEF InTurn
<1>3. n = 0 \/ x.seq = 0
  OBVIOUS
<1> HIDE DEF v, n
<1> SUFFICES ASSUME NEW i \in 1..(n + 1), v[i].seq > 0, NEW j \in 1..i
             PROVE  v[j].seq > 0
  BY <1>1 DEF InTurn, v
<1>4. CASE i = n + 1
  <2>1. x.seq > 0
    BY <1>1, <1>4
  <2>2. n = 0
    BY <1>3, <2>1
  <2>3. j = 1 /\ n + 1 = 1
    BY <1>4, <2>2
  <2> QED
    BY <1>1, <2>1, <2>3
<1>5. CASE i # n + 1
  <2>1. i \in 1..n /\ j \in 1..n
    BY <1>1, <1>5
  <2>2. w[i].seq > 0
    BY <1>1, <2>1
  <2>3. w[j].seq > 0
    BY <1>2, <2>1, <2>2
  <2> QED
    BY <1>1, <2>1, <2>3
<1> QED
  BY <1>4, <1>5

\* More buffers, none of them transmitted.
LEMMA InTurnConcat ==
    ASSUME NEW w \in Seq(WriteSkb), NEW u \in Seq(WriteSkb), InTurn(w),
           \A i \in 1..Len(u) : u[i].seq = 0
    PROVE  InTurn(w \o u)
<1> DEFINE n == Len(w)
           m == Len(u)
           v == w \o u
<1>1. /\ n \in Nat /\ m \in Nat /\ Len(v) = n + m
      /\ \A i \in 1..(n + m) : v[i] = IF i <= n THEN w[i] ELSE u[i - n]
  OBVIOUS
<1>2. \A i \in 1..m : u[i].seq = 0
  OBVIOUS
<1>3. \A i \in 1..n : w[i].seq > 0 => \A j \in 1..i : w[j].seq > 0
  BY DEF InTurn
<1> HIDE DEF n, m, v
<1> SUFFICES ASSUME NEW i \in 1..(n + m), v[i].seq > 0, NEW j \in 1..i
             PROVE  v[j].seq > 0
  BY <1>1 DEF InTurn, v
<1>4. i <= n
  <2> SUFFICES ASSUME ~(i <= n) PROVE FALSE
    OBVIOUS
  <2>1. i - n \in 1..m
    BY <1>1
  <2>2. v[i] = u[i - n]
    BY <1>1
  <2>3. v[i].seq = 0
    BY <1>2, <2>1, <2>2
  <2> QED
    BY <2>3
<1>5. i \in 1..n /\ j \in 1..n /\ j \in 1..(n + m) /\ j <= n
  BY <1>1, <1>4
<1>6. v[i] = w[i] /\ v[j] = w[j]
  BY <1>1, <1>4, <1>5
<1> QED
  BY <1>3, <1>5, <1>6

\* Buffers taken off the head.
LEMMA InTurnSuffix ==
    ASSUME NEW w \in Seq(WriteSkb), NEW n \in 0..Len(w), InTurn(w)
    PROVE  InTurn(SubSeq(w, n + 1, Len(w)))
<1> DEFINE v == SubSeq(w, n + 1, Len(w))
           l == Len(w)
<1>1. /\ n \in Nat /\ l \in Nat /\ Len(v) = l - n
      /\ \A i \in 1..(l - n) : v[i] = w[n + i]
  OBVIOUS
<1>2. \A i \in 1..l : w[i].seq > 0 => \A j \in 1..i : w[j].seq > 0
  BY DEF InTurn
<1> HIDE DEF v, l
<1> SUFFICES ASSUME NEW i \in 1..(l - n), v[i].seq > 0, NEW j \in 1..i
             PROVE  v[j].seq > 0
  BY <1>1 DEF InTurn, v
<1>3. n + i \in 1..l /\ n + j \in 1..(n + i) /\ j \in 1..(l - n)
  BY <1>1
<1>4. w[n + i].seq > 0
  BY <1>1
<1>5. w[n + j].seq > 0
  BY <1>2, <1>3, <1>4
<1> QED
  BY <1>1, <1>3, <1>5

\* If only the first buffers have been transmitted, and some have, the oldest has.
LEMMA FirstInTurn ==
    ASSUME NEW s \in Tsk, SendOK(s), InTurn(s.wq), s.inflight > 0
    PROVE  s.wq # << >> /\ s.wq[1].seq > 0
<1>1. s.wq \in Seq(WriteSkb)
  BY Fields
<1>2. Sent(s.wq) # {}
  <2> SUFFICES ASSUME Sent(s.wq) = {} PROVE FALSE
    OBVIOUS
  <2>1. s.inflight = 0
    BY FS_EmptySet DEF SendOK
  <2> QED
    BY <2>1
<1>3. PICK i \in 1..Len(s.wq) : s.wq[i].seq > 0
  BY <1>2 DEF Sent
<1>4. 1 \in 1..i /\ Len(s.wq) # 0
  BY <1>1
<1> QED
  BY <1>1, <1>3, <1>4 DEF InTurn

\* A new buffer is transmitted when nothing waits before it, or waits its turn.
LEMMA QueueTransmitFlight ==
    ASSUME NEW s \in Tsk, SendOK(s), FlightOK(s), s.state \in TextStates,
           NEW skb \in WriteSkb, skb.seq = 0
    PROVE  LET t == tcp_queue_transmit_skb(s, skb) IN
           t \in Tsk /\ InTurn(t.wq) /\ t.inflight > 0 /\ FlightOK(t)
<1> DEFINE a == IF s.wq = << >> THEN tcp_rearm_rto_timer(s) ELSE s
           b == tcp_transmit_skb(a, skb, a.snd_nxt)
           k == b.inflight + 1
           n == SeqAfter(skb, a.snd_nxt)
           x == Numbered(skb, a.snd_nxt)
           w == Append(b.wq, x)
           c == [b EXCEPT !.inflight = k, !.snd_nxt = n, !.wq = w]
           v == Append(a.wq, skb)
           d == [a EXCEPT !.wq = v]
           t == tcp_queue_transmit_skb(s, skb)
<1>1. t = IF a.inflight = 0 THEN c ELSE d
  BY DEF tcp_queue_transmit_skb
<1>2. t \in Tsk /\ t.state = s.state /\ SameRead(s, t)
  BY QueueTransmitSend, QueueRead
<1>3. SameQueue(s, a) /\ a \in Tsk
  BY RearmRtoQueue DEF SameQueue
<1> HIDE DEF a, t
<1>4. /\ a.snd_nxt \in Nat /\ a.wq = s.wq /\ a.inflight = s.inflight
      /\ s.wq \in Seq(WriteSkb) /\ s.inflight \in Nat /\ InTurn(s.wq)
      /\ s.wq # << >> => s.inflight > 0
  BY <1>3, Fields DEF SameQueue, FlightOK
<1>5. b \in Tsk /\ b.wq = s.wq /\ b.inflight = s.inflight
  BY <1>3, <1>4, TransmitQueue DEF SameQueue
<1>6. x \in WriteSkb /\ n \in Nat
  BY <1>4, NumberedSeq
<1> HIDE DEF b, x, n
<1>7. InTurn(t.wq) /\ t.inflight > 0
  <2>1. CASE a.inflight = 0
    <3>1. w \in Seq(WriteSkb) /\ InTurn(w)
      BY <1>4, <1>5, <1>6, <2>1, InTurnAppend
    <3>2. k = 1
      BY <1>4, <1>5, <2>1
    <3> HIDE DEF w, k
    <3>3. c.wq = w /\ c.inflight = k
      BY <1>5 DEF Tsk
    <3> HIDE DEF c
    <3>4. t.wq = w /\ t.inflight = 1
      BY <1>1, <2>1, <3>2, <3>3
    <3> QED
      BY <3>1, <3>4
  <2>2. CASE a.inflight # 0
    <3>1. InTurn(v)
      BY <1>4, InTurnAppend
    <3> HIDE DEF v
    <3>2. d.wq = v /\ d.inflight = a.inflight
      BY <1>3 DEF Tsk
    <3> HIDE DEF d
    <3>3. t.wq = v /\ t.inflight = a.inflight
      BY <1>1, <2>2, <3>2
    <3> QED
      BY <1>4, <2>2, <3>1, <3>3
  <2> QED
    BY <2>1, <2>2
<1>8. FlightOK(t)
  BY <1>2, <1>7 DEF FlightOK, SameRead, Passive, TextStates
<1> QED
  BY <1>2, <1>7, <1>8 DEF t

\* close() queues the FIN in the same way.
LEMMA QueueFinFlight ==
    ASSUME NEW s \in Tsk, SendOK(s), FlightOK(s), s.state \in TextStates
    PROVE  FlightOK(tcp_queue_fin(s))
<1> DEFINE x == [seq |-> 0, end_seq |-> 0, dlen |-> 0, data |-> 0,
                 syn |-> FALSE, fin |-> TRUE]
<1>1. x \in WriteSkb /\ x.seq = 0
  BY DEF WriteSkb
<1>2. tcp_queue_fin(s) = tcp_queue_transmit_skb(s, x)
  BY DEF tcp_queue_fin
<1> HIDE DEF x
<1> QED
  BY <1>1, <1>2, QueueTransmitFlight

\* The buffers of one write() after the first wait behind it.
LEMMA SendFlight ==
    ASSUME NEW s \in Tsk, SendOK(s), FlightOK(s), s.state \in TextStates,
           NEW pos \in Nat, NEW len \in Nat \ {0}
    PROVE  FlightOK(tcp_send(s, pos, len))
<1> DEFINE n == (len + SMSS - 1) \div SMSS
           Skb(i) == [seq |-> 0, end_seq |-> 0,
                      dlen |-> MinOf(SMSS, len - (i - 1) * SMSS),
                      data |-> pos + (i - 1) * SMSS,
                      syn |-> FALSE, fin |-> FALSE]
           x == Skb(1)
           first == tcp_queue_transmit_skb(s, x)
           u == [i \in 1..(n - 1) |-> Skb(i + 1)]
           w == first.wq \o u
           b == [first EXCEPT !.wq = w]
           t == tcp_send(s, pos, len)
<1>1. n \in Nat \ {0} /\ \A i \in 0..n-1 : i * SMSS \in Nat /\ i * SMSS < len
  BY Cutting
<1>2. t = tcp_rearm_user_timeout(b)
  BY DEF tcp_send
<1>3. SameRead(s, t) /\ t.state = s.state
  BY SendRead, SendSend
<1> HIDE DEF n, t
<1>4. \A j \in 0..n-1 : MinOf(SMSS, len - j * SMSS) \in Nat /\ pos + j * SMSS \in Nat
  <2> SUFFICES ASSUME NEW j \in 0..n-1
               PROVE MinOf(SMSS, len - j * SMSS) \in Nat /\ pos + j * SMSS \in Nat
    OBVIOUS
  <2> DEFINE d == j * SMSS
  <2>1. d \in Nat /\ d < len /\ SMSS \in Nat
    BY <1>1, TcpConstants
  <2> HIDE DEF d
  <2>2. MinOf(SMSS, len - d) \in Nat /\ pos + d \in Nat
    BY <2>1 DEF MinOf
  <2> QED
    BY <2>2 DEF d
<1>5. \A i \in 1..n : Skb(i) \in WriteSkb /\ Skb(i).seq = 0
  <2> SUFFICES ASSUME NEW i \in 1..n PROVE Skb(i) \in WriteSkb /\ Skb(i).seq = 0
    OBVIOUS
  <2> DEFINE l == MinOf(SMSS, len - (i - 1) * SMSS)
             m == pos + (i - 1) * SMSS
  <2>1. i - 1 \in 0..n-1
    BY <1>1
  <2>2. l \in Nat /\ m \in Nat
    BY <1>4, <2>1
  <2>3. Skb(i) = [seq |-> 0, end_seq |-> 0, dlen |-> l, data |-> m,
                  syn |-> FALSE, fin |-> FALSE]
    OBVIOUS
  <2> HIDE DEF l, m, Skb
  <2> QED
    BY <2>2, <2>3 DEF WriteSkb
<1> HIDE DEF Skb
<1>6. x \in WriteSkb /\ x.seq = 0
  BY <1>1, <1>5
<1> HIDE DEF x
<1>7. first \in Tsk /\ InTurn(first.wq) /\ first.inflight > 0
  BY <1>6, QueueTransmitFlight
<1> HIDE DEF first
<1>8. first.wq \in Seq(WriteSkb)
  BY <1>7, Fields
<1>9. u \in Seq(WriteSkb) /\ \A i \in 1..Len(u) : u[i].seq = 0
  <2>1. n - 1 \in Nat /\ \A i \in 1..(n - 1) : i + 1 \in 1..n
    BY <1>1
  <2>2. \A i \in 1..(n - 1) : Skb(i + 1) \in WriteSkb /\ Skb(i + 1).seq = 0
    BY <1>5, <2>1
  <2> QED
    BY <2>1, <2>2
<1> HIDE DEF u
<1>10. w \in Seq(WriteSkb) /\ InTurn(w)
  BY <1>7, <1>8, <1>9, InTurnConcat
<1> HIDE DEF w
<1>11. b \in Tsk /\ b.wq = w /\ b.inflight = first.inflight
  BY <1>7, <1>10 DEF Tsk
<1> HIDE DEF b
<1>12. t.wq = w /\ t.inflight > 0
  BY <1>2, <1>7, <1>11, TimersQueue DEF SameQueue
<1>13. FlightOK(t)
  BY <1>3, <1>10, <1>12 DEF FlightOK, SameRead, Passive, TextStates
<1> QED
  BY <1>13 DEF t

\* An acknowledgment takes transmitted buffers off the head.
LEMMA CleanInTurn ==
    ASSUME NEW s \in Tsk, NEW una \in Nat, InTurn(s.wq)
    PROVE  InTurn(tcp_clean_rto_queue(s, una).wq)
<1> DEFINE S == {j \in 1..Len(s.wq) : s.wq[j].seq > 0 /\ s.wq[j].end_seq <= una}
           n == Leading(Len(s.wq), S)
           w == SubSeq(s.wq, n + 1, Len(s.wq))
           k == IF s.inflight > n THEN s.inflight - n ELSE 0
           a == [s EXCEPT !.wq = w, !.inflight = k]
           t == tcp_clean_rto_queue(s, una)
<1>1. s.wq \in Seq(WriteSkb) /\ Len(s.wq) \in Nat /\ s.inflight \in Nat
  BY Fields
<1>2. n \in 0..Len(s.wq)
  BY <1>1, LeadingSpec
<1>3. t = IF a.wq = << >> \/ a.inflight = 0 THEN tcp_stop_rto_timer(a) ELSE a
  BY DEF tcp_clean_rto_queue
<1> HIDE DEF n, t
<1>4. w \in Seq(WriteSkb) /\ InTurn(w)
  BY <1>1, <1>2, InTurnSuffix
<1>5. k \in Nat
  BY <1>1, <1>2
<1> HIDE DEF w, k
<1>6. a \in Tsk /\ a.wq = w
  BY <1>4, <1>5 DEF Tsk
<1> HIDE DEF a
<1>7. t.wq = w
  BY <1>3, <1>6, TimersQueue DEF SameQueue
<1> QED
  BY <1>4, <1>7 DEF t

\* The ACK of a segment keeps the rest of the queue in turn.
LEMMA ProcessAckInTurn ==
    ASSUME NEW s \in Tsk, NEW th \in InSegment, NEW r \in Nat, InTurn(s.wq)
    PROVE  InTurn(ProcessAck(s, th, r).wq)
<1> DEFINE a == IF s.state = "SYN_RECEIVED"
                THEN [s EXCEPT !.state = "ESTABLISHED"] ELSE s
           u == th.ack_seq
           b == [a EXCEPT !.snd_una = u]
           c == tcp_rtt(b, r)
           d == tcp_clean_rto_queue(c, u)
<1>1. u \in Nat
  BY DEF InSegment
<1>2. ProcessAck(s, th, r) = a \/ ProcessAck(s, th, r) = d
  BY DEF ProcessAck
<1> HIDE DEF u
<1>3. a \in Tsk /\ a.wq = s.wq
  BY DEF Tsk, TcpStates
<1> HIDE DEF a
<1>4. b \in Tsk /\ b.wq = s.wq
  BY <1>1, <1>3 DEF Tsk
<1> HIDE DEF b
<1>5. c \in Tsk /\ c.wq = s.wq
  BY <1>4 DEF tcp_rtt, Tsk
<1> HIDE DEF c
<1>6. InTurn(d.wq)
  BY <1>1, <1>5, CleanInTurn
<1> QED
  BY <1>2, <1>3, <1>6

\* An expected segment sends the next flight when the last has been acknowledged.
LEMMA SendMoreFlight ==
    ASSUME NEW s \in Tsk, SendOK(s), InTurn(s.wq), s.state \notin Passive,
           NEW th \in InSegment, NEW expected \in BOOLEAN,
           s.state \in TextStates => expected /\ s.rcv_nxt = IRS + 1
    PROVE  FlightOK(SendMoreOrAck(s, th, expected))
<1> DEFINE a == tcp_stop_delack_timer(s)
           pending == MinOf(Len(a.wq), 3)
           big == th.dlen > DELACK_LEN
           n == a.delacks + 1
           b == [a EXCEPT !.delacks = n]
           c == IF big /\ ~th.psh THEN b ELSE a
           d == tcp_send_next(a, pending)
           k == d.inflight + pending
           e == [d EXCEPT !.inflight = k]
           f == [c EXCEPT !.delacks = 0]
           g == [c EXCEPT !.delack = timer_add("delack")]
           t == SendMoreOrAck(s, th, expected)
<1>1. \/ t = s /\ s.state \notin TextStates
      \/ /\ pending > 0 /\ a.inflight = 0
         /\ t = tcp_rearm_rto_timer(e)
      \/ /\ ~(a.inflight = 0 /\ pending > 0)
         /\ t = tcp_send_ack(f) \/ t = g \/ t = c
  BY DEF SendMoreOrAck
<1>2. t.state = s.state /\ SameRead(s, t)
  BY SendMoreSend, SendMoreRead
<1> HIDE DEF t
<1>3. t.state \notin Passive /\ (t.state \in TextStates => t.rcv_nxt = IRS + 1)
  BY <1>2 DEF SameRead
<1>4. SameQueue(s, a) /\ a \in Tsk
  BY TimersQueue DEF SameQueue
<1> HIDE DEF a
<1>5. SendOK(a) /\ InTurn(a.wq)
  BY <1>4, SameQueueOK DEF SameQueue
<1>6. a.wq \in Seq(WriteSkb) /\ a.inflight \in Nat
  BY <1>4, Fields
<1>7. pending \in 0..3 /\ pending <= Len(a.wq) /\ (a.wq # << >> => pending > 0)
  <2> DEFINE l == Len(a.wq)
  <2>1. l \in Nat /\ (a.wq # << >> => l # 0)
    BY <1>6
  <2>2. pending = IF l <= 3 THEN l ELSE 3
    BY DEF MinOf
  <2> HIDE DEF l, pending
  <2>3. pending \in 0..3 /\ pending <= l /\ (a.wq # << >> => pending > 0)
    BY <2>1, <2>2
  <2> QED
    BY <2>3 DEF l
<1>8. n \in Nat
  BY <1>4, Fields
<1> HIDE DEF pending, big, n
<1>9. SameQueue(a, c) /\ c \in Tsk
  <2>1. SameQueue(a, b)
    BY <1>4, <1>8 DEF SameQueue, Tsk
  <2>2. SameQueue(a, a)
    BY <1>4 DEF SameQueue
  <2> HIDE DEF b
  <2> QED
    BY <2>1, <2>2 DEF SameQueue
<1> HIDE DEF c
<1>10. ASSUME pending > 0, a.inflight = 0, t = tcp_rearm_rto_timer(e)
       PROVE  InTurn(t.wq) /\ t.inflight > 0
  <2>1. pending \in 1..3
    BY <1>7, <1>10
  <2>2. Sent(a.wq) = {}
    <3>1. Cardinality(Sent(a.wq)) = 0
      BY <1>5, <1>10 DEF SendOK
    <3> QED
      BY <1>6, <3>1, SentFinite
  <2>3. a.snd_nxt > 0
    BY <1>5 DEF SendOK
  <2>4. /\ d \in Tsk /\ d.inflight = 0 /\ Sent(d.wq) = 1..pending
    BY <1>4, <1>7, <1>10, <2>1, <2>2, <2>3, SendNextSend
  <2> HIDE DEF d
  <2>5. k \in Nat /\ k > 0
    <3>1. d.inflight = 0
      BY <2>4
    <3> QED
      BY <2>1, <3>1
  <2> HIDE DEF k
  <2>6. e \in Tsk /\ e.wq = d.wq /\ e.inflight = k
    BY <2>4, <2>5 DEF Tsk
  <2> HIDE DEF e
  <2>7. t.wq = d.wq /\ t.inflight = k
    BY <1>10, <2>6, RearmRtoQueue DEF SameQueue
  <2>8. InTurn(d.wq)
    <3> SUFFICES ASSUME NEW i \in 1..Len(d.wq), d.wq[i].seq > 0, NEW j \in 1..i
                 PROVE  d.wq[j].seq > 0
      BY DEF InTurn
    <3>1. i \in 1..pending
      BY <2>4 DEF Sent
    <3>2. j \in 1..pending
      BY <2>1, <3>1
    <3> QED
      BY <2>4, <3>2 DEF Sent
  <2> QED
    BY <2>5, <2>7, <2>8
<1>11. ASSUME ~(a.inflight = 0 /\ pending > 0), t = tcp_send_ack(f) \/ t = g \/ t = c
       PROVE  InTurn(t.wq) /\ (t.wq # << >> => t.inflight > 0)
  <2>1. SameQueue(c, f) /\ f \in Tsk
    BY <1>9 DEF SameQueue, Tsk
  <2>2. SameQueue(c, g)
    BY <1>9, SlotTyping DEF SameQueue, Tsk, TimerKinds
  <2> HIDE DEF f, g
  <2>3. SameQueue(f, tcp_send_ack(f))
    BY <2>1, WakingQueue
  <2>4. t.wq = a.wq /\ t.inflight = a.inflight
    BY <1>9, <1>11, <2>1, <2>2, <2>3 DEF SameQueue
  <2> QED
    BY <1>5, <1>6, <1>7, <1>11, <2>4
<1>12. FlightOK(t)
  BY <1>1, <1>3, <1>10, <1>11 DEF FlightOK
<1> QED
  BY <1>12 DEF t

\* A whole silent segment.
LEMMA SegmentFlight ==
    ASSUME NEW s \in Tsk, SendOK(s), FlightOK(s),
           s.state \notin Before, s.state # "SYN_RECEIVED",
           NEW th \in InSegment, Silent(th), ~th.syn, ~th.rst, NEW r \in Nat
    PROVE  LET a == ProcessAck(s, th, r) IN
           FlightOK(tcp_done(a)) /\ FlightOK(ProcessRest(a, th))
<1> DEFINE a == ProcessAck(s, th, r)
           b == QueueEmptied(a, th)
           expected == th.seq = b.rcv_nxt
           e == SendMoreOrAck(b, th, expected)
<1>1. /\ a \in Tsk /\ SendOK(a) /\ InTurn(a.wq) /\ a.state = s.state
      /\ a.rcv_nxt = s.rcv_nxt
  <2>1. SendOK(a) /\ a \in Tsk /\ a.state = s.state
    BY ProcessAckSend, ProcessAckKeeps
  <2>2. InTurn(a.wq)
    BY ProcessAckInTurn DEF FlightOK
  <2>3. SameRead(s, a)
    BY ProcessAckRead
  <2> HIDE DEF a
  <2> QED
    BY <2>1, <2>2, <2>3 DEF SameRead
<1>2. ProcessRest(a, th) = e
  <2>1. ProcessText(b, th) = b
    BY DEF Silent, ProcessText
  <2>2. ProcessFin(b, th, expected) = b
    BY DEF Silent, ProcessFin
  <2> QED
    BY <2>1, <2>2 DEF ProcessRest
<1> HIDE DEF a
<1>3. a.state \in Synchronized /\ a.state \notin Passive
  BY <1>1, Fields DEF Synchronized, Before, TcpStates, FlightOK
<1>4. FlightOK(tcp_done(a))
  <2>1. SameQueue(a, tcp_done(a)) /\ tcp_done(a).state = "CLOSING"
    BY <1>1, DoneQueue
  <2> QED
    BY <1>1, <2>1 DEF FlightOK, SameQueue, Passive, TextStates
<1>5. SameQueue(a, b) /\ Keeps(a, b)
  BY <1>1, <1>3, QueueEmptiedSend, QueueEmptiedKeeps
<1>6. b.state \notin Passive
  BY <1>1, <1>3, QueueEmptiedSend DEF Passive
<1> HIDE DEF b
<1>7. b \in Tsk /\ SendOK(b) /\ InTurn(b.wq)
  BY <1>1, <1>5, SameQueueOK DEF SameQueue
<1>8. b.state \in TextStates => expected /\ b.rcv_nxt = IRS + 1
  <2> SUFFICES ASSUME b.state \in TextStates PROVE expected /\ b.rcv_nxt = IRS + 1
    OBVIOUS
  <2>1. a.state \in Receiving /\ b.rcv_nxt = a.rcv_nxt
    BY <1>5 DEF Keeps, Receiving
  <2>2. s.state \in TextStates
    BY <1>1, <2>1 DEF Receiving
  <2>3. s.rcv_nxt = IRS + 1 /\ th.seq = IRS + 1
    BY <2>2 DEF FlightOK, Silent
  <2> QED
    BY <1>1, <2>1, <2>3
<1>9. expected \in BOOLEAN
  OBVIOUS
<1> HIDE DEF expected
<1>10. FlightOK(e)
  BY <1>6, <1>7, <1>8, <1>9, SendMoreFlight
<1>11. FlightOK(tcp_done(a)) /\ FlightOK(ProcessRest(a, th))
  BY <1>2, <1>4, <1>10
<1> QED
  BY <1>11 DEF a

\* The SYN/ACK: the SYN leaves the queue, which is then empty.
LEMMA SynsentFlight ==
    ASSUME NEW s \in Tsk, SendOK(s), LifeOK(s), FlightOK(s), s.state = "SYN_SENT",
           NEW th \in InSegment, th.syn => th.ack, SegmentOK(th)
    PROVE  FlightOK(tcp_synsent(s, th))
<1> DEFINE m == th.seq + 1
           a == [s EXCEPT !.rcv_nxt = m]
           u == th.ack_seq
           a2 == [a EXCEPT !.snd_una = u]
           b == tcp_clean_rto_queue(a2, u)
           v == b.snd_nxt
           r == RTO_INIT
           c == [b EXCEPT !.state = "ESTABLISHED", !.snd_una = v,
                          !.backoff = 0, !.rto = r]
           c1 == tcp_send_ack(c)
           c2 == tcp_rearm_user_timeout(c1)
           d == sock_connected(c2)
<1>1. /\ m \in Nat /\ u \in Nat /\ r \in Nat /\ ISS \in Nat /\ s.snd_nxt \in Nat
      /\ th.syn => m = IRS + 1
  BY TcpConstants, Fields DEF InSegment, SegmentOK
<1>2. \/ tcp_synsent(s, th) = s
      \/ tcp_synsent(s, th) = tcp_reset(s)
      \/ u > ISS /\ th.syn /\ b.snd_una > ISS /\ tcp_synsent(s, th) = d
      \/ u > ISS /\ ~(b.snd_una > ISS)
  <2>1. ASSUME th.ack /\ (th.ack_seq <= ISS \/ th.ack_seq > s.snd_nxt)
        PROVE  tcp_synsent(s, th) = s
    BY <2>1 DEF tcp_synsent
  <2>2. ASSUME ~(th.ack /\ (th.ack_seq <= ISS \/ th.ack_seq > s.snd_nxt)), th.rst
        PROVE  tcp_synsent(s, th) = tcp_reset(s)
    BY <2>2 DEF tcp_synsent
  <2>3. ASSUME ~(th.ack /\ (th.ack_seq <= ISS \/ th.ack_seq > s.snd_nxt)), ~th.rst, ~th.syn
        PROVE  tcp_synsent(s, th) = s
    BY <2>3 DEF tcp_synsent
  <2>4. ASSUME ~(th.ack /\ (th.ack_seq <= ISS \/ th.ack_seq > s.snd_nxt)), ~th.rst,
               th.syn, b.snd_una > ISS
        PROVE  tcp_synsent(s, th) = d
    BY <2>4, Zenon DEF tcp_synsent
  <2>5. th.ack /\ ~(th.ack_seq <= ISS \/ th.ack_seq > s.snd_nxt) => u > ISS
    BY <1>1
  <2> QED
    BY <2>1, <2>2, <2>3, <2>4, <2>5
<1> HIDE DEF m, u, r
<1>3. SameQueue(s, a) /\ a \in Tsk /\ a.rcv_nxt = m
  BY <1>1 DEF Tsk, SameQueue
<1> HIDE DEF a
<1>4. SameQueue(a, a2) /\ a2 \in Tsk /\ a2.snd_una = u /\ a2.rcv_nxt = m
  BY <1>1, <1>3 DEF Tsk, SameQueue
<1> HIDE DEF a2
<1>5. SendOK(a2) /\ a2.wq = s.wq
  BY <1>3, <1>4, SameQueueOK DEF SameQueue
<1>6. b \in Tsk /\ b.snd_una = u /\ b.rcv_nxt = m
  BY <1>1, <1>4, <1>5, CleanSend, CleanTimers, CleanKeeps
<1>7. ASSUME u > ISS PROVE b.wq = << >>
  <2>1. s.wq \in Seq(WriteSkb) /\ Len(s.wq) = 1 /\ s.wq[1].seq > 0 /\ s.wq[1].end_seq <= ISS
    BY Fields DEF LifeOK, SynOK
  <2>2. s.wq[1] \in WriteSkb
    BY <2>1
  <2>3. s.wq[1].end_seq \in Nat
    BY <2>2 DEF WriteSkb
  <2>4. s.wq[1].end_seq <= u
    BY <1>1, <1>7, <2>1, <2>3
  <2> QED
    BY <1>1, <1>4, <1>5, <2>1, <2>4, CleanTimers
<1> HIDE DEF b
<1>8. v \in Nat
  BY <1>6, Fields
<1> HIDE DEF v
<1>9. ASSUME u > ISS, th.syn PROVE FlightOK(d)
  <2>1. /\ c \in Tsk /\ c.state = "ESTABLISHED" /\ c.wq = << >>
        /\ c.rcv_nxt = IRS + 1
    BY <1>1, <1>6, <1>7, <1>8, <1>9 DEF Tsk, TcpStates
  <2> HIDE DEF c
  <2>2. SameQueue(c, c1) /\ c1 \in Tsk /\ c1.state = "ESTABLISHED" /\ SameRead(c, c1)
    BY <2>1, WakingQueue, LightRead DEF SameQueue
  <2> HIDE DEF c1
  <2>3. SameQueue(c1, c2) /\ c2 \in Tsk /\ c2.state = "ESTABLISHED" /\ SameRead(c1, c2)
    BY <2>2, TimersQueue, TimersRead DEF SameQueue
  <2> HIDE DEF c2
  <2>4. SameQueue(c2, d) /\ d.state = "ESTABLISHED"
    BY <2>3, WakingQueue
  <2>5. d.rcv_nxt = c2.rcv_nxt
    BY <2>3 DEF sock_connected, Tsk
  <2> HIDE DEF d
  <2>6. d.wq = << >> /\ d.rcv_nxt = IRS + 1
    BY <2>1, <2>2, <2>3, <2>4, <2>5 DEF SameQueue, SameRead
  <2> QED
    BY <2>4, <2>6 DEF FlightOK, InTurn, Passive
<1>10. FlightOK(tcp_reset(s))
  BY EndingQueue DEF FlightOK, SameQueue, Passive, TextStates
<1> HIDE DEF d
<1> QED
  BY <1>1, <1>2, <1>6, <1>9, <1>10

\* What such a peer has sent.
SilentPeer(p) == p.snd = 0 /\ \A h \in p.hist : h.snd = 0

\* All its segments are silent.
LEMMA InFlightSilent ==
    ASSUME OneWay, SilentPeer(peer), NEW th \in InFlight
    PROVE  Silent(th)
<1>1. IRS \in Nat /\ PeerBytes = 0
  BY TcpConstants, TcpRunConstants DEF OneWay
<1>2. CASE th \in Handshake
  <2>1. th.psh = FALSE /\ th.dlen = 0 /\ th.fin = FALSE /\ (th.syn = TRUE \/ th.rst = TRUE)
    BY <1>2 DEF Handshake, NoFlags
  <2> QED
    BY <2>1 DEF Silent
<1>3. CASE th \in Resets
  <2>1. th.psh = FALSE /\ th.dlen = 0 /\ th.fin = FALSE /\ th.rst = TRUE
    BY <1>3 DEF Resets, NoFlags
  <2> QED
    BY <2>1 DEF Silent
<1>4. ASSUME NEW p \in peer.hist, th \in PeerData(p) PROVE FALSE
  <2>1. PICK x \in (0..PeerBytes) \X (0..PeerBytes) \X BOOLEAN :
           x[1] < x[2] /\ x[2] <= p.snd
    BY <1>4 DEF PeerData
  <2>2. x[1] \in 0..0 /\ x[2] \in 0..0
    BY <1>1, <2>1
  <2> QED
    BY <2>1, <2>2
<1>5. ASSUME NEW p \in peer.hist, th \in PeerFin(p) PROVE FALSE
  <2>1. p.snd = 0
    BY DEF SilentPeer
  <2> QED
    BY <1>1, <1>5, <2>1 DEF PeerFin
<1>6. ASSUME NEW p \in peer.hist, th \in PeerAck(p) PROVE Silent(th)
  <2>1. p.snd = 0
    BY DEF SilentPeer
  <2>2. /\ th.psh = FALSE /\ th.dlen = 0 /\ th.fin = FALSE
        /\ th.seq = IRS + 1 + p.snd
    BY <1>6 DEF PeerAck, NoFlags
  <2> QED
    BY <1>1, <2>1, <2>2 DEF Silent
<1> QED
  BY <1>2, <1>3, <1>4, <1>5, <1>6 DEF InFlight

\* It stays silent.
LEMMA SilentStep ==
    ASSUME TypeOK, OneWay, SilentPeer(peer), [Next]_vars
    PROVE  SilentPeer(peer')
<1>1. peer \in PeerType /\ PeerBytes = 0 /\ ~PeerCloses
  BY DEF TypeOK, OneWay
<1>2. CASE UNCHANGED peer
  BY <1>2
<1>3. CASE PeerNext
  <2>1. ~PeerSend
    BY <1>1 DEF PeerSend, SilentPeer
  <2>2. CASE PeerReset
    <3> DEFINE r == IRS + 1 + peer.snd
    <3>1. peer' = [peer EXCEPT !.rst = r]
      BY <2>2 DEF PeerReset
    <3> HIDE DEF r
    <3> QED
      BY <1>1, <3>1 DEF PeerType, SilentPeer
  <2>3. ASSUME NEW seg \in tsk.wire, PeerReceive(seg) PROVE SilentPeer(peer')
    <3> DEFINE m == seg.seq + 1
               k == {[snd |-> 0, ack |-> seg.seq + 1]}
               end == seg.seq + seg.dlen + (IF seg.fin THEN 1 ELSE 0)
               skip == peer.rcv_nxt - seg.seq
               g == peer.got \o [i \in 1..(seg.dlen - skip) |-> seg.data + skip + i - 1]
               h == peer.hist \cup {[snd |-> peer.snd, ack |-> end]}
               f == seg.fin
    <3>1. \/ peer' = [peer EXCEPT !.rcv_nxt = m, !.hist = k]
          \/ peer' = [peer EXCEPT !.rcv_nxt = end, !.got = g, !.fin = f, !.hist = h]
      BY <2>3, Zenon DEF PeerReceive
    <3>2. \A x \in k : x.snd = 0
      OBVIOUS
    <3> HIDE DEF end
    <3>3. \A x \in h : x.snd = 0
      BY DEF SilentPeer
    <3> HIDE DEF m, k, skip, g, h, f
    <3> QED
      BY <1>1, <3>1, <3>2, <3>3 DEF PeerType, SilentPeer
  <2> QED
    BY <1>3, <2>1, <2>2, <2>3 DEF PeerNext
<1>4. CASE AppNext \/ TimerNext \/ CoreNext
  <2>1. UNCHANGED peer
    BY <1>4 DEF AppNext, Connect, ConnectWoken, ConnectFree, Write, ReadAtEnd, Read,
       CopySkb, CopyDone, ReadWoken, Close,
       TimerNext, Expire, ExpireUnowned, RunHandler,
       CoreNext, RcvSynSent, RcvUnacceptable, RcvReset, RcvSegment, Arrives
  <2> QED
    BY <2>1
<1> QED
  BY <1>2, <1>3, <1>4 DEF Next, vars

\* connect() and its return.
LEMMA ConnectFlight ==
    ASSUME TypeInv, tsk' \in Tsk, LifeOK(tsk'), app.pc # "start" => FlightOK(tsk),
           Connect \/ ConnectWoken \/ ConnectFree
    PROVE  FlightOK(tsk')
<1>1. tsk \in Tsk
  BY DEF TypeInv, TypeOK
<1>2. CASE Connect
  <2> DEFINE a == tcp_connect(tsk)
             w == IF app.nonblock THEN "idle" ELSE "asleep"
  <2>1. tsk = NewSock /\ tsk.state = "CLOSE"
    BY <1>2 DEF TypeInv, Fresh, Connect, NewSock
  <2>2. a.state = "SYN_SENT" /\ a \in Tsk
    BY <1>1, <2>1, ConnectSend, ConnectKeeps
  <2>3. tsk' = [a EXCEPT !.ss = "CONNECTING", !.err = "EINPROGRESS", !.sleep = w]
    BY <1>2 DEF Connect
  <2> HIDE DEF a, w
  <2>4. tsk'.state = "SYN_SENT"
    BY <2>2, <2>3 DEF Tsk
  <2>5. tsk'.wq \in Seq(WriteSkb) /\ Len(tsk'.wq) = 1 /\ tsk'.wq[1].seq > 0
    BY <2>4, Fields DEF LifeOK, SynOK
  <2>6. InTurn(tsk'.wq)
    BY <2>5 DEF InTurn
  <2> QED
    BY <2>4, <2>6 DEF FlightOK, Passive, TextStates
<1>3. CASE ConnectWoken \/ ConnectFree
  <2> DEFINE c == IF tsk.err = "0" THEN "CONNECTED" ELSE tsk.ss
  <2>1. /\ app.pc # "start"
        /\ \/ tsk' = [tsk EXCEPT !.sleep = "idle", !.ss = c]
           \/ tsk' = [tsk EXCEPT !.freed = TRUE]
    BY <1>3 DEF ConnectWoken, ConnectFree
  <2> HIDE DEF c
  <2>2. /\ tsk'.wq = tsk.wq /\ tsk'.inflight = tsk.inflight
        /\ tsk'.state = tsk.state /\ tsk'.rcv_nxt = tsk.rcv_nxt
    BY <1>1, <2>1 DEF Tsk
  <2> QED
    BY <2>1, <2>2 DEF FlightOK
<1> QED
  BY <1>2, <1>3

\* write() and close().
LEMMA WriteCloseFlight ==
    ASSUME TypeOK, SendOK(tsk), FlightOK(tsk), tsk.state # "SYN_RECEIVED",
           (\E len \in WriteSizes : Write(len)) \/ Close
    PROVE  FlightOK(tsk')
<1>1. tsk \in Tsk /\ wrote \in Nat
  BY DEF TypeOK
<1>2. ASSUME NEW len \in WriteSizes, Write(len) PROVE FlightOK(tsk')
  <2>1. len \in Nat \ {0} /\ wrote + 1 \in Nat
    BY <1>1, TcpRunConstants
  <2>2. tsk' = tcp_send(tsk, wrote + 1, len) /\ tsk.state \in {"ESTABLISHED", "CLOSE_WAIT"}
    BY <1>2 DEF Write
  <2>3. tsk.state \in TextStates
    BY <2>2 DEF FlightOK, Passive, TextStates
  <2> QED
    BY <1>1, <2>1, <2>2, <2>3, SendFlight
<1>3. CASE Close
  <2> DEFINE a == [tsk EXCEPT !.state = "FIN_WAIT_1"]
             b == [tsk EXCEPT !.err = "EBADF"]
  <2>1. \/ tsk' = tcp_done(tsk)
        \/ tsk.state = "ESTABLISHED" /\ tsk' = tcp_queue_fin(a)
        \/ tsk.state = "CLOSE_WAIT"
        \/ tsk' = b
    BY <1>3 DEF Close
  <2>2. FlightOK(tcp_done(tsk))
    BY <1>1, DoneQueue DEF FlightOK, SameQueue, Passive, TextStates
  <2>3. ASSUME tsk.state = "ESTABLISHED" PROVE FlightOK(tcp_queue_fin(a))
    <3>1. /\ a \in Tsk /\ a.state = "FIN_WAIT_1" /\ a.rcv_nxt = tsk.rcv_nxt
          /\ a.wq = tsk.wq /\ a.inflight = tsk.inflight /\ a.snd_nxt = tsk.snd_nxt
      BY <1>1 DEF Tsk, TcpStates
    <3> HIDE DEF a
    <3>2. FlightOK(a) /\ SendOK(a) /\ a.state \in TextStates
      BY <2>3, <3>1 DEF FlightOK, SendOK, Passive, TextStates
    <3> QED
      BY <3>1, <3>2, QueueFinFlight
  <2>4. FlightOK(b)
    <3>1. /\ b.state = tsk.state /\ b.rcv_nxt = tsk.rcv_nxt
          /\ b.wq = tsk.wq /\ b.inflight = tsk.inflight
      BY <1>1 DEF Tsk
    <3> HIDE DEF b
    <3> QED
      BY <3>1 DEF FlightOK
  <2> HIDE DEF a, b
  <2> QED
    BY <2>1, <2>2, <2>3, <2>4 DEF FlightOK, Passive
<1> QED
  BY <1>2, <1>3

\* read() leaves the write queue alone.
LEMMA ReadsQueue ==
    ASSUME TypeOK,
           \/ ReadAtEnd \/ (\E len \in ReadSizes : Read(len))
           \/ CopySkb \/ CopyDone \/ ReadWoken
    PROVE  /\ tsk'.wq = tsk.wq /\ tsk'.inflight = tsk.inflight
           /\ tsk'.state = tsk.state /\ tsk'.rcv_nxt = tsk.rcv_nxt
<1>1. tsk \in Tsk
  BY DEF TypeOK
<1>2. CASE CopySkb
  BY <1>2, CopySkbQueue, CopySkbEffect DEF SameQueue
<1>3. CASE ReadAtEnd \/ (\E len \in ReadSizes : Read(len)) \/ ReadWoken
  <2>1. \/ tsk' = tsk
        \/ tsk' = [tsk EXCEPT !.fin = FALSE]
        \/ tsk' = [tsk EXCEPT !.recv_wait = "idle"]
    BY <1>3 DEF ReadAtEnd, Read, ReadWoken
  <2> QED
    BY <1>1, <2>1 DEF Tsk
<1>4. CASE CopyDone
  <2> DEFINE p == tsk.poll \ {"IN"}
             s == IF tsk.rq = << >> /\ ~tsk.fin
                  THEN [tsk EXCEPT !.poll = p] ELSE tsk
             a == [s EXCEPT !.psh = FALSE]
             b == [s EXCEPT !.recv_wait = "asleep"]
             Same(t) == /\ t.wq = tsk.wq /\ t.inflight = tsk.inflight
                        /\ t.state = tsk.state /\ t.rcv_nxt = tsk.rcv_nxt
  <2>1. tsk' = tcp_rearm_user_timeout(a) \/ tsk' = s \/ tsk' = b
    BY <1>4 DEF CopyDone
  <2>2. p \in SUBSET PollEvents
    BY <1>1, Fields
  <2> HIDE DEF p
  <2>3. s \in Tsk /\ Same(s)
    BY <1>1, <2>2 DEF Tsk
  <2> HIDE DEF s
  <2>4. a \in Tsk /\ Same(a) /\ Same(b)
    BY <2>3 DEF Tsk
  <2> HIDE DEF a, b
  <2>5. SameQueue(a, tcp_rearm_user_timeout(a)) /\ SameRead(a, tcp_rearm_user_timeout(a))
        /\ tcp_rearm_user_timeout(a).state = a.state
    BY <2>4, TimersQueue, TimersRead
  <2> QED
    BY <2>1, <2>3, <2>4, <2>5 DEF SameQueue, SameRead
<1> QED
  BY <1>2, <1>3, <1>4

\* So it leaves what is in flight alone.
LEMMA ReadFlight ==
    ASSUME TypeOK, FlightOK(tsk),
           \/ ReadAtEnd \/ (\E len \in ReadSizes : Read(len))
           \/ CopySkb \/ CopyDone \/ ReadWoken
    PROVE  FlightOK(tsk')
BY ReadsQueue DEF FlightOK

\* Expiring timers and their handlers leave the write queue alone.
LEMMA TimerQueue ==
    ASSUME TypeOK, TimerNext
    PROVE  SameQueue(tsk, tsk')
<1>1. tsk \in Tsk /\ tsk.thread \in [TimerKinds -> Nat] /\ tsk.armed \in [TimerKinds -> Nat]
  BY Fields DEF TypeOK
<1>2. tsk' \in Tsk
  BY TimerSteps DEF QuietStep, TypeOK
<1>3. ASSUME NEW slot \in {"retransmit", "delack", "linger"}, Expire(slot)
      PROVE  SameQueue(tsk, tsk')
  <2> DEFINE h == [tsk.thread EXCEPT ![tsk[slot].kind] = @ + 1]
             e == [tsk[slot] EXCEPT !.fired = TRUE]
  <2>1. tsk' = [tsk EXCEPT ![slot] = e, !.thread = h]
    BY <1>3 DEF Expire
  <2> HIDE DEF e, h
  <2> QED
    BY <1>1, <1>2, <2>1 DEF Tsk, SameQueue
<1>4. ASSUME NEW kind \in TimerKinds, ExpireUnowned(kind)
      PROVE  SameQueue(tsk, tsk')
  <2>1. PICK m, h : tsk' = [tsk EXCEPT !.armed = m, !.thread = h]
    BY <1>4 DEF ExpireUnowned
  <2> QED
    BY <1>1, <1>2, <2>1 DEF Tsk, SameQueue
<1>5. ASSUME NEW kind \in TimerKinds, RunHandler(kind)
      PROVE  SameQueue(tsk, tsk')
  <2> DEFINE h == [tsk.thread EXCEPT ![kind] = @ - 1]
             s == [tsk EXCEPT !.thread = h]
             c == [s EXCEPT !.linger = NoTimer]
             d == [s EXCEPT !.freed = TRUE]
  <2>1. tsk.thread[kind] > 0
    BY <1>5 DEF RunHandler
  <2>2. h \in [TimerKinds -> Nat]
    BY <1>1, <2>1
  <2>3. tsk' = Handler(kind, s)
    BY <1>5 DEF RunHandler
  <2> HIDE DEF h
  <2>4. SameQueue(tsk, s) /\ s \in Tsk
    BY <1>1, <2>2 DEF SameQueue, Tsk
  <2> HIDE DEF s
  <2>5. SameQueue(s, c) /\ c \in Tsk /\ SameQueue(s, d)
    BY <2>4, SlotTyping DEF SameQueue, Tsk
  <2>6. \/ tsk' = tcp_connect_rto(s)
        \/ tsk' = tcp_retransmission_timeout(s)
        \/ tsk' = tcp_send_delack(s)
        \/ tsk' = tcp_abort(c)
        \/ tsk' = tcp_done(c)
        \/ tsk' = d
    BY <2>3 DEF Handler, CancelLinger, TimerKinds
  <2> HIDE DEF c, d
  <2>7. SameQueue(s, tsk')
    BY <2>4, <2>5, <2>6, ConnectRtoQueue, RetransmissionQueue, SendDelackQueue,
       EndingQueue, DoneQueue, SameQueueTransitive
  <2> QED
    BY <2>4, <2>7, SameQueueTransitive
<1> QED
  BY <1>3, <1>4, <1>5 DEF TimerNext

\* An arriving segment.
LEMMA CoreFlight ==
    ASSUME TypeOK, SendOK(tsk), LifeOK(tsk), FlightOK(tsk), OneWay, SilentPeer(peer),
           peer.mode # "simopen", CoreNext
    PROVE  FlightOK(tsk')
<1>1. tsk \in Tsk /\ peer \in PeerType
  BY DEF TypeOK
<1>2. PICK th \in InFlight :
         \/ RcvSynSent(th) \/ RcvUnacceptable(th) \/ RcvReset(th)
         \/ \E r \in RttSamples : RcvSegment(th, r)
  BY DEF CoreNext
<1>3. th \in InSegment /\ SegmentOK(th) /\ Silent(th) /\ (th.syn => th.ack)
  BY <1>1, InFlightTyping, InFlightPlaced, InFlightSilent, SynAcked
<1>4. tsk.state # "SYN_RECEIVED" /\ tsk.state # "CLOSE"
  BY <1>2 DEF LifeOK, SynOK, RcvSynSent, RcvUnacceptable, RcvReset, RcvSegment, Arrives
<1>5. CASE RcvSynSent(th)
  BY <1>1, <1>3, <1>5, SynsentFlight DEF RcvSynSent
<1>6. CASE RcvUnacceptable(th)
  <2>1. tsk' = tcp_send_ack(tsk)
    BY <1>6 DEF RcvUnacceptable
  <2>2. SameRead(tsk, tsk') /\ SameQueue(tsk, tsk')
    BY <1>1, <2>1, LightRead, WakingQueue
  <2> QED
    BY <1>1, <1>4, <2>2, SameFlight
<1>7. CASE RcvReset(th)
  <2> DEFINE a == tcp_enter_time_wait(tsk)
  <2>1. tsk' = tcp_recv_notify(a)
    BY <1>7 DEF RcvReset
  <2>2. a \in Tsk /\ a.wq = tsk.wq /\ a.state = "TIME_WAIT"
    BY <1>1, EndingQueue DEF SameQueue
  <2> HIDE DEF a
  <2>3. tsk'.wq = tsk.wq /\ tsk'.state = "TIME_WAIT"
    BY <2>1, <2>2, WakingQueue DEF SameQueue
  <2> QED
    BY <2>3 DEF FlightOK, Passive, TextStates
<1>8. ASSUME NEW r \in RttSamples, RcvSegment(th, r) PROVE FlightOK(tsk')
  <2> DEFINE a == ProcessAck(tsk, th, r)
  <2>1. r \in Nat
    BY TcpRunConstants
  <2>2. tsk' = tcp_done(a) \/ tsk' = ProcessRest(a, th)
    BY <1>8 DEF RcvSegment
  <2>3. tsk.state \notin Before /\ ~th.syn /\ ~th.rst
    BY <1>4, <1>8 DEF RcvSegment, Before
  <2>4. FlightOK(tcp_done(a)) /\ FlightOK(ProcessRest(a, th))
    BY <1>1, <1>3, <1>4, <2>1, <2>3, SegmentFlight
  <2> HIDE DEF a
  <2> QED
    BY <2>2, <2>4
<1> QED
  BY <1>2, <1>5, <1>6, <1>7, <1>8

----------------------------------------------------------------------------

\* The inductive invariant: as long as the peer sends nothing, FlightOK.
FlightInv ==
    /\ LifeInv
    /\ OneWay /\ peer.mode # "simopen" =>
          SilentPeer(peer) /\ (app.pc # "start" => FlightOK(tsk))

\* The step of the induction.
LEMMA FlightStep ==
    ASSUME FlightInv, [Next]_vars
    PROVE  FlightInv'
<1>1. /\ LifeInv /\ LifeInv' /\ ConnInv /\ TypeInv /\ TypeOK /\ TypeOK'
      /\ peer'.mode = peer.mode
  <2>1. LifeInv /\ LifeInv'
    BY LifeStep DEF FlightInv
  <2>2. TypeOK
    BY <2>1 DEF LifeInv, ConnInv, TypeInv
  <2> QED
    BY <2>1, <2>2, ModeFixed DEF LifeInv, ConnInv, TypeInv
<1> SUFFICES ASSUME OneWay, peer.mode # "simopen"
             PROVE  SilentPeer(peer') /\ (app'.pc # "start" => FlightOK(tsk'))
  BY <1>1 DEF FlightInv
<1>2. SilentPeer(peer) /\ (app.pc # "start" => FlightOK(tsk))
  BY DEF FlightInv
<1>3. SilentPeer(peer')
  BY <1>1, <1>2, SilentStep
<1> SUFFICES ASSUME app'.pc # "start" PROVE FlightOK(tsk')
  BY <1>3
<1>4. /\ tsk \in Tsk /\ tsk' \in Tsk /\ LifeOK(tsk')
      /\ app.pc # "start" => SendOK(tsk) /\ LifeOK(tsk) /\ tsk.state # "SYN_RECEIVED"
  BY <1>1 DEF TypeOK, LifeInv, ConnInv, LifeOK, SynOK
<1>5. ASSUME UNCHANGED << tsk, app >> PROVE FlightOK(tsk')
  BY <1>2, <1>5
<1>6. CASE UNCHANGED vars
  BY <1>5, <1>6 DEF vars
<1>7. CASE PeerNext
  BY <1>1, <1>5, <1>7, PeerSteps
<1>8. CASE AppNext
  <2>1. CASE Connect \/ ConnectWoken \/ ConnectFree
    BY <1>1, <1>2, <1>4, <2>1, ConnectFlight
  <2>2. CASE (\E len \in WriteSizes : Write(len)) \/ Close
    <3>1. app.pc # "start"
      BY <2>2 DEF Write, Close
    <3> QED
      BY <1>1, <1>2, <1>4, <2>2, <3>1, WriteCloseFlight
  <2>3. CASE \/ ReadAtEnd \/ (\E len \in ReadSizes : Read(len))
             \/ CopySkb \/ CopyDone \/ ReadWoken
    <3>1. app.pc # "start"
      BY <2>3 DEF ReadAtEnd, Read, CopySkb, CopyDone, ReadWoken
    <3> QED
      BY <1>1, <1>2, <2>3, <3>1, ReadFlight
  <2> QED
    BY <1>8, <2>1, <2>2, <2>3 DEF AppNext
<1>9. CASE TimerNext
  <2>1. SameQueue(tsk, tsk') /\ SameRead(tsk, tsk') /\ app' = app
    BY <1>1, <1>9, TimerQueue, TimerRead
  <2> QED
    BY <1>2, <1>4, <2>1, SameFlight
<1>10. CASE CoreNext
  <2>1. app' = app
    BY <1>10 DEF CoreNext, RcvSynSent, RcvUnacceptable, RcvReset, RcvSegment, Arrives
  <2> QED
    BY <1>1, <1>2, <1>4, <1>10, <2>1, CoreFlight
<1> QED
  BY <1>6, <1>7, <1>8, <1>9, <1>10 DEF Next

\* While the peer neither sends data nor closes, a retransmission timer runs, or
\* its handler is about to, whenever anything is unacknowledged: whatever is
\* lost, repeated or acknowledged late, whatever expires, and for every size of
\* the writes, the windows and the retry limits.
THEOREM UploadsTimed == Spec => [](OneWay /\ peer.mode # "simopen" => UnackedTimed)
<1>1. Init => FlightInv
  <2> SUFFICES ASSUME Init PROVE FlightInv
    OBVIOUS
  <2>1. LifeInv /\ app.pc = "start"
    BY TypeInit DEF Init, ConnInv, LifeInv
  <2>2. peer.snd = 0 /\ peer.hist = {}
    BY DEF Init
  <2> QED
    BY <2>1, <2>2 DEF FlightInv, SilentPeer
<1>2. FlightInv /\ [Next]_vars => FlightInv'
  BY FlightStep
<1>3. FlightInv => (OneWay /\ peer.mode # "simopen" => UnackedTimed)
  <2> SUFFICES ASSUME FlightInv, OneWay, peer.mode # "simopen", tsk.inflight > 0,
                      ~Collecting, tsk.state # "TIME_WAIT", ~tsk.freed
               PROVE  Timed(tsk)
    BY DEF UnackedTimed, Timed, RtoKind
  <2>1. ConnInv /\ TypeInv /\ tsk \in Tsk
    BY DEF FlightInv, LifeInv, ConnInv, TypeInv, TypeOK
  <2>2. app.pc # "start"
    BY <2>1 DEF TypeInv, Fresh, NewSock
  <2>3. SendOK(tsk) /\ LifeOK(tsk) /\ InTurn(tsk.wq)
    BY <2>2 DEF FlightInv, LifeInv, ConnInv, FlightOK
  <2>4. tsk.wq # << >> /\ tsk.wq[1].seq > 0
    BY <2>1, <2>3, FirstInTurn
  <2> QED
    BY <2>3, <2>4 DEF LifeOK, HeadTimed, Doomed, Collecting
<1> QED
  BY <1>1, <1>2, <1>3, PTL DEF Spec

----------------------------------------------------------------------------
(***************************************************************************)
(* Part 4.  What read() gives the application implements ByteStream.       *)
(* Every step must be mapped, and three things can go wrong: bytes that    *)
(* nobody sent (Within), an end of file before the last byte (Passive, PSH *)
(* and EofOK), and an end of file because of our own FIN (Unclosed).       *)
(***************************************************************************)

\* The states an application that has not closed is never in.
Finishing == {"FIN_WAIT_1", "FIN_WAIT_2", "LAST_ACK"}

\* No FIN waits in the write queue w.
NoFin(w) == \A i \in 1..Len(w) : w[i].fin = FALSE

\* A socket whose FIN was not queued.
Unclosed(s) == NoFin(s.wq) /\ s.state \notin Finishing

\* What an operation leaves in the write queue has no FIN if nothing had.
LEMMA NoFinConcat ==
    ASSUME NEW w \in Seq(WriteSkb), NEW u \in Seq(WriteSkb), NoFin(w), NoFin(u)
    PROVE  NoFin(w \o u)
<1> DEFINE v == w \o u
<1>1. /\ Len(w) \in Nat /\ Len(u) \in Nat /\ Len(v) = Len(w) + Len(u)
      /\ \A i \in 1..(Len(w) + Len(u)) :
            v[i] = IF i <= Len(w) THEN w[i] ELSE u[i - Len(w)]
  BY ConcatProperties
<1>2. \A i \in 1..(Len(w) + Len(u)) :
         IF i <= Len(w) THEN i \in 1..Len(w) ELSE i - Len(w) \in 1..Len(u)
  BY <1>1
<1> HIDE DEF v
<1>3. NoFin(v)
  BY <1>1, <1>2 DEF NoFin
<1> QED
  BY <1>3 DEF v

\* One buffer more.
LEMMA NoFinAppend ==
    ASSUME NEW w \in Seq(WriteSkb), NEW x \in WriteSkb, NoFin(w), x.fin = FALSE
    PROVE  NoFin(Append(w, x))
<1> DEFINE v == Append(w, x)
<1>1. /\ Len(w) \in Nat /\ Len(v) = Len(w) + 1 /\ v[Len(w) + 1] = x
      /\ \A i \in 1..Len(w) : v[i] = w[i]
  OBVIOUS
<1>2. \A i \in 1..(Len(w) + 1) : i \in 1..Len(w) \/ i = Len(w) + 1
  BY <1>1
<1> HIDE DEF v
<1>3. NoFin(v)
  BY <1>1, <1>2 DEF NoFin
<1> QED
  BY <1>3 DEF v

\* Buffers taken off the head.
LEMMA NoFinSuffix ==
    ASSUME NEW w \in Seq(WriteSkb), NEW n \in 0..Len(w), NoFin(w)
    PROVE  SubSeq(w, n + 1, Len(w)) \in Seq(WriteSkb) /\ NoFin(SubSeq(w, n + 1, Len(w)))
<1> DEFINE v == SubSeq(w, n + 1, Len(w))
<1>1. Len(w) \in Nat /\ \A i \in (n + 1)..Len(w) : w[i] \in WriteSkb
  OBVIOUS
<1>2. /\ v \in Seq(WriteSkb) /\ Len(v) = Len(w) - n
      /\ \A j \in 1..(Len(w) - n) : v[j] = w[n + 1 + j - 1]
  BY <1>1, SubSeqProperties
<1>3. \A j \in 1..(Len(w) - n) : n + 1 + j - 1 \in 1..Len(w)
  BY <1>1
<1> HIDE DEF v
<1>4. NoFin(v)
  BY <1>2, <1>3 DEF NoFin
<1> QED
  BY <1>2, <1>4 DEF v

\* Operations that do not touch the queue.
LEMMA SameUnclosed ==
    ASSUME NEW s, NEW t, SameQueue(s, t), Unclosed(s), t.state \notin Finishing
    PROVE  Unclosed(t)
BY DEF SameQueue, Unclosed

\* Sending a buffer only numbers it.
LEMMA NumberedFin ==
    ASSUME NEW skb \in WriteSkb, NEW seq \in Nat
    PROVE  Numbered(skb, seq) \in WriteSkb /\ Numbered(skb, seq).fin = skb.fin
<1> DEFINE e == seq + skb.dlen
<1>1. e \in Nat
  BY DEF WriteSkb
<1>2. Numbered(skb, seq) = [skb EXCEPT !.seq = seq, !.end_seq = e]
  BY DEF Numbered
<1> HIDE DEF e
<1> QED
  BY <1>1, <1>2 DEF WriteSkb

\* Queueing a SYN or data.
LEMMA QueueTransmitUnclosed ==
    ASSUME NEW s \in Tsk, NEW skb \in WriteSkb, skb.fin = FALSE, NoFin(s.wq)
    PROVE  NoFin(tcp_queue_transmit_skb(s, skb).wq)
<1> DEFINE a == IF s.wq = << >> THEN tcp_rearm_rto_timer(s) ELSE s
           b == tcp_transmit_skb(a, skb, a.snd_nxt)
           k == b.inflight + 1
           n == SeqAfter(skb, a.snd_nxt)
           x == Numbered(skb, a.snd_nxt)
           w == Append(b.wq, x)
           c == [b EXCEPT !.inflight = k, !.snd_nxt = n, !.wq = w]
           v == Append(a.wq, skb)
           d == [a EXCEPT !.wq = v]
           t == tcp_queue_transmit_skb(s, skb)
<1>1. t = IF a.inflight = 0 THEN c ELSE d
  BY DEF tcp_queue_transmit_skb
<1>2. SameQueue(s, a) /\ a \in Tsk
  BY RearmRtoQueue DEF SameQueue
<1> HIDE DEF a, t
<1>3. a.snd_nxt \in Nat /\ a.wq = s.wq /\ s.wq \in Seq(WriteSkb)
  BY <1>2, Fields DEF SameQueue
<1>4. b \in Tsk /\ b.wq = s.wq
  BY <1>2, <1>3, TransmitQueue DEF SameQueue
<1>5. x \in WriteSkb /\ x.fin = FALSE
  BY <1>3, NumberedFin
<1> HIDE DEF b, x, k, n
<1>6. NoFin(w) /\ NoFin(v)
  BY <1>3, <1>4, <1>5, NoFinAppend
<1> HIDE DEF w, v
<1>7. c.wq = w /\ d.wq = v
  BY <1>2, <1>4 DEF Tsk
<1> HIDE DEF c, d
<1>8. NoFin(t.wq)
  BY <1>1, <1>6, <1>7
<1> QED
  BY <1>8 DEF t

\* connect() queues the SYN.
LEMMA ConnectUnclosed ==
    ASSUME NEW s \in Tsk, s = NewSock
    PROVE  Unclosed(tcp_connect(s))
<1> DEFINE a == [s EXCEPT !.snd_una = ISS, !.snd_nxt = ISS, !.rcv_nxt = 0,
                          !.state = "SYN_SENT"]
           x == [seq |-> 0, end_seq |-> 0, dlen |-> 0, data |-> 0,
                 syn |-> TRUE, fin |-> FALSE]
           b == tcp_queue_transmit_skb(a, x)
           n == b.snd_nxt + 1
           t == tcp_connect(s)
<1>1. t = [b EXCEPT !.snd_nxt = n]
  BY DEF tcp_connect
<1> HIDE DEF t
<1>2. x \in WriteSkb /\ x.fin = FALSE /\ x.seq = 0
  BY DEF WriteSkb
<1>3. ISS \in Nat /\ 0 \in Nat /\ ISS # 0
  BY TcpConstants
<1> DEFINE i == ISS
<1>4. a = [s EXCEPT !.snd_una = i, !.snd_nxt = i, !.rcv_nxt = 0, !.state = "SYN_SENT"]
  OBVIOUS
<1> HIDE DEF a, x, i
<1>5. a \in Tsk /\ a.wq = << >> /\ a.state = "SYN_SENT"
  <2>1. i \in Nat
    BY <1>3 DEF i
  <2>2. s.wq = << >>
    BY DEF NewSock
  <2> QED
    BY <1>4, <2>1, <2>2 DEF Tsk, TcpStates
<1>6. NoFin(a.wq)
  BY <1>5 DEF NoFin
<1>7. NoFin(b.wq)
  BY <1>2, <1>5, <1>6, QueueTransmitUnclosed
<1>8. b \in Tsk
  BY <1>2, <1>5, QueueRead DEF SameRead, Keeps
<1> HIDE DEF b, n
<1>9. t.wq = b.wq
  BY <1>1, <1>8 DEF Tsk
<1>10. t.state = "SYN_SENT"
  BY ConnectSend DEF t
<1>11. Unclosed(t)
  BY <1>7, <1>9, <1>10 DEF Unclosed, Finishing
<1> QED
  BY <1>11 DEF t

\* write() queues data.
LEMMA SendUnclosed ==
    ASSUME NEW s \in Tsk, SendOK(s), Unclosed(s), NEW pos \in Nat, NEW len \in Nat \ {0}
    PROVE  Unclosed(tcp_send(s, pos, len))
<1> DEFINE n == (len + SMSS - 1) \div SMSS
           Skb(i) == [seq |-> 0, end_seq |-> 0,
                      dlen |-> MinOf(SMSS, len - (i - 1) * SMSS),
                      data |-> pos + (i - 1) * SMSS,
                      syn |-> FALSE, fin |-> FALSE]
           x == Skb(1)
           first == tcp_queue_transmit_skb(s, x)
           u == [i \in 1..(n - 1) |-> Skb(i + 1)]
           w == first.wq \o u
           b == [first EXCEPT !.wq = w]
           t == tcp_send(s, pos, len)
<1>1. n \in Nat \ {0} /\ \A i \in 0..n-1 : i * SMSS \in Nat /\ i * SMSS < len
  BY Cutting
<1>2. t = tcp_rearm_user_timeout(b)
  BY DEF tcp_send
<1>3. t.state = s.state
  BY SendSend
<1> HIDE DEF n, t
<1>4. \A j \in 0..n-1 : MinOf(SMSS, len - j * SMSS) \in Nat /\ pos + j * SMSS \in Nat
  <2> SUFFICES ASSUME NEW j \in 0..n-1
               PROVE MinOf(SMSS, len - j * SMSS) \in Nat /\ pos + j * SMSS \in Nat
    OBVIOUS
  <2> DEFINE d == j * SMSS
  <2>1. d \in Nat /\ d < len /\ SMSS \in Nat
    BY <1>1, TcpConstants
  <2> HIDE DEF d
  <2>2. MinOf(SMSS, len - d) \in Nat /\ pos + d \in Nat
    BY <2>1 DEF MinOf
  <2> QED
    BY <2>2 DEF d
<1>5. \A i \in 1..n : Skb(i) \in WriteSkb /\ Skb(i).fin = FALSE
  <2> SUFFICES ASSUME NEW i \in 1..n PROVE Skb(i) \in WriteSkb /\ Skb(i).fin = FALSE
    OBVIOUS
  <2> DEFINE l == MinOf(SMSS, len - (i - 1) * SMSS)
             m == pos + (i - 1) * SMSS
  <2>1. i - 1 \in 0..n-1
    BY <1>1
  <2>2. l \in Nat /\ m \in Nat
    BY <1>4, <2>1
  <2>3. Skb(i) = [seq |-> 0, end_seq |-> 0, dlen |-> l, data |-> m,
                  syn |-> FALSE, fin |-> FALSE]
    OBVIOUS
  <2> HIDE DEF l, m, Skb
  <2> QED
    BY <2>2, <2>3 DEF WriteSkb
<1> HIDE DEF Skb
<1>6. x \in WriteSkb /\ x.fin = FALSE
  BY <1>1, <1>5
<1> HIDE DEF x
<1>7. first \in Tsk /\ NoFin(first.wq)
  BY <1>6, QueueTransmitUnclosed, QueueRead DEF Unclosed, SameRead, Keeps
<1> HIDE DEF first
<1>8. first.wq \in Seq(WriteSkb)
  BY <1>7, Fields
<1>9. u \in Seq(WriteSkb) /\ NoFin(u)
  <2>1. n - 1 \in Nat /\ \A i \in 1..(n - 1) : i + 1 \in 1..n
    BY <1>1
  <2>2. \A i \in 1..(n - 1) : Skb(i + 1) \in WriteSkb /\ Skb(i + 1).fin = FALSE
    BY <1>5, <2>1
  <2> QED
    BY <2>1, <2>2 DEF NoFin
<1> HIDE DEF u
<1>10. w \in Seq(WriteSkb) /\ NoFin(w)
  BY <1>7, <1>8, <1>9, NoFinConcat
<1> HIDE DEF w
<1>11. b \in Tsk /\ b.wq = w
  BY <1>7, <1>10 DEF Tsk
<1> HIDE DEF b
<1>12. t.wq = w
  BY <1>2, <1>11, TimersQueue DEF SameQueue
<1>13. Unclosed(t)
  BY <1>3, <1>10, <1>12 DEF Unclosed
<1> QED
  BY <1>13 DEF t

\* An acknowledgment only takes buffers off.
LEMMA CleanUnclosed ==
    ASSUME NEW s \in Tsk, NEW una \in Nat, NoFin(s.wq)
    PROVE  NoFin(tcp_clean_rto_queue(s, una).wq)
<1> DEFINE S == {j \in 1..Len(s.wq) : s.wq[j].seq > 0 /\ s.wq[j].end_seq <= una}
           n == Leading(Len(s.wq), S)
           w == SubSeq(s.wq, n + 1, Len(s.wq))
           k == IF s.inflight > n THEN s.inflight - n ELSE 0
           a == [s EXCEPT !.wq = w, !.inflight = k]
           t == tcp_clean_rto_queue(s, una)
<1>1. s.wq \in Seq(WriteSkb) /\ Len(s.wq) \in Nat /\ s.inflight \in Nat
  BY Fields
<1>2. n \in 0..Len(s.wq)
  BY <1>1, LeadingSpec
<1>3. t = IF a.wq = << >> \/ a.inflight = 0 THEN tcp_stop_rto_timer(a) ELSE a
  BY DEF tcp_clean_rto_queue
<1> HIDE DEF n, t
<1>4. w \in Seq(WriteSkb) /\ NoFin(w)
  BY <1>1, <1>2, NoFinSuffix
<1>5. k \in Nat
  BY <1>1, <1>2
<1> HIDE DEF w, k
<1>6. a \in Tsk /\ a.wq = w
  BY <1>4, <1>5 DEF Tsk
<1> HIDE DEF a
<1>7. t.wq = w
  BY <1>3, <1>6, TimersQueue DEF SameQueue
<1> QED
  BY <1>4, <1>7 DEF t

\* So does the ACK of a segment.
LEMMA ProcessAckUnclosed ==
    ASSUME NEW s \in Tsk, NEW th \in InSegment, NEW r \in Nat, NoFin(s.wq)
    PROVE  NoFin(ProcessAck(s, th, r).wq)
<1> DEFINE a == IF s.state = "SYN_RECEIVED"
                THEN [s EXCEPT !.state = "ESTABLISHED"] ELSE s
           u == th.ack_seq
           b == [a EXCEPT !.snd_una = u]
           c == tcp_rtt(b, r)
           d == tcp_clean_rto_queue(c, u)
<1>1. u \in Nat
  BY DEF InSegment
<1>2. ProcessAck(s, th, r) = a \/ ProcessAck(s, th, r) = d
  BY DEF ProcessAck
<1> HIDE DEF u
<1>3. a \in Tsk /\ a.wq = s.wq
  BY DEF Tsk, TcpStates
<1> HIDE DEF a
<1>4. b \in Tsk /\ b.wq = s.wq
  BY <1>1, <1>3 DEF Tsk
<1> HIDE DEF b
<1>5. c \in Tsk /\ c.wq = s.wq
  BY <1>4 DEF tcp_rtt, Tsk
<1> HIDE DEF c
<1>6. NoFin(d.wq)
  BY <1>1, <1>5, CleanUnclosed
<1> QED
  BY <1>2, <1>3, <1>6

\* A queued buffer that is sent stays in its place.
LEMMA SendQueuedUnclosed ==
    ASSUME NEW s \in Tsk, s.snd_nxt > 0, NEW i \in 1..Len(s.wq), NoFin(s.wq)
    PROVE  /\ SendQueued(s, i) \in Tsk /\ SendQueued(s, i).snd_nxt > 0
           /\ Len(SendQueued(s, i).wq) = Len(s.wq)
           /\ NoFin(SendQueued(s, i).wq)
<1> DEFINE q == s.wq
           y == Numbered(q[i], s.snd_nxt)
           w == [q EXCEPT ![i] = y]
           n == SeqAfter(q[i], s.snd_nxt)
           a == tcp_transmit_skb(s, q[i], s.snd_nxt)
           t == SendQueued(s, i)
<1>1. /\ t \in Tsk /\ t.snd_nxt > 0 /\ Len(t.wq) = Len(s.wq)
  BY SendQueuedSend
<1>2. q \in Seq(WriteSkb) /\ s.snd_nxt \in Nat /\ q[i] \in WriteSkb
  BY Fields
<1>3. a \in Tsk /\ a.wq = q
  BY <1>2, TransmitQueue DEF SameQueue
<1>4. t = [a EXCEPT !.snd_nxt = n, !.wq = w]
  BY <1>3 DEF SendQueued
<1>5. y \in WriteSkb /\ y.fin = FALSE
  BY <1>2, NumberedFin DEF NoFin
<1> HIDE DEF y, a, n, t
<1>6. NoFin(w)
  <2>1. \A j \in 1..Len(q) : w[j] = IF j = i THEN y ELSE q[j]
    BY <1>2
  <2>2. Len(w) = Len(q)
    BY <1>2
  <2> HIDE DEF w
  <2> QED
    BY <1>5, <2>1, <2>2 DEF NoFin
<1> HIDE DEF w
<1>7. t.wq = w
  BY <1>3, <1>4 DEF Tsk
<1> QED
  BY <1>1, <1>6, <1>7 DEF t

\* The same of a whole flight.
LEMMA SendNextUnclosed ==
    ASSUME NEW s \in Tsk, s.snd_nxt > 0, NEW amount \in 1..3, amount <= Len(s.wq),
           NoFin(s.wq)
    PROVE  tcp_send_next(s, amount) \in Tsk /\ NoFin(tcp_send_next(s, amount).wq)
<1> DEFINE a == SendQueued(s, 1)
           b == IF amount >= 2 THEN SendQueued(a, 2) ELSE a
           c == SendQueued(b, 3)
<1>1. s.wq \in Seq(WriteSkb) /\ Len(s.wq) \in Nat
  BY Fields
<1>2. 1 \in 1..Len(s.wq) /\ (amount >= 2 => 2 \in 1..Len(s.wq))
      /\ (amount >= 3 => amount >= 2 /\ 3 \in 1..Len(s.wq))
  BY <1>1
<1>3. a \in Tsk /\ a.snd_nxt > 0 /\ Len(a.wq) = Len(s.wq) /\ NoFin(a.wq)
  BY <1>2, SendQueuedUnclosed
<1> HIDE DEF a
<1>4. b \in Tsk /\ b.snd_nxt > 0 /\ Len(b.wq) = Len(s.wq) /\ NoFin(b.wq)
  BY <1>2, <1>3, SendQueuedUnclosed
<1> HIDE DEF b
<1>5. amount >= 3 => c \in Tsk /\ NoFin(c.wq)
  BY <1>2, <1>4, SendQueuedUnclosed
<1>6. tcp_send_next(s, amount) = IF amount >= 3 THEN c ELSE b
  BY DEF tcp_send_next, a, b
<1> HIDE DEF c
<1> QED
  BY <1>4, <1>5, <1>6

\* What is sent in answer to a segment.
LEMMA SendMoreUnclosed ==
    ASSUME NEW s \in Tsk, SendOK(s), NEW th \in InSegment, NEW expected \in BOOLEAN,
           Unclosed(s)
    PROVE  Unclosed(SendMoreOrAck(s, th, expected))
<1> DEFINE a == tcp_stop_delack_timer(s)
           pending == MinOf(Len(a.wq), 3)
           big == th.dlen > DELACK_LEN
           n == a.delacks + 1
           b == [a EXCEPT !.delacks = n]
           c == IF big /\ ~th.psh THEN b ELSE a
           d == tcp_send_next(a, pending)
           k == d.inflight + pending
           e == [d EXCEPT !.inflight = k]
           f == [c EXCEPT !.delacks = 0]
           g == [c EXCEPT !.delack = timer_add("delack")]
           t == SendMoreOrAck(s, th, expected)
<1>1. \/ t = s
      \/ pending > 0 /\ t = tcp_rearm_rto_timer(e)
      \/ t = tcp_send_ack(f) \/ t = g \/ t = c
  BY DEF SendMoreOrAck
<1>2. t.state = s.state
  BY SendMoreSend
<1> HIDE DEF t
<1>3. SameQueue(s, a) /\ a \in Tsk
  BY TimersQueue DEF SameQueue
<1> HIDE DEF a
<1>4. SendOK(a) /\ NoFin(a.wq) /\ a.wq = s.wq
  BY <1>3, SameQueueOK DEF SameQueue, Unclosed
<1>5. a.wq \in Seq(WriteSkb) /\ a.delacks \in Nat
  BY <1>3, Fields
<1>6. pending \in 0..3 /\ pending <= Len(a.wq)
  <2> DEFINE l == Len(a.wq)
  <2>1. l \in Nat
    BY <1>5
  <2>2. pending = IF l <= 3 THEN l ELSE 3
    BY DEF MinOf
  <2> HIDE DEF l, pending
  <2>3. pending \in 0..3 /\ pending <= l
    BY <2>1, <2>2
  <2> QED
    BY <2>3 DEF l
<1>7. n \in Nat
  BY <1>5
<1> HIDE DEF pending, big, n
<1>8. c \in Tsk /\ c.wq = a.wq
  BY <1>3, <1>7 DEF Tsk
<1> HIDE DEF c
<1>9. ASSUME pending > 0, t = tcp_rearm_rto_timer(e)
      PROVE  NoFin(t.wq)
  <2>1. pending \in 1..3
    BY <1>6, <1>9
  <2>2. a.snd_nxt > 0
    BY <1>4 DEF SendOK
  <2>3. d \in Tsk /\ NoFin(d.wq)
    BY <1>3, <1>4, <1>6, <2>1, <2>2, SendNextUnclosed
  <2> HIDE DEF d
  <2>4. k \in Nat
    BY <2>1, <2>3, Fields
  <2> HIDE DEF k
  <2>5. e \in Tsk /\ e.wq = d.wq
    BY <2>3, <2>4 DEF Tsk
  <2> HIDE DEF e
  <2> QED
    BY <1>9, <2>3, <2>5, RearmRtoQueue DEF SameQueue
<1>10. ASSUME t = tcp_send_ack(f) \/ t = g \/ t = c
       PROVE  t.wq = a.wq
  <2>1. f \in Tsk /\ f.wq = c.wq
    BY <1>8 DEF Tsk
  <2>2. g.wq = c.wq
    BY <1>8 DEF Tsk
  <2> HIDE DEF f, g
  <2>3. tcp_send_ack(f).wq = f.wq
    BY <2>1, WakingQueue DEF SameQueue
  <2> QED
    BY <1>8, <1>10, <2>1, <2>2, <2>3
<1>11. NoFin(t.wq)
  BY <1>1, <1>4, <1>9, <1>10 DEF Unclosed
<1>12. Unclosed(t)
  BY <1>2, <1>11 DEF Unclosed
<1> QED
  BY <1>12 DEF t

\* The retransmission of anything but a FIN leaves the state or ends the
\* connection.
LEMMA RetransmissionUnclosed ==
    ASSUME NEW s \in Tsk, Unclosed(s)
    PROVE  Unclosed(tcp_retransmission_timeout(s))
<1> DEFINE a == tcp_release_rto_timer(s)
           h == Head(a.wq)
           b == tcp_transmit_skb(a, h, a.snd_una)
           c == [a EXCEPT !.backoff = 0]
           d == tcp_done(b)
           P == d.poll \cup {"OUT", "ERR", "HUP"}
           e == [d EXCEPT !.err = "ETIMEDOUT", !.poll = P]
           r == 2 * b.rto
           n == b.backoff + 1
           f == [b EXCEPT !.rto = r, !.backoff = n, !.retransmit = timer_add("rto")]
           t == tcp_retransmission_timeout(s)
<1>1. \/ a.wq = << >> /\ t = tcp_notify_user(c)
      \/ a.wq # << >> /\ t = e
      \/ a.wq # << >> /\ h.fin /\ t = tcp_handle_fin_state(f)
      \/ a.wq # << >> /\ t = f
  BY DEF tcp_retransmission_timeout
<1>2. SameQueue(s, t)
  BY RetransmissionQueue
<1> HIDE DEF t
<1>3. a \in Tsk /\ a.wq = s.wq /\ a.state = s.state
  BY TimersQueue DEF SameQueue
<1> HIDE DEF a
<1>4. c \in Tsk /\ c.state = s.state
  BY <1>3 DEF Tsk
<1> HIDE DEF c
<1>5. tcp_notify_user(c).state = s.state
  BY <1>4, WakingQueue
<1>6. ASSUME a.wq # << >>
      PROVE  ~h.fin /\ e.state = "CLOSING" /\ f.state = s.state
  <2>1. a.wq \in Seq(WriteSkb) /\ a.snd_una \in Nat /\ Len(a.wq) \in Nat
    BY <1>3, Fields
  <2>2. Len(a.wq) >= 1
    BY <1>6, <2>1
  <2>3. h = a.wq[1] /\ h \in WriteSkb /\ 1 \in 1..Len(a.wq)
    BY <1>6, <2>1, <2>2
  <2>4. h.fin = FALSE
    BY <1>3, <2>3 DEF Unclosed, NoFin
  <2> HIDE DEF h
  <2>5. b \in Tsk /\ b.state = s.state
    BY <1>3, <2>1, <2>3, TransmitQueue DEF SameQueue
  <2> HIDE DEF b
  <2>6. d \in Tsk /\ d.state = "CLOSING"
    BY <2>5, DoneQueue DEF SameQueue
  <2> HIDE DEF d
  <2>7. e.state = "CLOSING"
    BY <2>6 DEF Tsk
  <2>8. f.state = s.state
    BY <2>5 DEF Tsk
  <2> QED
    BY <2>4, <2>7, <2>8
<1>7. t.state \in {s.state, "CLOSING"}
  <2>1. CASE a.wq = << >>
    BY <1>1, <1>5, <2>1
  <2>2. CASE a.wq # << >>
    <3> HIDE DEF h, e, f
    <3> QED
      BY <1>1, <1>6, <2>2
  <2> QED
    BY <2>1, <2>2
<1>8. Unclosed(t)
  BY <1>2, <1>7, SameUnclosed DEF Unclosed, Finishing
<1> QED
  BY <1>8 DEF t

\* A whole segment.
LEMMA SegmentUnclosed ==
    ASSUME NEW s \in Tsk, SendOK(s), Unclosed(s),
           NEW th \in InSegment, NEW r \in Nat
    PROVE  LET a == ProcessAck(s, th, r) IN
           Unclosed(tcp_done(a)) /\ Unclosed(ProcessRest(a, th))
<1> DEFINE a == ProcessAck(s, th, r)
           b == QueueEmptied(a, th)
           expected == th.seq = b.rcv_nxt
           c == ProcessText(b, th)
           d == ProcessFin(c, th, expected)
           e == SendMoreOrAck(d, th, expected)
<1>1. ProcessRest(a, th) = e
  BY DEF ProcessRest
<1>2. a \in Tsk /\ SendOK(a) /\ Unclosed(a)
  <2>1. a \in Tsk /\ SendOK(a) /\ NoFin(a.wq)
    BY ProcessAckSend, ProcessAckUnclosed DEF Unclosed
  <2>2. a.state = IF s.state = "SYN_RECEIVED" THEN "ESTABLISHED" ELSE s.state
    BY ProcessAckKeeps
  <2> HIDE DEF a
  <2> QED
    BY <2>1, <2>2 DEF Unclosed, Finishing
<1> HIDE DEF a
<1>3. Unclosed(tcp_done(a))
  BY <1>2, DoneQueue, SameUnclosed DEF Finishing
<1>4. b \in Tsk /\ SendOK(b) /\ Unclosed(b)
  <2>1. SameQueue(a, b) /\ b.state \in {a.state, "TIME_WAIT"}
    BY <1>2, QueueEmptiedSend DEF Unclosed, Finishing
  <2> HIDE DEF b
  <2> QED
    BY <1>2, <2>1, SameQueueOK, SameUnclosed DEF Unclosed, Finishing, SameQueue
<1>5. expected \in BOOLEAN
  OBVIOUS
<1> HIDE DEF b, expected
<1>6. c \in Tsk /\ SendOK(c) /\ Unclosed(c)
  <2>1. SameQueue(b, c) /\ c.state = b.state
    BY <1>4, ProcessTextQueue
  <2> HIDE DEF c
  <2> QED
    BY <1>4, <2>1, SameQueueOK, SameUnclosed DEF Unclosed, SameQueue
<1> HIDE DEF c
<1>7. d \in Tsk /\ SendOK(d) /\ Unclosed(d)
  <2>1. SameQueue(c, d) /\ d.state \in {c.state, "CLOSE_WAIT"}
    BY <1>5, <1>6, ProcessFinSend DEF Unclosed, Finishing
  <2> HIDE DEF d
  <2> QED
    BY <1>6, <2>1, SameQueueOK, SameUnclosed DEF Unclosed, Finishing, SameQueue
<1> HIDE DEF d
<1>8. Unclosed(e)
  BY <1>5, <1>7, SendMoreUnclosed
<1> HIDE DEF e
<1>9. Unclosed(tcp_done(a)) /\ Unclosed(ProcessRest(a, th))
  BY <1>1, <1>3, <1>8
<1> QED
  BY <1>9 DEF a

\* A segment in SYN_SENT.
LEMMA SynsentUnclosed ==
    ASSUME NEW s \in Tsk, SendOK(s), Unclosed(s), s.state = "SYN_SENT",
           NEW th \in InSegment
    PROVE  Unclosed(tcp_synsent(s, th))
<1> DEFINE m == th.seq + 1
           a == [s EXCEPT !.rcv_nxt = m]
           u == th.ack_seq
           a2 == [a EXCEPT !.snd_una = u]
           a3 == tcp_clean_rto_queue(a2, u)
           b == IF th.ack THEN a3 ELSE a
           v == b.snd_nxt
           r == RTO_INIT
           i == ISS
           c == [b EXCEPT !.state = "ESTABLISHED", !.snd_una = v,
                          !.backoff = 0, !.rto = r]
           c1 == tcp_send_ack(c)
           c2 == tcp_rearm_user_timeout(c1)
           d == sock_connected(c2)
           e == [b EXCEPT !.state = "SYN_RECEIVED", !.snd_una = i]
           f == tcp_send_synack(e)
           t == tcp_synsent(s, th)
<1>1. t = s \/ t = tcp_reset(s) \/ t = d \/ t = f
  BY DEF tcp_synsent
<1>2. t.state \in {"SYN_SENT", "SYN_RECEIVED", "ESTABLISHED", "CLOSING"}
  BY SynsentSend DEF Edge, StateChanges
<1> HIDE DEF t
<1>3. m \in Nat /\ u \in Nat /\ r \in Nat /\ i \in Nat
  BY TcpConstants DEF InSegment
<1> HIDE DEF m, u, r, i
<1>4. NoFin(s.wq)
  BY DEF Unclosed
<1>5. a \in Tsk /\ a.wq = s.wq
  BY <1>3 DEF Tsk
<1> HIDE DEF a
<1>6. a2 \in Tsk /\ a2.wq = s.wq
  BY <1>3, <1>5 DEF Tsk
<1> HIDE DEF a2
<1>7. a3 \in Tsk /\ NoFin(a3.wq)
  BY <1>3, <1>4, <1>6, CleanUnclosed, CleanKeeps
<1> HIDE DEF a3
<1>8. b \in Tsk /\ NoFin(b.wq)
  BY <1>4, <1>5, <1>7
<1> HIDE DEF b
<1>9. v \in Nat
  BY <1>8, Fields
<1> HIDE DEF v
<1>10. c \in Tsk /\ c.wq = b.wq
  BY <1>3, <1>8, <1>9 DEF Tsk, TcpStates
<1>11. e \in Tsk /\ e.wq = b.wq
  BY <1>3, <1>8 DEF Tsk, TcpStates
<1> HIDE DEF c, e
<1>12. c1 \in Tsk /\ c1.wq = b.wq
  BY <1>10, WakingQueue DEF SameQueue
<1> HIDE DEF c1
<1>13. c2 \in Tsk /\ c2.wq = b.wq
  BY <1>12, TimersQueue DEF SameQueue
<1> HIDE DEF c2
<1>14. d.wq = b.wq /\ f.wq = b.wq /\ tcp_reset(s).wq = s.wq
  BY <1>11, <1>13, WakingQueue, EndingQueue DEF SameQueue
<1> HIDE DEF d, f
<1>15. Unclosed(t)
  BY <1>1, <1>2, <1>4, <1>8, <1>14 DEF Unclosed, Finishing
<1> QED
  BY <1>15 DEF t

\* A step of the timers.
LEMMA TimerUnclosed ==
    ASSUME TypeOK, TimerNext, Unclosed(tsk)
    PROVE  Unclosed(tsk')
<1>1. tsk \in Tsk /\ tsk.thread \in [TimerKinds -> Nat] /\ tsk.armed \in [TimerKinds -> Nat]
  BY Fields DEF TypeOK
<1>2. SameQueue(tsk, tsk')
  BY TimerQueue
<1>3. ASSUME NEW slot \in {"retransmit", "delack", "linger"}, Expire(slot)
      PROVE  tsk'.state = tsk.state
  <2> DEFINE h == [tsk.thread EXCEPT ![tsk[slot].kind] = @ + 1]
             e == [tsk[slot] EXCEPT !.fired = TRUE]
  <2>1. tsk' = [tsk EXCEPT ![slot] = e, !.thread = h]
    BY <1>3 DEF Expire
  <2> HIDE DEF e, h
  <2> QED
    BY <1>1, <2>1 DEF Tsk
<1>4. ASSUME NEW kind \in TimerKinds, ExpireUnowned(kind)
      PROVE  tsk'.state = tsk.state
  <2>1. PICK m, h : tsk' = [tsk EXCEPT !.armed = m, !.thread = h]
    BY <1>4 DEF ExpireUnowned
  <2> QED
    BY <1>1, <2>1 DEF Tsk
<1>5. ASSUME NEW kind \in TimerKinds, RunHandler(kind)
      PROVE  tsk'.state \in {tsk.state, "CLOSING"} \/ Unclosed(tsk')
  <2> DEFINE h == [tsk.thread EXCEPT ![kind] = @ - 1]
             s == [tsk EXCEPT !.thread = h]
             c == [s EXCEPT !.linger = NoTimer]
             d == [s EXCEPT !.freed = TRUE]
  <2>1. tsk.thread[kind] > 0
    BY <1>5 DEF RunHandler
  <2>2. h \in [TimerKinds -> Nat]
    BY <1>1, <2>1
  <2>3. tsk' = Handler(kind, s)
    BY <1>5 DEF RunHandler
  <2> HIDE DEF h
  <2>4. s \in Tsk /\ s.wq = tsk.wq /\ s.state = tsk.state
    BY <1>1, <2>2 DEF Tsk
  <2> HIDE DEF s
  <2>5. c \in Tsk /\ d.state = s.state
    BY <2>4, SlotTyping DEF Tsk
  <2>6. \/ tsk' = tcp_connect_rto(s)
        \/ tsk' = tcp_retransmission_timeout(s)
        \/ tsk' = tcp_send_delack(s)
        \/ tsk' = tcp_abort(c)
        \/ tsk' = tcp_done(c)
        \/ tsk' = d
    BY <2>3 DEF Handler, CancelLinger, TimerKinds
  <2> HIDE DEF c, d
  <2>7. Unclosed(s)
    BY <2>4 DEF Unclosed
  <2> QED
    BY <2>4, <2>5, <2>6, <2>7, ConnectRtoQueue, RetransmissionUnclosed, SendDelackQueue,
       EndingQueue, DoneQueue
<1>6. tsk'.state \in {tsk.state, "CLOSING"} \/ Unclosed(tsk')
  BY <1>3, <1>4, <1>5 DEF TimerNext
<1> QED
  BY <1>2, <1>6, SameUnclosed DEF Unclosed, Finishing

\* An arriving segment.
LEMMA CoreUnclosed ==
    ASSUME TypeOK, SendOK(tsk), CoreNext, Unclosed(tsk)
    PROVE  Unclosed(tsk')
<1>1. tsk \in Tsk /\ peer \in PeerType
  BY DEF TypeOK
<1>2. PICK th \in InFlight :
         \/ RcvSynSent(th) \/ RcvUnacceptable(th) \/ RcvReset(th)
         \/ \E r \in RttSamples : RcvSegment(th, r)
  BY DEF CoreNext
<1>3. th \in InSegment
  BY <1>1, InFlightTyping
<1>4. CASE RcvSynSent(th)
  BY <1>1, <1>3, <1>4, SynsentUnclosed DEF RcvSynSent
<1>5. CASE RcvUnacceptable(th)
  <2>1. tsk' = tcp_send_ack(tsk)
    BY <1>5 DEF RcvUnacceptable
  <2> QED
    BY <1>1, <2>1, WakingQueue, SameUnclosed DEF Unclosed
<1>6. CASE RcvReset(th)
  <2> DEFINE a == tcp_enter_time_wait(tsk)
  <2>1. tsk' = tcp_recv_notify(a)
    BY <1>6 DEF RcvReset
  <2>2. a \in Tsk /\ a.wq = tsk.wq /\ a.state = "TIME_WAIT"
    BY <1>1, EndingQueue DEF SameQueue
  <2> HIDE DEF a
  <2>3. tsk'.wq = tsk.wq /\ tsk'.state = "TIME_WAIT"
    BY <2>1, <2>2, WakingQueue DEF SameQueue
  <2> QED
    BY <2>3 DEF Unclosed, Finishing
<1>7. ASSUME NEW r \in RttSamples, RcvSegment(th, r) PROVE Unclosed(tsk')
  <2> DEFINE a == ProcessAck(tsk, th, r)
  <2>1. r \in Nat
    BY TcpRunConstants
  <2>2. tsk' = tcp_done(a) \/ tsk' = ProcessRest(a, th)
    BY <1>7 DEF RcvSegment
  <2>3. Unclosed(tcp_done(a)) /\ Unclosed(ProcessRest(a, th))
    BY <1>1, <1>3, <2>1, SegmentUnclosed
  <2> HIDE DEF a
  <2> QED
    BY <2>2, <2>3
<1> QED
  BY <1>2, <1>4, <1>5, <1>6, <1>7

----------------------------------------------------------------------------

\* The buffers of q hold bytes, and none after the first m.
Within(q, m) == \A j \in 1..Len(q) : q[j].dlen > 0 /\ q[j].data + q[j].dlen <= m + 1

\* The receive side of socket s when n bytes have been delivered and the peer
\* has sent m and, if c, closed: only what was sent is queued, and in CLOSE_WAIT
\* and LAST_ACK all of it is.  In the middle of a read(), if b, the PSH of a
\* buffer may have been seen.
DataOK(s, n, m, c, b) ==
    /\ Within(s.rq, m) /\ Within(s.ofo, m) /\ n <= m
    /\ s.state \in Passive => c /\ StreamEnd(s.rq, n) = PeerBytes + 1
    /\ s.psh => b

\* Nothing that SameRead allows disturbs DataOK.
LEMMA SameReadData ==
    ASSUME NEW s, NEW t, NEW n, NEW m, NEW c, NEW b,
           SameRead(s, t), DataOK(s, n, m, c, b)
    PROVE  DataOK(t, n, m, c, b)
<1>1. /\ t.rq = s.rq
      /\ t.ofo = s.ofo \/ t.ofo = << >>
      /\ t.psh = s.psh
      /\ t.state \in Passive => s.state \in Passive
  BY DEF SameRead, Keeps
<1>2. Within(t.ofo, m)
  BY <1>1 DEF DataOK, Within
<1> QED
  BY <1>1, <1>2 DEF DataOK

\* Queues put one after the other.
LEMMA WithinConcat ==
    ASSUME NEW m, NEW w \in Seq(ReadSkb), NEW u \in Seq(ReadSkb), Within(w, m), Within(u, m)
    PROVE  Within(w \o u, m)
<1> DEFINE v == w \o u
<1>1. /\ Len(w) \in Nat /\ Len(u) \in Nat /\ Len(v) = Len(w) + Len(u)
      /\ \A i \in 1..(Len(w) + Len(u)) :
            v[i] = IF i <= Len(w) THEN w[i] ELSE u[i - Len(w)]
  BY ConcatProperties
<1>2. \A i \in 1..(Len(w) + Len(u)) :
         IF i <= Len(w) THEN i \in 1..Len(w) ELSE i - Len(w) \in 1..Len(u)
  BY <1>1
<1> HIDE DEF v
<1>3. Within(v, m)
  BY <1>1, <1>2 DEF Within
<1> QED
  BY <1>3 DEF v

\* One buffer more.
LEMMA WithinAppend ==
    ASSUME NEW m, NEW w \in Seq(ReadSkb), NEW x \in ReadSkb, Within(w, m),
           x.dlen > 0, x.data + x.dlen <= m + 1
    PROVE  Append(w, x) \in Seq(ReadSkb) /\ Within(Append(w, x), m)
<1> DEFINE v == Append(w, x)
<1>1. /\ Len(w) \in Nat /\ Len(v) = Len(w) + 1 /\ v[Len(w) + 1] = x
      /\ \A i \in 1..Len(w) : v[i] = w[i]
  OBVIOUS
<1>2. \A i \in 1..(Len(w) + 1) : i \in 1..Len(w) \/ i = Len(w) + 1
  BY <1>1
<1> HIDE DEF v
<1>3. Within(v, m)
  BY <1>1, <1>2 DEF Within
<1> QED
  BY <1>3 DEF v

\* A part of a queue.
LEMMA WithinPart ==
    ASSUME NEW m, NEW w \in Seq(ReadSkb), NEW i \in Nat \ {0}, NEW k \in Nat,
           k <= Len(w), Within(w, m)
    PROVE  SubSeq(w, i, k) \in Seq(ReadSkb) /\ Within(SubSeq(w, i, k), m)
<1> DEFINE v == SubSeq(w, i, k)
<1>1. Len(w) \in Nat /\ \A j \in i..k : w[j] \in ReadSkb
  OBVIOUS
<1>2. /\ v \in Seq(ReadSkb)
      /\ Len(v) = IF i <= k THEN k - i + 1 ELSE 0
      /\ i <= k => \A j \in 1..(k - i + 1) : v[j] = w[i + j - 1]
  BY <1>1, SubSeqProperties
<1> HIDE DEF v
<1>3. \A j \in 1..Len(v) : v[j] = w[i + j - 1] /\ i + j - 1 \in 1..Len(w)
  BY <1>1, <1>2
<1>4. Within(v, m)
  BY <1>2, <1>3 DEF Within
<1> QED
  BY <1>2, <1>4 DEF v

\* The payload and the FIN of segment th were sent by a peer that has sent m
\* bytes and, if c, closed.
WasSent(th, m, c) ==
    /\ th.psh \/ th.dlen > 0 => th.dlen > 0 /\ th.data + th.dlen <= m + 1
    /\ th.fin => c

\* Receiving sets tsk->flags but for TCP_PSH.
LEMMA DataQueuePsh ==
    ASSUME NEW s \in Tsk, NEW th \in InSegment
    PROVE  tcp_data_queue(s, th).psh = s.psh
<1> DEFINE skb == Received(th)
           l == s.rcv_nxt + th.dlen
           q == Append(s.rq, skb)
           a == [s EXCEPT !.rcv_nxt = l, !.rq = q]
           b == tcp_consume_ofo_queue(a)
           p == b.poll \cup {"IN"}
           e == [b EXCEPT !.poll = p]
           o == tcp_data_insert_ordered(s.ofo, skb)
           d == [s EXCEPT !.ofo = o]
           t == tcp_data_queue(s, th)
<1>1. s.rcv_nxt \in Nat /\ s.rq \in Seq(ReadSkb) /\ s.ofo \in Seq(ReadSkb) /\ th.dlen \in Nat
  BY Fields DEF InSegment
<1>2. skb \in ReadSkb
  BY DEF Received, ReadSkb, InSegment
<1>3. t = tcp_recv_notify(e) \/ t = tcp_send_ack(d)
  BY DEF tcp_data_queue, Received
<1> HIDE DEF skb, t
<1>4. l \in Nat /\ q \in Seq(ReadSkb) /\ o \in Seq(ReadSkb)
  BY <1>1, <1>2, InsertOrdered
<1> HIDE DEF l, q, o
<1>5. a \in Tsk /\ a.psh = s.psh
  BY <1>4 DEF Tsk
<1> HIDE DEF a
<1>6. b \in Tsk /\ b.psh = s.psh
  <2>1. b \in Tsk
    BY <1>5, ConsumeEffect
  <2>2. b = a \/ \E x, y, z : b = [a EXCEPT !.rcv_nxt = x, !.rq = y, !.ofo = z]
    BY DEF tcp_consume_ofo_queue
  <2> HIDE DEF b
  <2> QED
    BY <1>5, <2>1, <2>2 DEF Tsk
<1> HIDE DEF b
<1>7. e \in Tsk /\ e.psh = s.psh
  <2>1. p \in SUBSET PollEvents
    BY <1>6, Fields DEF PollEvents
  <2> HIDE DEF p
  <2> QED
    BY <1>6, <2>1 DEF Tsk
<1>8. d \in Tsk /\ d.psh = s.psh
  BY <1>4 DEF Tsk
<1> HIDE DEF e, d
<1>9. tcp_recv_notify(e).psh = s.psh
  BY <1>7 DEF tcp_recv_notify, Tsk
<1>10. tcp_send_ack(d).psh = s.psh
  BY <1>8 DEF tcp_send_ack, Tsk
<1>11. t.psh = s.psh
  BY <1>3, <1>9, <1>10
<1> QED
  BY <1>11 DEF t

\* The payload of a segment.
LEMMA TextData ==
    ASSUME NEW s \in Tsk, NEW th \in InSegment, NEW n, NEW m \in Nat, NEW c, NEW b,
           DataOK(s, n, m, c, b), WasSent(th, m, c)
    PROVE  DataOK(ProcessText(s, th), n, m, c, b)
<1> DEFINE t == tcp_data_queue(s, th)
           skb == Received(th)
<1>1. CASE ~(s.state \in TextStates /\ (th.psh \/ th.dlen > 0))
  BY <1>1 DEF ProcessText
<1>2. CASE s.state \in TextStates /\ (th.psh \/ th.dlen > 0)
  <2>1. skb \in ReadSkb /\ skb.dlen > 0 /\ skb.data + skb.dlen <= m + 1
    BY <1>2 DEF Received, ReadSkb, InSegment, WasSent
  <2>2. s.rq \in Seq(ReadSkb) /\ s.ofo \in Seq(ReadSkb) /\ s.rcv_nxt \in Nat
    BY Fields
  <2>3. t.state = s.state /\ t.psh = s.psh
    BY DataQueueEffect, DataQueuePsh
  <2>4. t.state \notin Passive
    BY <1>2, <2>3 DEF TextStates, Passive
  <2>5. Within(s.rq, m) /\ Within(s.ofo, m)
    BY DEF DataOK
  <2>6. Within(t.rq, m) /\ Within(t.ofo, m)
    <3>1. CASE th.seq = s.rcv_nxt
      <4> DEFINE a == [s EXCEPT !.rcv_nxt = s.rcv_nxt + th.dlen,
                                !.rq = Append(s.rq, skb)]
                 k == Consumed(a)
                 z == tcp_consume_ofo_queue(a)
      <4>1. a \in Tsk /\ t.rq = z.rq /\ t.ofo = z.ofo
        BY <3>1, DataQueueEffect
      <4>2. a.ofo = s.ofo /\ a.rq = Append(s.rq, skb)
        BY DEF Tsk
      <4> HIDE DEF a, t, skb
      <4>3. /\ k \in 0..Len(a.ofo)
            /\ k = 0 => z = a
            /\ k # 0 => z.rq = a.rq \o SubSeq(a.ofo, 1, k)
                        /\ z.ofo = SubSeq(a.ofo, k + 1, Len(a.ofo))
        BY <4>1, ConsumeEffect
      <4> HIDE DEF k, z
      <4>4. a.rq \in Seq(ReadSkb) /\ Within(a.rq, m)
        BY <2>1, <2>2, <2>5, <4>2, WithinAppend
      <4>5. Len(s.ofo) \in Nat /\ k \in Nat /\ k <= Len(s.ofo)
        BY <2>2, <4>2, <4>3
      <4>6. /\ SubSeq(s.ofo, 1, k) \in Seq(ReadSkb) /\ Within(SubSeq(s.ofo, 1, k), m)
            /\ Within(SubSeq(s.ofo, k + 1, Len(s.ofo)), m)
        BY <2>2, <2>5, <4>5, WithinPart
      <4>7. Within(a.rq \o SubSeq(s.ofo, 1, k), m)
        BY <4>4, <4>6, WithinConcat
      <4> QED
        BY <2>5, <4>1, <4>2, <4>3, <4>4, <4>6, <4>7
    <3>2. CASE th.seq # s.rcv_nxt
      <4> DEFINE o == tcp_data_insert_ordered(s.ofo, skb)
      <4>1. t.rq = s.rq /\ t.ofo = o
        BY <3>2, DataQueueEffect
      <4>2. \A j \in 1..Len(o) : o[j] = skb \/ \E i \in 1..Len(s.ofo) : o[j] = s.ofo[i]
        BY <2>1, <2>2, InsertOrdered
      <4> HIDE DEF o, skb, t
      <4>3. Within(o, m)
        BY <2>1, <2>5, <4>2 DEF Within
      <4> QED
        BY <2>5, <4>1, <4>3
    <3> QED
      BY <3>1, <3>2
  <2> HIDE DEF t
  <2>7. DataOK(t, n, m, c, b)
    BY <2>3, <2>4, <2>6 DEF DataOK
  <2> QED
    BY <1>2, <2>7 DEF ProcessText, t
<1> QED
  BY <1>1, <1>2

\* The end of a queue is a position.
LEMMA EndTyping ==
    ASSUME NEW q \in Seq(ReadSkb), NEW n \in Nat
    PROVE  StreamEnd(q, n) \in Nat
<1>1. ASSUME q # << >> PROVE q[Len(q)].data \in Nat /\ q[Len(q)].dlen \in Nat
  <2>1. Len(q) \in 1..Len(q)
    BY <1>1
  <2>2. q[Len(q)] \in ReadSkb
    BY <2>1
  <2> QED
    BY <2>2 DEF ReadSkb
<1> QED
  BY <1>1 DEF StreamEnd

\* The FIN, accepted where the peer's stream ends: all of it is queued.
LEMMA FinData ==
    ASSUME NEW s \in Tsk, NEW th \in InSegment, NEW expected \in BOOLEAN,
           NEW n \in Nat, NEW m \in Nat, NEW c, NEW b,
           DataOK(s, n, m, c, b), StreamOK(s, n), WasSent(th, m, c),
           s.state \in Synchronized,
           th.fin /\ expected =>
              /\ s.state \notin Passive
              /\ s.state \in TextStates => s.rcv_nxt = IRS + 1 + PeerBytes
    PROVE  DataOK(ProcessFin(s, th, expected), n, m, c, b)
<1> DEFINE k == s.rcv_nxt + 1
           p == s.poll \cup {"IN"}
           a == [s EXCEPT !.rcv_nxt = k, !.fin = TRUE, !.poll = p]
           a1 == tcp_send_ack(a)
           a2 == tcp_recv_notify(a1)
           d == tcp_enter_time_wait(a2)
           cw == [a2 EXCEPT !.state = "CLOSE_WAIT"]
           cl == [a2 EXCEPT !.state = "CLOSING"]
           t == ProcessFin(s, th, expected)
<1>1. k \in Nat /\ p \in SUBSET PollEvents
  BY Fields DEF PollEvents
<1>2. CASE ~(th.fin /\ expected)
  BY <1>2 DEF ProcessFin
<1>3. CASE th.fin /\ expected
  <2>1. \/ t = cw /\ s.state = "ESTABLISHED"
        \/ t = cl
        \/ t = d
        \/ t = a2 /\ s.state \notin TextStates
    BY <1>3 DEF ProcessFin, TextStates
  <2>2. a \in Tsk /\ a.state = s.state /\ a.psh = s.psh /\ a.rq = s.rq /\ a.ofo = s.ofo
    BY <1>1 DEF Tsk
  <2> HIDE DEF a, p, k, t
  <2>3. a1 \in Tsk /\ a1.state = s.state /\ a1.psh = s.psh /\ a1.rq = s.rq /\ a1.ofo = s.ofo
    BY <2>2 DEF tcp_send_ack, Tsk
  <2> HIDE DEF a1
  <2>4. a2 \in Tsk /\ a2.state = s.state /\ a2.psh = s.psh /\ a2.rq = s.rq /\ a2.ofo = s.ofo
    BY <2>3, NotifiedRead DEF tcp_recv_notify, Tsk
  <2> HIDE DEF a2
  <2>5. /\ cw.state = "CLOSE_WAIT" /\ cw.psh = s.psh /\ cw.rq = s.rq /\ cw.ofo = s.ofo
        /\ cl.state = "CLOSING" /\ cl.psh = s.psh /\ cl.rq = s.rq /\ cl.ofo = s.ofo
    BY <2>4 DEF Tsk
  <2> HIDE DEF cw, cl
  <2>6. d.state = "TIME_WAIT" /\ d.psh = s.psh /\ d.rq = s.rq /\ (d.ofo = s.ofo \/ d.ofo = << >>)
    <3>1. SameRead(a2, d) /\ d.state = "TIME_WAIT"
      BY <2>4, RearmRead, EndingQueue
    <3> HIDE DEF d
    <3> QED
      BY <2>4, <3>1 DEF SameRead, Keeps
  <2> HIDE DEF d
  <2>7. /\ t.psh = s.psh /\ t.rq = s.rq /\ (t.ofo = s.ofo \/ t.ofo = << >>)
        /\ t.state \in Passive => t.state = "CLOSE_WAIT" /\ s.state = "ESTABLISHED"
    BY <1>3, <2>1, <2>4, <2>5, <2>6 DEF Passive
  <2>8. Within(t.rq, m) /\ Within(t.ofo, m) /\ n <= m /\ (t.psh => b) /\ c
    BY <1>3, <2>7 DEF DataOK, Within, WasSent
  <2>9. s.state = "ESTABLISHED" => StreamEnd(s.rq, n) = PeerBytes + 1
    <3> DEFINE x == StreamEnd(s.rq, n)
    <3> SUFFICES ASSUME s.state = "ESTABLISHED" PROVE x = PeerBytes + 1
      OBVIOUS
    <3>1. s.rcv_nxt = IRS + 1 + PeerBytes
      BY <1>3 DEF TextStates
    <3>2. s.rcv_nxt = IRS + x
      BY DEF StreamOK, Receiving, TextStates
    <3>3. IRS \in Nat /\ PeerBytes \in Nat
      BY TcpConstants, TcpRunConstants
    <3>4. x \in Nat
      BY Fields, EndTyping
    <3> HIDE DEF x
    <3> QED
      BY <3>1, <3>2, <3>3, <3>4
  <2>10. t.state \in Passive => StreamEnd(t.rq, n) = PeerBytes + 1
    BY <2>7, <2>9
  <2>11. DataOK(t, n, m, c, b)
    BY <2>8, <2>10 DEF DataOK
  <2> QED
    BY <2>11 DEF t
<1> QED
  BY <1>2, <1>3

\* The closing handshake on an empty write queue.
LEMMA QueueEmptiedData ==
    ASSUME NEW s \in Tsk, NEW th \in InSegment, NEW n, NEW m, NEW c, NEW b,
           DataOK(s, n, m, c, b)
    PROVE  DataOK(QueueEmptied(s, th), n, m, c, b)
<1> DEFINE a == [s EXCEPT !.state = "FIN_WAIT_2"]
           d == [s EXCEPT !.state = "TIME_WAIT"]
           e == [s EXCEPT !.fin = TRUE]
           f == tcp_send_ack(e)
           t == QueueEmptied(s, th)
<1>1. \/ t = s \/ t = a \/ t = d
      \/ t = f /\ s.state = "TIME_WAIT"
  BY DEF QueueEmptied
<1> HIDE DEF t
<1>2. /\ a.state = "FIN_WAIT_2" /\ a.psh = s.psh /\ a.rq = s.rq /\ a.ofo = s.ofo
      /\ d.state = "TIME_WAIT" /\ d.psh = s.psh /\ d.rq = s.rq /\ d.ofo = s.ofo
  BY DEF Tsk
<1>3. e \in Tsk /\ e.state = s.state /\ e.psh = s.psh /\ e.rq = s.rq /\ e.ofo = s.ofo
  BY DEF Tsk
<1> HIDE DEF a, d, e
<1>4. f.state = s.state /\ f.psh = s.psh /\ f.rq = s.rq /\ f.ofo = s.ofo
  BY <1>3 DEF tcp_send_ack, Tsk
<1> HIDE DEF f
<1>5. /\ t.psh = s.psh /\ t.rq = s.rq /\ t.ofo = s.ofo
      /\ t.state \in Passive => s.state \in Passive
  BY <1>1, <1>2, <1>4 DEF Passive
<1>6. DataOK(t, n, m, c, b)
  BY <1>5 DEF DataOK
<1> QED
  BY <1>6 DEF t

\* A reset after the handshake.
LEMMA ResetData ==
    ASSUME NEW s \in Tsk, NEW n, NEW m, NEW c, NEW b, DataOK(s, n, m, c, b)
    PROVE  DataOK(tcp_recv_notify(tcp_enter_time_wait(s)), n, m, c, b)
<1> DEFINE a == tcp_enter_time_wait(s)
           t == tcp_recv_notify(a)
<1>1. SameRead(s, a) /\ a \in Tsk
  BY RearmRead DEF SameRead, Keeps
<1> HIDE DEF a
<1>2. DataOK(a, n, m, c, b)
  BY <1>1, SameReadData
<1>3. t.state = a.state /\ t.rq = a.rq /\ t.ofo = a.ofo
  BY <1>1, NotifiedRead
<1>4. t.psh = a.psh
  BY <1>1 DEF tcp_recv_notify, Tsk
<1> HIDE DEF t
<1>5. DataOK(t, n, m, c, b)
  BY <1>2, <1>3, <1>4 DEF DataOK
<1> QED
  BY <1>5 DEF t, a

\* A segment in SYN_SENT brings no data.
LEMMA SynsentData ==
    ASSUME NEW s \in Tsk, NEW th \in InSegment, NEW n, NEW m, NEW c, NEW b,
           DataOK(s, n, m, c, b), s.state = "SYN_SENT"
    PROVE  DataOK(tcp_synsent(s, th), n, m, c, b)
<1> DEFINE k == th.seq + 1
           a == [s EXCEPT !.rcv_nxt = k]
           u == th.ack_seq
           a2 == [a EXCEPT !.snd_una = u]
           a3 == tcp_clean_rto_queue(a2, u)
           x == IF th.ack THEN a3 ELSE a
           v == x.snd_nxt
           r == RTO_INIT
           d == [x EXCEPT !.state = "ESTABLISHED", !.snd_una = v,
                          !.backoff = 0, !.rto = r]
           d1 == tcp_send_ack(d)
           d2 == tcp_rearm_user_timeout(d1)
           d3 == sock_connected(d2)
           i == ISS
           e == [x EXCEPT !.state = "SYN_RECEIVED", !.snd_una = i]
           f == tcp_send_synack(e)
           err == "ECONNREFUSED"
           g == [s EXCEPT !.poll = {"OUT", "ERR", "HUP"}, !.err = err]
           Same(t) == t.rq = s.rq /\ (t.ofo = s.ofo \/ t.ofo = << >>) /\ t.psh = s.psh
<1>1. k \in Nat /\ u \in Nat /\ r \in Nat /\ i \in Nat
  BY TcpConstants DEF InSegment
<1>2. \/ tcp_synsent(s, th) = s
      \/ tcp_synsent(s, th) = tcp_done(g)
      \/ tcp_synsent(s, th) = d3
      \/ tcp_synsent(s, th) = f
  BY DEF tcp_synsent, tcp_reset
<1> HIDE DEF k, u, r, i
<1>3. \A t, w : Same(t) /\ SameRead(t, w) => Same(w)
  BY DEF SameRead, Keeps
<1>4. a \in Tsk /\ Same(a)
  BY <1>1 DEF Tsk
<1> HIDE DEF a
<1>5. a2 \in Tsk /\ Same(a2)
  BY <1>1, <1>4 DEF Tsk
<1> HIDE DEF a2
<1>6. a3 \in Tsk /\ Same(a3)
  <2>1. SameRead(a2, a3)
    BY <1>1, <1>5, CleanRead
  <2> HIDE DEF a3, Same
  <2> QED
    BY <1>3, <1>5, <2>1 DEF SameRead, Keeps
<1> HIDE DEF a3
<1>7. x \in Tsk /\ Same(x)
  BY <1>4, <1>6
<1> HIDE DEF x
<1>8. v \in Nat
  BY <1>7, Fields
<1> HIDE DEF v
<1>9. d \in Tsk /\ d.state = "ESTABLISHED" /\ Same(d)
  BY <1>1, <1>7, <1>8 DEF Tsk, TcpStates
<1>10. e \in Tsk /\ e.state = "SYN_RECEIVED" /\ Same(e)
  BY <1>1, <1>7 DEF Tsk, TcpStates
<1>11. g \in Tsk /\ Same(g)
  <2>1. {"OUT", "ERR", "HUP"} \in SUBSET PollEvents /\ err \in Errors
    BY DEF PollEvents, Errors
  <2> HIDE DEF err
  <2> QED
    BY <2>1 DEF Tsk
<1> HIDE DEF d, e, g
<1>12. SameRead(d, d1) /\ d1 \in Tsk
  BY <1>9, LightRead DEF SameRead, Keeps
<1> HIDE DEF d1
<1>13. SameRead(d1, d2) /\ d2 \in Tsk
  BY <1>12, TimersRead DEF SameRead, Keeps
<1> HIDE DEF d2
<1>14. SameRead(e, f) /\ SameRead(g, tcp_done(g)) /\ tcp_done(g).state = "CLOSING"
  BY <1>10, <1>11, LightRead, DoneRead, DoneQueue
<1> HIDE DEF f
<1>15. Same(d2) /\ Same(f) /\ Same(tcp_done(g))
  <2> HIDE DEF Same
  <2> QED
    BY <1>3, <1>9, <1>10, <1>11, <1>12, <1>13, <1>14
<1>16. d3.rq = d2.rq /\ d3.ofo = d2.ofo /\ d3.psh = d2.psh /\ d3.state = d2.state
  BY <1>13 DEF sock_connected, Tsk
<1> HIDE DEF d3
<1>17. d3.state \notin Passive /\ f.state \notin Passive /\ tcp_done(g).state \notin Passive
  BY <1>9, <1>10, <1>12, <1>13, <1>14, <1>16 DEF SameRead, Passive
<1>18. ASSUME NEW t, Same(t), t.state \notin Passive PROVE DataOK(t, n, m, c, b)
  BY <1>18 DEF DataOK, Within
<1> QED
  BY <1>2, <1>15, <1>16, <1>17, <1>18

\* A whole segment.
LEMMA SegmentData ==
    ASSUME NEW s \in Tsk, NEW n \in Nat, NEW th \in InSegment, NEW r \in Nat, NEW pc,
           StreamOK(s, n), ReadOK(s, pc), SegmentOK(th), SegmentWithin(th),
           s.state \notin Before,
           NEW m \in Nat, NEW c, NEW b, DataOK(s, n, m, c, b), WasSent(th, m, c)
    PROVE  LET a == ProcessAck(s, th, r) IN
           DataOK(tcp_done(a), n, m, c, b) /\ DataOK(ProcessRest(a, th), n, m, c, b)
<1> DEFINE a == ProcessAck(s, th, r)
           q == QueueEmptied(a, th)
           expected == th.seq = q.rcv_nxt
           x == ProcessText(q, th)
           d == ProcessFin(x, th, expected)
           e == SendMoreOrAck(d, th, expected)
<1>1. /\ SameRead(s, a) /\ Keeps(s, a) /\ a \in Tsk
      /\ a.state = IF s.state = "SYN_RECEIVED" THEN "ESTABLISHED" ELSE s.state
  <2>1. SameRead(s, a)
    BY ProcessAckRead
  <2>2. Keeps(s, a) /\ a.state = IF s.state = "SYN_RECEIVED" THEN "ESTABLISHED" ELSE s.state
    BY ProcessAckKeeps
  <2> HIDE DEF a
  <2> QED
    BY <2>1, <2>2 DEF Keeps
<1>2. ProcessRest(a, th) = e
  BY DEF ProcessRest
<1> HIDE DEF a
<1>3. ReadOK(a, pc) /\ StreamOK(a, n) /\ DataOK(a, n, m, c, b)
  BY <1>1, SameReadOK, KeepsStream, SameReadData
<1>4. a.state \in Synchronized
  BY <1>1, Fields DEF Synchronized, Before, TcpStates
<1>5. DataOK(tcp_done(a), n, m, c, b)
  BY <1>1, <1>3, DoneRead, SameReadData
<1>6. /\ q \in Tsk /\ q.state \in Synchronized /\ StreamOK(q, n) /\ ReadOK(q, pc)
      /\ DataOK(q, n, m, c, b)
  <2>1. /\ Keeps(a, q) /\ q.state \in Synchronized /\ ReadOK(q, pc)
        /\ DataOK(q, n, m, c, b)
    BY <1>1, <1>3, <1>4, QueueEmptiedKeeps, QueueEmptiedRead, QueueEmptiedData
  <2> HIDE DEF q
  <2>2. StreamOK(q, n)
    BY <1>3, <2>1, KeepsStream
  <2> QED
    BY <2>1, <2>2 DEF Keeps
<1>7. th.fin /\ expected =>
         /\ q.state \notin Passive
         /\ q.state \in TextStates => x.rcv_nxt = IRS + 1 + PeerBytes
  <2> HIDE DEF q
  <2> QED
    BY <1>6, FinExpected
<1> HIDE DEF q
<1>8. x \in Tsk /\ x.state = q.state /\ DataOK(x, n, m, c, b)
  <2>1. SameQueue(q, x) /\ x.state = q.state
    BY <1>6, ProcessTextQueue
  <2>2. DataOK(x, n, m, c, b)
    BY <1>6, TextData
  <2> QED
    BY <2>1, <2>2 DEF SameQueue
<1>9. StreamOK(x, n)
  <2>1. CASE q.state \in TextStates /\ (th.psh \/ th.dlen > 0)
    <3>1. x = tcp_data_queue(q, th)
      BY <2>1 DEF ProcessText
    <3>2. th.seq = IRS + th.data
      BY <2>1 DEF SegmentOK
    <3> QED
      BY <1>6, <2>1, <3>1, <3>2, DataQueueStream
  <2>2. CASE ~(q.state \in TextStates /\ (th.psh \/ th.dlen > 0))
    BY <1>6, <2>2 DEF ProcessText
  <2> QED
    BY <2>1, <2>2
<1> HIDE DEF x
<1>10. expected \in BOOLEAN
  OBVIOUS
<1> HIDE DEF expected
<1>11. d \in Tsk /\ DataOK(d, n, m, c, b)
  <2>1. Keeps(x, d)
    BY <1>6, <1>8, <1>10, ProcessFinKeeps
  <2>2. DataOK(d, n, m, c, b)
    BY <1>6, <1>7, <1>8, <1>9, <1>10, FinData
  <2> QED
    BY <2>1, <2>2 DEF Keeps
<1> HIDE DEF d
<1>12. SameRead(d, e)
  BY <1>10, <1>11, SendMoreRead
<1> HIDE DEF e
<1>13. DataOK(e, n, m, c, b)
  BY <1>11, <1>12, SameReadData
<1>14. DataOK(tcp_done(a), n, m, c, b) /\ DataOK(ProcessRest(a, th), n, m, c, b)
  BY <1>2, <1>5, <1>13
<1> QED
  BY <1>14 DEF a

\* The bytes a peer p has sent, and whether it has closed.
PeerSent(p) == IF p.snd > PeerBytes THEN PeerBytes ELSE p.snd

PeerClosed(p) == p.snd > PeerBytes

\* A peer has been only where it has come through.
HistOK(p) == \A h \in p.hist : h.snd <= p.snd

\* What arrives was sent.
LEMMA InFlightSent ==
    ASSUME peer \in PeerType, HistOK(peer), NEW th \in InFlight
    PROVE  WasSent(th, PeerSent(peer), PeerClosed(peer))
<1>1. IRS \in Nat /\ PeerBytes \in Nat /\ peer.snd \in Nat
  BY TcpConstants, TcpRunConstants DEF PeerType
<1>2. \A p \in peer.hist : p.snd \in Nat /\ p.snd <= peer.snd
  BY DEF PeerType, HistOK
<1>3. CASE th \in Handshake
  <2>1. th.psh = FALSE /\ th.dlen = 0 /\ th.fin = FALSE
    BY <1>3 DEF Handshake, NoFlags
  <2> QED
    BY <2>1 DEF WasSent
<1>4. CASE th \in Resets
  <2>1. th.psh = FALSE /\ th.dlen = 0 /\ th.fin = FALSE
    BY <1>4 DEF Resets, NoFlags
  <2> QED
    BY <2>1 DEF WasSent
<1>5. ASSUME NEW p \in peer.hist, th \in PeerData(p)
      PROVE  WasSent(th, PeerSent(peer), PeerClosed(peer))
  <2>1. PICK x \in (0..PeerBytes) \X (0..PeerBytes) \X BOOLEAN :
           /\ x[1] < x[2] /\ x[2] <= p.snd
           /\ th = [NoFlags EXCEPT !.seq = IRS + 1 + x[1], !.data = x[1] + 1,
                     !.dlen = x[2] - x[1], !.ack = TRUE, !.ack_seq = p.ack,
                     !.psh = x[3]]
    BY <1>5 DEF PeerData
  <2>2. x[1] \in Nat /\ x[2] \in Nat /\ x[2] <= PeerBytes
    BY <1>1
  <2>3. th.dlen = x[2] - x[1] /\ th.data = x[1] + 1 /\ th.fin = FALSE
    BY <2>1 DEF NoFlags
  <2>4. x[2] <= PeerSent(peer) /\ PeerSent(peer) \in Nat
    BY <1>1, <1>2, <1>5, <2>1, <2>2 DEF PeerSent
  <2> QED
    BY <2>1, <2>2, <2>3, <2>4 DEF WasSent
<1>6. ASSUME NEW p \in peer.hist, th \in PeerFin(p)
      PROVE  WasSent(th, PeerSent(peer), PeerClosed(peer))
  <2>1. PICK lo \in 0..PeerBytes :
           th = [NoFlags EXCEPT !.seq = IRS + 1 + lo, !.data = lo + 1,
                     !.dlen = PeerBytes - lo, !.ack = TRUE, !.ack_seq = p.ack,
                     !.fin = TRUE]
    BY <1>6 DEF PeerFin
  <2>2. lo \in Nat /\ lo <= PeerBytes
    BY <1>1
  <2>3. th.data = lo + 1 /\ th.dlen = PeerBytes - lo /\ th.psh = FALSE
    BY <2>1 DEF NoFlags
  <2>4. peer.snd > PeerBytes
    <3>1. ~(p.snd <= PeerBytes)
      BY <1>6 DEF PeerFin
    <3> QED
      BY <1>1, <1>2, <3>1
  <2>5. PeerSent(peer) = PeerBytes /\ PeerClosed(peer)
    BY <2>4 DEF PeerSent, PeerClosed
  <2> QED
    BY <1>1, <2>2, <2>3, <2>5 DEF WasSent
<1>7. ASSUME NEW p \in peer.hist, th \in PeerAck(p)
      PROVE  WasSent(th, PeerSent(peer), PeerClosed(peer))
  <2>1. th.psh = FALSE /\ th.dlen = 0 /\ th.fin = FALSE
    BY <1>7 DEF PeerAck, NoFlags
  <2> QED
    BY <2>1 DEF WasSent
<1> QED
  BY <1>3, <1>4, <1>5, <1>6, <1>7 DEF InFlight

\* An arriving segment leaves what is queued among what was sent.
LEMMA CoreData ==
    ASSUME TypeOK, ReaderOK, StreamOK(tsk, Len(delivered)), HistOK(peer), CoreNext,
           NEW b, DataOK(tsk, Len(delivered), PeerSent(peer), PeerClosed(peer), b)
    PROVE  DataOK(tsk', Len(delivered), PeerSent(peer), PeerClosed(peer), b)
<1> DEFINE n == Len(delivered)
           m == PeerSent(peer)
           c == PeerClosed(peer)
<1>1. tsk \in Tsk /\ peer \in PeerType /\ n \in Nat /\ ReadOK(tsk, app.pc)
  BY DEF TypeOK, ReaderOK
<1>2. PICK th \in InFlight :
         \/ RcvSynSent(th) \/ RcvUnacceptable(th) \/ RcvReset(th)
         \/ \E r \in RttSamples : RcvSegment(th, r)
  BY DEF CoreNext
<1>3. /\ th \in InSegment /\ SegmentOK(th) /\ SegmentWithin(th)
      /\ WasSent(th, m, c)
  BY <1>1, InFlightTyping, InFlightPlaced, InFlightWithin, InFlightSent
<1>4. m \in Nat
  BY <1>1, TcpRunConstants DEF PeerSent, PeerType
<1>5. DataOK(tsk, n, m, c, b) /\ StreamOK(tsk, n)
  OBVIOUS
<1>6. tsk.state # "CLOSE"
  BY <1>2 DEF RcvSynSent, RcvUnacceptable, RcvReset, RcvSegment, Arrives
<1> HIDE DEF n, m, c
<1>7. ASSUME RcvSynSent(th) PROVE DataOK(tsk', n, m, c, b)
  <2>1. tsk.state = "SYN_SENT" /\ tsk' = tcp_synsent(tsk, th)
    BY <1>7 DEF RcvSynSent
  <2>2. DataOK(tcp_synsent(tsk, th), n, m, c, b)
    BY <1>1, <1>3, <1>5, <2>1, SynsentData
  <2> QED
    BY <2>1, <2>2
<1>8. ASSUME RcvUnacceptable(th) PROVE DataOK(tsk', n, m, c, b)
  <2>1. tsk' = tcp_send_ack(tsk)
    BY <1>8 DEF RcvUnacceptable
  <2>2. SameRead(tsk, tcp_send_ack(tsk))
    BY <1>1, LightRead
  <2>3. DataOK(tcp_send_ack(tsk), n, m, c, b)
    BY <1>5, <2>2, SameReadData
  <2> QED
    BY <2>1, <2>3
<1>9. ASSUME RcvReset(th) PROVE DataOK(tsk', n, m, c, b)
  <2>1. tsk' = tcp_recv_notify(tcp_enter_time_wait(tsk))
    BY <1>9 DEF RcvReset
  <2>2. DataOK(tcp_recv_notify(tcp_enter_time_wait(tsk)), n, m, c, b)
    BY <1>1, <1>5, ResetData
  <2> QED
    BY <2>1, <2>2
<1>10. ASSUME NEW r \in RttSamples, RcvSegment(th, r) PROVE DataOK(tsk', n, m, c, b)
  <2> DEFINE a == ProcessAck(tsk, th, r)
  <2>1. r \in Nat
    BY TcpRunConstants
  <2>2. tsk' = tcp_done(a) \/ tsk' = ProcessRest(a, th)
    BY <1>10 DEF RcvSegment
  <2>3. tsk.state \notin Before
    BY <1>6, <1>10 DEF RcvSegment, Before
  <2>4. DataOK(tcp_done(a), n, m, c, b) /\ DataOK(ProcessRest(a, th), n, m, c, b)
    BY <1>1, <1>3, <1>4, <1>5, <2>1, <2>3, SegmentData
  <2> HIDE DEF a
  <2> QED
    BY <2>2, <2>4
<1>11. DataOK(tsk', n, m, c, b)
  BY <1>2, <1>7, <1>8, <1>9, <1>10
<1> QED
  BY <1>11 DEF n, m, c

\* When the peer sends more or closes, and when a read() goes on, DataOK remains.
LEMMA DataLater ==
    ASSUME NEW s \in Tsk, NEW n \in Nat, NEW m \in Nat, NEW c, NEW b,
           DataOK(s, n, m, c, b),
           NEW k \in Nat, m <= k, NEW d, c => d, NEW e, b => e
    PROVE  DataOK(s, n, k, d, e)
<1>1. ASSUME NEW q \in Seq(ReadSkb), Within(q, m) PROVE Within(q, k)
  <2>1. \A j \in 1..Len(q) : q[j].data \in Nat /\ q[j].dlen \in Nat
    <3>1. \A j \in 1..Len(q) : q[j] \in ReadSkb
      OBVIOUS
    <3>2. \A x \in ReadSkb : x.data \in Nat /\ x.dlen \in Nat
      BY DEF ReadSkb
    <3> QED
      BY <3>1, <3>2
  <2> QED
    BY <1>1, <2>1 DEF Within
<1>2. s.rq \in Seq(ReadSkb) /\ s.ofo \in Seq(ReadSkb)
  BY Fields
<1> QED
  BY <1>1, <1>2 DEF DataOK

\* A read() in the middle of which bytes have been copied.
Copied == app.pc = "copy" /\ app.rlen > 0

\* What the peer has sent and what the application may still read.
DataNow == DataOK(tsk, Len(delivered), PeerSent(peer), PeerClosed(peer), Copied)

\* The other calls of the application and the timers receive and read nothing.
LEMMA CallsData ==
    ASSUME TypeInv, DataNow,
           \/ Connect \/ ConnectWoken \/ ConnectFree
           \/ (\E len \in WriteSizes : Write(len)) \/ Close \/ TimerNext
    PROVE  DataNow'
<1>1. TypeOK
  BY DEF TypeInv
<1>2. SameRead(tsk, tsk')
  BY <1>1, ConnectSame, WriteCloseSame, TimerRead
<1>3. UNCHANGED << delivered, peer >> /\ (app.pc # "copy" \/ app' = app)
  BY <1>1, TimerRead DEF Connect, ConnectWoken, ConnectFree, Write, Close,
     TimerNext, Expire, ExpireUnowned, RunHandler
<1>4. DataOK(tsk', Len(delivered), PeerSent(peer), PeerClosed(peer), Copied)
  BY <1>2, SameReadData DEF DataNow
<1>5. Copied => Copied'
  BY <1>3 DEF Copied
<1> QED
  BY <1>3, <1>4, <1>5 DEF DataNow, DataOK

\* The peer sends more, or closes, or does neither.
LEMMA PeerStepData ==
    ASSUME TypeOK, HistOK(peer), DataNow, PeerNext
    PROVE  /\ HistOK(peer') /\ DataNow'
           /\ peer'.snd \in {peer.snd, peer.snd + 1}
           /\ peer'.snd # peer.snd => peer.snd <= PeerBytes
<1>1. peer \in PeerType /\ peer.snd \in Nat /\ tsk \in Tsk /\ Len(delivered) \in Nat
  BY DEF TypeOK, PeerType
<1>2. UNCHANGED << tsk, app, delivered >>
  BY DEF PeerNext, PeerReceive, PeerSend, PeerReset
<1>3. /\ HistOK(peer') /\ peer'.snd \in {peer.snd, peer.snd + 1}
      /\ peer'.snd # peer.snd => peer.snd <= PeerBytes
  <2>1. CASE PeerSend
    <3> DEFINE k == peer.snd + 1
               h == peer.hist \cup {[snd |-> peer.snd + 1, ack |-> peer.rcv_nxt]}
    <3>1. peer' = [peer EXCEPT !.snd = k, !.hist = h]
      BY <2>1 DEF PeerSend
    <3>2. peer.snd < PeerBytes + 1 \/ peer.snd < PeerBytes + 0
      BY <2>1 DEF PeerSend
    <3>3. k = peer.snd + 1 /\ \A x \in h : x.snd <= k
      <4>1. \A x \in peer.hist : x.snd \in Nat /\ x.snd <= peer.snd
        BY <1>1 DEF PeerType, HistOK
      <4> QED
        BY <1>1, <4>1
    <3> HIDE DEF k, h
    <3>4. peer'.snd = k /\ peer'.hist = h
      BY <1>1, <3>1 DEF PeerType
    <3>5. peer.snd <= PeerBytes
      BY <1>1, <3>2, TcpRunConstants
    <3> QED
      BY <3>3, <3>4, <3>5 DEF HistOK
  <2>2. CASE PeerReset
    <3> DEFINE r == IRS + 1 + peer.snd
    <3>1. peer' = [peer EXCEPT !.rst = r]
      BY <2>2 DEF PeerReset
    <3> HIDE DEF r
    <3> QED
      BY <1>1, <3>1 DEF PeerType, HistOK
  <2>3. ASSUME NEW seg \in tsk.wire, PeerReceive(seg)
        PROVE  HistOK(peer') /\ peer'.snd = peer.snd
    <3> DEFINE m == seg.seq + 1
               k == {[snd |-> 0, ack |-> seg.seq + 1]}
               end == seg.seq + seg.dlen + (IF seg.fin THEN 1 ELSE 0)
               skip == peer.rcv_nxt - seg.seq
               g == peer.got \o [i \in 1..(seg.dlen - skip) |-> seg.data + skip + i - 1]
               h == peer.hist \cup {[snd |-> peer.snd, ack |-> end]}
               f == seg.fin
    <3>1. \/ peer' = [peer EXCEPT !.rcv_nxt = m, !.hist = k]
          \/ peer' = [peer EXCEPT !.rcv_nxt = end, !.got = g, !.fin = f, !.hist = h]
      BY <2>3, Zenon DEF PeerReceive
    <3>2. \A x \in k : x.snd <= peer.snd
      BY <1>1
    <3> HIDE DEF end
    <3>3. \A x \in h : x.snd <= peer.snd
      BY <1>1 DEF HistOK
    <3> HIDE DEF m, k, skip, g, h, f
    <3>4. peer'.snd = peer.snd /\ (peer'.hist = k \/ peer'.hist = h)
      BY <1>1, <3>1 DEF PeerType
    <3> QED
      BY <3>2, <3>3, <3>4 DEF HistOK
  <2> QED
    BY <2>1, <2>2, <2>3 DEF PeerNext
<1>4. /\ PeerSent(peer) \in Nat /\ PeerSent(peer') \in Nat
      /\ PeerSent(peer) <= PeerSent(peer')
      /\ PeerClosed(peer) => PeerClosed(peer')
  BY <1>1, <1>3, TcpRunConstants DEF PeerSent, PeerClosed
<1>5. DataOK(tsk, Len(delivered), PeerSent(peer'), PeerClosed(peer'), Copied)
  <2> DEFINE n == Len(delivered)
             m == PeerSent(peer)
             c == PeerClosed(peer)
             k == PeerSent(peer')
             d == PeerClosed(peer')
             b == Copied
  <2>1. n \in Nat /\ m \in Nat /\ k \in Nat /\ m <= k /\ (c => d) /\ (b => b)
    BY <1>1, <1>4
  <2>2. DataOK(tsk, n, m, c, b)
    BY DEF DataNow
  <2> HIDE DEF n, m, c, k, d, b
  <2>3. DataOK(tsk, n, k, d, b)
    BY <1>1, <2>1, <2>2, DataLater
  <2> QED
    BY <2>3 DEF n, k, d, b
<1>6. DataNow'
  BY <1>2, <1>5 DEF DataNow, Copied
<1> QED
  BY <1>3, <1>6

\* A read() that waits or copies wants something.
WantOK == app.pc \in {"copy", "reading"} => app.want > 0

\* read(), but for the copying of a buffer.
LEMMA ReadCallsData ==
    ASSUME TypeOK, DataNow, WantOK,
           ReadAtEnd \/ (\E len \in ReadSizes : Read(len)) \/ CopyDone \/ ReadWoken
    PROVE  DataNow' /\ WantOK'
<1>1. tsk \in Tsk /\ app \in AppType
  BY DEF TypeOK
<1>2. UNCHANGED << delivered, peer >>
  BY DEF ReadAtEnd, Read, CopyDone, ReadWoken
<1>3. ASSUME tsk'.rq = tsk.rq, tsk'.ofo = tsk.ofo, tsk'.state = tsk.state, ~tsk'.psh
      PROVE  DataNow'
  BY <1>2, <1>3 DEF DataNow, DataOK
<1>4. app.pc # "copy" => ~tsk.psh
  BY DEF DataNow, DataOK, Copied
<1>5. CASE ReadAtEnd
  <2> DEFINE t == [tsk EXCEPT !.fin = FALSE]
  <2>1. app.pc = "idle" /\ app'.pc = "idle" /\ (tsk' = tsk \/ tsk' = t)
    BY <1>1, <1>5 DEF ReadAtEnd, AppType
  <2>2. t.rq = tsk.rq /\ t.ofo = tsk.ofo /\ t.state = tsk.state /\ t.psh = tsk.psh
    BY <1>1 DEF Tsk
  <2> HIDE DEF t
  <2> QED
    BY <1>3, <1>4, <2>1, <2>2 DEF WantOK
<1>6. ASSUME NEW len \in ReadSizes, Read(len) PROVE DataNow' /\ WantOK'
  <2>1. tsk' = tsk /\ app.pc = "idle" /\ app'.want = len
    BY <1>1, <1>6 DEF Read, AppType
  <2>2. len > 0
    BY TcpRunConstants
  <2> QED
    BY <1>3, <1>4, <2>1, <2>2 DEF WantOK
<1>7. CASE CopyDone
  <2> DEFINE p == tsk.poll \ {"IN"}
             x == [tsk EXCEPT !.poll = p]
             s == IF tsk.rq = << >> /\ ~tsk.fin THEN x ELSE tsk
             a == [s EXCEPT !.psh = FALSE]
             t == tcp_rearm_user_timeout(a)
             b == [s EXCEPT !.recv_wait = "asleep"]
  <2>1. /\ app.pc = "copy" /\ app'.want = app.want
        /\ \/ tsk' = t
           \/ ~tsk.psh /\ tsk' = s
           \/ ~tsk.psh /\ tsk' = b
    BY <1>1, <1>7 DEF CopyDone, AppType
  <2>2. p \in SUBSET PollEvents
    BY <1>1, Fields
  <2> HIDE DEF p
  <2>3. /\ x \in Tsk /\ x.state = tsk.state /\ x.psh = tsk.psh
        /\ x.rq = tsk.rq /\ x.ofo = tsk.ofo
    BY <1>1, <2>2 DEF Tsk
  <2> HIDE DEF x
  <2>4. /\ s \in Tsk /\ s.state = tsk.state /\ s.psh = tsk.psh
        /\ s.rq = tsk.rq /\ s.ofo = tsk.ofo
    BY <1>1, <2>3
  <2> HIDE DEF s
  <2>5. /\ a \in Tsk /\ a.state = tsk.state /\ a.psh = FALSE
        /\ a.rq = tsk.rq /\ a.ofo = tsk.ofo
        /\ b.state = tsk.state /\ b.psh = tsk.psh
        /\ b.rq = tsk.rq /\ b.ofo = tsk.ofo
    BY <2>4 DEF Tsk
  <2> HIDE DEF a, b
  <2>6. t.state = tsk.state /\ t.psh = FALSE /\ t.rq = tsk.rq /\ t.ofo = tsk.ofo
    <3>1. SameRead(a, t) /\ t.state = a.state /\ t.ofo = a.ofo
      BY <2>5, TimersRead DEF tcp_rearm_user_timeout
    <3> QED
      BY <2>5, <3>1 DEF SameRead, Keeps
  <2> HIDE DEF t
  <2>7. DataNow'
    BY <1>3, <2>1, <2>4, <2>5, <2>6
  <2> QED
    BY <2>1, <2>7 DEF WantOK
<1>8. CASE ReadWoken
  <2> DEFINE t == [tsk EXCEPT !.recv_wait = "idle"]
  <2>1. /\ tsk' = t /\ app.pc = "reading" /\ app'.pc = "copy"
        /\ app'.want = app.want
    BY <1>1, <1>8 DEF ReadWoken, AppType
  <2>2. t.rq = tsk.rq /\ t.ofo = tsk.ofo /\ t.state = tsk.state /\ t.psh = tsk.psh
    BY <1>1 DEF Tsk
  <2> HIDE DEF t
  <2> QED
    BY <1>3, <1>4, <2>1, <2>2 DEF WantOK
<1> QED
  BY <1>5, <1>6, <1>7, <1>8

\* The copying of a buffer delivers at least one byte, only bytes that were
\* sent, and leaves the bytes delivered before as they were.
LEMMA CopySkbData ==
    ASSUME TypeOK, DataNow, StreamOK(tsk, Len(delivered)), InOrder, CopySkb
    PROVE  /\ DataNow' /\ (WantOK => WantOK')
           /\ Len(delivered') > Len(delivered) /\ Len(delivered') <= PeerSent(peer)
           /\ SubSeq(delivered', 1, Len(delivered)) = delivered
<1> DEFINE skb == tsk.rq[1]
           w == app.want - app.rlen
           k == MinOf(skb.dlen, w)
           f == [i \in 1..k |-> skb.data + i - 1]
           l == skb.dlen - k
           e == skb.data + k
           y == [skb EXCEPT !.dlen = l, !.data = e]
           p == tsk.psh \/ skb.psh
           q == Tail(tsk.rq)
           r == [tsk.rq EXCEPT ![1] = y]
           a == [tsk EXCEPT !.rq = q, !.psh = p]
           b == [tsk EXCEPT !.rq = r]
           n == Len(delivered)
           m == PeerSent(peer)
<1>1. /\ tsk \in Tsk /\ app \in AppType /\ tsk.rq \in Seq(ReadSkb)
      /\ delivered \in Seq(Nat) /\ app.want \in Nat /\ app.rlen \in Nat
      /\ n \in Nat /\ m \in Nat
  <2>1. peer.snd \in Nat
    BY DEF TypeOK, PeerType
  <2> QED
    BY <2>1, Fields, TcpRunConstants DEF TypeOK, AppType, PeerSent
<1>2. tsk.rq # << >> /\ app.rlen < app.want /\ app.pc = "copy"
  BY DEF CopySkb
<1>3. skb \in ReadSkb /\ Head(tsk.rq) = skb /\ 1 \in 1..Len(tsk.rq)
  BY <1>1, <1>2
<1>4. /\ delivered' = delivered \o f
      /\ app' = [app EXCEPT !.rlen = app.rlen + k]
      /\ (k = skb.dlen /\ tsk' = a) \/ (k # skb.dlen /\ tsk' = b)
      /\ peer' = peer
  <2>1. delivered' = delivered \o f /\ app' = [app EXCEPT !.rlen = app.rlen + k]
    BY <1>3 DEF CopySkb
  <2>2. k = skb.dlen => tsk' = a
    BY <1>3 DEF CopySkb
  <2>3. k # skb.dlen => tsk' = b
    BY <1>3 DEF CopySkb
  <2>4. peer' = peer
    BY DEF CopySkb
  <2> HIDE DEF skb, k, f, a, b
  <2> QED
    BY <2>1, <2>2, <2>3, <2>4
<1>4a. delivered' = delivered \o f
  BY <1>4
<1>5. /\ Within(tsk.rq, m) /\ Within(tsk.ofo, m)
      /\ tsk.state \in Passive => PeerClosed(peer) /\ StreamEnd(tsk.rq, n) = PeerBytes + 1
  BY DEF DataNow, DataOK
<1>6. skb.data = n + 1
  BY <1>3 DEF StreamOK, Contiguous
<1>7. skb.dlen > 0 /\ skb.data + skb.dlen <= m + 1
  BY <1>3, <1>5 DEF Within
<1> HIDE DEF skb
<1>8. skb.dlen \in Nat /\ skb.data \in Nat
  BY <1>3 DEF ReadSkb
<1>9. k \in 1..skb.dlen
  <2> DEFINE d == skb.dlen
  <2>1. d \in Nat /\ d > 0 /\ w \in Nat /\ w > 0
    BY <1>1, <1>2, <1>7, <1>8
  <2>2. k = IF d <= w THEN d ELSE w
    BY DEF MinOf
  <2> HIDE DEF d, w, k
  <2>3. k \in 1..d
    BY <2>1, <2>2
  <2> QED
    BY <2>3 DEF d
<1> HIDE DEF w, k
<1>10. /\ k \in Nat /\ k > 0 /\ l \in Nat /\ e \in Nat /\ n + k <= m
       /\ k # skb.dlen => l > 0
       /\ e + l = skb.data + skb.dlen
       /\ \A i \in 1..k : skb.data + i - 1 \in Nat
  <2> DEFINE d == skb.dlen
             c == skb.data
  <2>1. /\ d \in Nat /\ c \in Nat /\ n \in Nat /\ m \in Nat /\ k \in 1..d
        /\ c = n + 1 /\ c + d <= m + 1
    BY <1>1, <1>6, <1>7, <1>8, <1>9
  <2> HIDE DEF d, c, n, m
  <2>2. /\ k \in Nat /\ k > 0 /\ d - k \in Nat /\ c + k \in Nat /\ n + k <= m
        /\ k # d => d - k > 0
        /\ (c + k) + (d - k) = c + d
        /\ \A i \in 1..k : c + i - 1 \in Nat
    BY <2>1
  <2> QED
    BY <2>2 DEF d, c
<1>11. /\ Len(delivered') = n + k
       /\ SubSeq(delivered', 1, n) = delivered
  <2>1. f \in Seq(Nat) /\ Len(f) = k
    BY <1>10
  <2> HIDE DEF f
  <2>2. Len(delivered') = n + k
    <3>1. Len(delivered') = Len(delivered) + Len(f)
      BY <1>1, <1>4a, <2>1, ConcatProperties
    <3> QED
      BY <2>1, <3>1
  <2>3. SubSeq(delivered', 1, n) = delivered
    <3>1. /\ delivered' \in Seq(Nat) /\ n <= Len(delivered')
          /\ \A i \in 1..n : delivered'[i] = delivered[i]
      BY <1>1, <1>4a, <2>1, ConcatProperties
    <3> QED
      BY <1>1, <3>1
  <2> QED
    BY <1>4a, <2>2, <2>3
<1> HIDE DEF l, e
<1>12. y \in ReadSkb /\ y.dlen = l /\ y.data = e
  BY <1>3, <1>10 DEF ReadSkb
<1> HIDE DEF y
<1>13. r \in Seq(ReadSkb) /\ q \in Seq(ReadSkb)
  BY <1>1, <1>2, <1>3, <1>12
<1>14. k # skb.dlen => Within(r, m)
  <2>1. Len(r) = Len(tsk.rq) /\ r[1] = y /\ \A j \in 1..Len(r) : j # 1 => r[j] = tsk.rq[j]
    BY <1>1, <1>3
  <2> HIDE DEF r
  <2> QED
    BY <1>5, <1>7, <1>10, <1>12, <2>1 DEF Within
<1>15. Within(q, m)
  <2>1. Len(q) = Len(tsk.rq) - 1 /\ \A j \in 1..Len(q) : q[j] = tsk.rq[j + 1]
    BY <1>1, <1>2
  <2>2. Len(tsk.rq) \in Nat /\ \A j \in 1..(Len(tsk.rq) - 1) : j + 1 \in 1..Len(tsk.rq)
    BY <1>1
  <2> HIDE DEF q
  <2> QED
    BY <1>5, <2>1, <2>2 DEF Within
<1> HIDE DEF r, q, p
<1>16. /\ a.state = tsk.state /\ a.ofo = tsk.ofo /\ a.rq = q
       /\ b.state = tsk.state /\ b.ofo = tsk.ofo /\ b.rq = r
  BY <1>1 DEF Tsk
<1> HIDE DEF a, b
<1>17. tsk'.state = tsk.state /\ tsk'.ofo = tsk.ofo /\ Within(tsk'.rq, m)
  BY <1>4, <1>14, <1>15, <1>16
<1>18. app'.pc = "copy" /\ app'.rlen > 0 /\ app'.want = app.want
  <2>1. app.rlen + k > 0
    BY <1>1, <1>10
  <2> QED
    BY <1>1, <1>2, <1>4, <2>1 DEF AppType
<1>19. StreamEnd(tsk'.rq, Len(delivered')) = StreamEnd(tsk.rq, n)
  BY CopyStream
<1>20. DataOK(tsk', Len(delivered'), m, PeerClosed(peer), TRUE)
  BY <1>5, <1>10, <1>11, <1>17, <1>19 DEF DataOK
<1>21. DataNow'
  <2>1. Copied'
    BY <1>18 DEF Copied
  <2> QED
    BY <1>4, <1>20, <2>1 DEF DataNow, DataOK
<1>22. WantOK => WantOK'
  BY <1>2, <1>18 DEF WantOK
<1> QED
  BY <1>1, <1>10, <1>11, <1>21, <1>22

\* Until close(), nothing of ours ends the stream.
UnclosedNow == app.pc # "closed" => Unclosed(tsk)

\* The calls of the application, but for close().
LEMMA CallsUnclosed ==
    ASSUME ConnInv, Unclosed(tsk),
           \/ Connect \/ ConnectWoken \/ ConnectFree
           \/ \E len \in WriteSizes : Write(len)
    PROVE  Unclosed(tsk')
<1>1. tsk \in Tsk /\ wrote \in Nat
  BY DEF ConnInv, TypeInv, TypeOK
<1>2. CASE Connect
  <2> DEFINE a == tcp_connect(tsk)
             w == IF app.nonblock THEN "idle" ELSE "asleep"
  <2>1. tsk = NewSock /\ tsk.state = "CLOSE"
    BY <1>2 DEF ConnInv, TypeInv, Fresh, Connect, NewSock
  <2>2. Unclosed(a) /\ a \in Tsk
    BY <1>1, <2>1, ConnectUnclosed, ConnectKeeps
  <2>3. tsk' = [a EXCEPT !.ss = "CONNECTING", !.err = "EINPROGRESS", !.sleep = w]
    BY <1>2 DEF Connect
  <2> HIDE DEF a, w
  <2>4. tsk'.wq = a.wq /\ tsk'.state = a.state
    BY <2>2, <2>3 DEF Tsk
  <2> QED
    BY <2>2, <2>4 DEF Unclosed
<1>3. CASE ConnectWoken \/ ConnectFree
  <2> DEFINE c == IF tsk.err = "0" THEN "CONNECTED" ELSE tsk.ss
  <2>1. \/ tsk' = [tsk EXCEPT !.sleep = "idle", !.ss = c]
        \/ tsk' = [tsk EXCEPT !.freed = TRUE]
    BY <1>3 DEF ConnectWoken, ConnectFree
  <2> HIDE DEF c
  <2>2. tsk'.wq = tsk.wq /\ tsk'.state = tsk.state
    BY <1>1, <2>1 DEF Tsk
  <2> QED
    BY <2>2 DEF Unclosed
<1>4. ASSUME NEW len \in WriteSizes, Write(len) PROVE Unclosed(tsk')
  <2>1. len \in Nat \ {0} /\ wrote + 1 \in Nat
    BY <1>1, TcpRunConstants
  <2>2. tsk' = tcp_send(tsk, wrote + 1, len) /\ SendOK(tsk)
    BY <1>4 DEF Write, ConnInv
  <2>3. Unclosed(tcp_send(tsk, wrote + 1, len))
    BY <1>1, <2>1, <2>2, SendUnclosed
  <2> QED
    BY <2>2, <2>3
<1> QED
  BY <1>2, <1>3, <1>4

\* Only close() ends our stream.
LEMMA UnclosedStep ==
    ASSUME ConnInv, UnclosedNow, [Next]_vars
    PROVE  UnclosedNow'
<1>1. TypeOK /\ app \in AppType /\ (app.pc = "start" => tsk.state = "CLOSE")
  BY DEF ConnInv, TypeInv, TypeOK, Fresh, NewSock
<1>2. CASE UNCHANGED << tsk, app >>
  BY <1>2 DEF UnclosedNow, Unclosed
<1>3. CASE Close
  BY <1>1, <1>3 DEF Close, AppType, UnclosedNow
<1>4. CASE \/ Connect \/ ConnectWoken \/ ConnectFree
           \/ \E len \in WriteSizes : Write(len)
  <2>1. app.pc # "closed"
    BY <1>4 DEF Connect, ConnectWoken, ConnectFree, Write
  <2> QED
    BY <1>4, <2>1, CallsUnclosed DEF UnclosedNow
<1>5. CASE \/ ReadAtEnd \/ (\E len \in ReadSizes : Read(len))
           \/ CopySkb \/ CopyDone \/ ReadWoken
  <2>1. app.pc # "closed"
    BY <1>5 DEF ReadAtEnd, Read, CopySkb, CopyDone, ReadWoken
  <2> QED
    BY <1>1, <1>5, <2>1, ReadsQueue DEF UnclosedNow, Unclosed
<1>6. CASE TimerNext
  BY <1>1, <1>6, TimerUnclosed, TimerRead DEF UnclosedNow
<1>7. CASE CoreNext
  <2>1. app' = app /\ tsk.state # "CLOSE"
    BY <1>7 DEF CoreNext, RcvSynSent, RcvUnacceptable, RcvReset, RcvSegment, Arrives
  <2>2. SendOK(tsk)
    BY <1>1, <2>1 DEF ConnInv
  <2> QED
    BY <1>1, <1>7, <2>1, <2>2, CoreUnclosed DEF UnclosedNow
<1>8. CASE PeerNext
  <2>1. UNCHANGED << tsk, app >>
    BY <1>8 DEF PeerNext, PeerReceive, PeerSend, PeerReset
  <2> QED
    BY <1>2, <2>1
<1> QED
  BY <1>2, <1>3, <1>4, <1>5, <1>6, <1>7, <1>8 DEF Next, AppNext, vars

----------------------------------------------------------------------------
(* The refinement *)

\* While the connection has not ended, read() has reported the end of file only
\* when the peer has closed and every byte of its stream has been delivered.
EofOK ==
    tsk.state \notin Ended /\ app.ret = "eof" =>
        Len(delivered) = PeerBytes /\ PeerClosed(peer)

\* An empty queue with the peer's FIN behind it is the end of the stream.
LEMMA QueueAtEnd ==
    ASSUME TypeOK, ReaderOK, DataNow, tsk.state \notin Ended,
           tsk.fin, tsk.rq = << >>
    PROVE  Len(delivered) = PeerBytes /\ PeerClosed(peer)
<1>1. tsk \in Tsk /\ Len(delivered) \in Nat /\ PeerBytes \in Nat
  BY TcpRunConstants DEF TypeOK
<1>2. tsk.state \in Passive
  BY <1>1, Fields DEF ReaderOK, ReadOK, Ended, Passive, Before, Receiving, TextStates,
     TcpStates
<1>3. PeerClosed(peer) /\ StreamEnd(tsk.rq, Len(delivered)) = PeerBytes + 1
  BY <1>2 DEF DataNow, DataOK
<1>4. StreamEnd(tsk.rq, Len(delivered)) = Len(delivered) + 1
  BY DEF StreamEnd
<1> QED
  BY <1>1, <1>3, <1>4

\* read() reports the end of file only there.
LEMMA TellsEnd ==
    ASSUME TypeOK, ReaderOK, DataNow, WantOK, UnclosedNow, tsk.state \notin Ended,
           ReadAtEnd \/ CopyDone, app'.ret = "eof", app.ret # "eof"
    PROVE  Len(delivered) = PeerBytes /\ PeerClosed(peer)
<1>1. app \in AppType /\ tsk \in Tsk
  BY DEF TypeOK
<1>2. CASE ReadAtEnd
  <2>1. Unclosed(tsk)
    BY <1>2 DEF ReadAtEnd, UnclosedNow
  <2>2. tsk.state \notin {"CLOSING", "LAST_ACK", "TIME_WAIT"}
    BY <2>1 DEF Unclosed, Finishing, Ended
  <2>3. tsk.rq = << >> /\ tsk.fin
    BY <1>2, <2>2 DEF ReadAtEnd
  <2> QED
    BY <2>3, QueueAtEnd
<1>3. CASE CopyDone
  <2>1. app.pc = "copy" /\ app.want > 0 /\ app.rlen \in Nat
    BY <1>1, <1>3 DEF CopyDone, WantOK, AppType
  <2>2. app.rlen = 0 /\ (tsk.psh \/ tsk.fin \/ app.rlen = app.want \/ app.rlen > 0)
    <3>1. \/ /\ tsk.psh \/ tsk.fin \/ app.rlen = app.want \/ app.rlen > 0
             /\ app' = [app EXCEPT !.pc = "idle",
                                   !.ret = IF app.rlen = 0 THEN "eof" ELSE "bytes"]
          \/ app' = [app EXCEPT !.pc = "idle", !.ret = "EAGAIN"]
          \/ app' = [app EXCEPT !.pc = "reading"]
      BY <1>3 DEF CopyDone
    <3> QED
      BY <1>1, <3>1 DEF AppType
  <2>3. tsk.fin
    BY <2>1, <2>2 DEF DataNow, DataOK, Copied
  <2>4. tsk.rq = << >>
    BY <1>3, <2>1, <2>2 DEF CopyDone
  <2> QED
    BY <2>3, <2>4, QueueAtEnd
<1> QED
  BY <1>2, <1>3

\* What an application has been told changes only there and when it is told
\* something else.
LEMMA OtherSteps ==
    ASSUME TypeOK, [Next]_vars, ~ReadAtEnd, ~CopyDone
    PROVE  app'.ret = "eof" => app.ret = "eof"
<1>1. app \in AppType
  BY DEF TypeOK
<1>2. CASE UNCHANGED app
  BY <1>2
<1>3. CASE ConnectWoken
  BY <1>1, <1>3 DEF ConnectWoken, AppType
<1>4. CASE \/ Connect \/ ConnectFree \/ Close \/ ReadWoken \/ CopySkb
           \/ \E len \in ReadSizes : Read(len)
  BY <1>1, <1>4 DEF Connect, ConnectFree, Close, ReadWoken, CopySkb, Read, AppType
<1>5. CASE (\E len \in WriteSizes : Write(len)) \/ TimerNext \/ PeerNext \/ CoreNext
  <2>1. app' = app
    BY <1>5 DEF Write, TimerNext, Expire, ExpireUnowned, RunHandler,
       PeerNext, PeerReceive, PeerSend, PeerReset,
       CoreNext, RcvSynSent, RcvUnacceptable, RcvReset, RcvSegment, Arrives
  <2> QED
    BY <2>1
<1> QED
  BY <1>2, <1>3, <1>4, <1>5 DEF Next, AppNext, vars

\* The inductive invariant of the refinement.
RefInv ==
    /\ ReadInv /\ ConnInv
    /\ HistOK(peer) /\ DataNow /\ WantOK /\ UnclosedNow /\ EofOK

\* Bytes are delivered by the copying of a buffer only.
LEMMA NothingDelivered ==
    ASSUME [Next]_vars, ~CopySkb
    PROVE  delivered' = delivered
BY DEF Next, AppNext, TimerNext, PeerNext, CoreNext, Connect, ConnectWoken, ConnectFree,
   Write, ReadAtEnd, Read, CopyDone, ReadWoken, Close, Expire, ExpireUnowned, RunHandler,
   PeerReceive, PeerSend, PeerReset,
   RcvSynSent, RcvUnacceptable, RcvReset, RcvSegment, Arrives, vars

\* The peer's end of the stream moves by its own steps only.
LEMMA PeerMoves ==
    ASSUME [Next]_vars, ~PeerNext
    PROVE  peer' = peer
BY DEF Next, AppNext, TimerNext, CoreNext, Connect, ConnectWoken, ConnectFree,
   Write, ReadAtEnd, Read, CopySkb, CopyDone, ReadWoken, Close,
   Expire, ExpireUnowned, RunHandler,
   RcvSynSent, RcvUnacceptable, RcvReset, RcvSegment, Arrives, vars

\* The parts of RefInv that speak of the bytes.
LEMMA DataStep ==
    ASSUME RefInv, [Next]_vars
    PROVE  HistOK(peer') /\ DataNow' /\ WantOK'
<1>1. /\ TypeOK /\ TypeInv /\ ReaderOK /\ StreamOK(tsk, Len(delivered)) /\ InOrder
      /\ app \in AppType
  BY DEF RefInv, ReadInv, StreamInv, TypeInv, TypeOK
<1>2. HistOK(peer) /\ DataNow /\ WantOK
  BY DEF RefInv
<1>3. CASE PeerNext
  <2>1. app' = app
    BY <1>3 DEF PeerNext, PeerReceive, PeerSend, PeerReset
  <2> QED
    BY <1>1, <1>2, <1>3, <2>1, PeerStepData DEF WantOK
<1>4. CASE ~PeerNext
  <2>1. HistOK(peer')
    BY <1>2, <1>4, PeerMoves
  <2>2. CASE UNCHANGED vars
    BY <1>2, <2>2 DEF vars, DataNow, Copied, WantOK, HistOK
  <2>3. CASE \/ Connect \/ ConnectWoken \/ ConnectFree
             \/ (\E len \in WriteSizes : Write(len)) \/ Close \/ TimerNext
    <3>1. DataNow'
      BY <1>1, <1>2, <2>3, CallsData
    <3>2. app'.pc \notin {"copy", "reading"} \/ app' = app
      BY <1>1, <2>3 DEF Connect, ConnectWoken, ConnectFree, Write, Close, AppType,
         TimerNext, Expire, ExpireUnowned, RunHandler
    <3> QED
      BY <1>2, <2>1, <3>1, <3>2 DEF WantOK
  <2>4. CASE ReadAtEnd \/ (\E len \in ReadSizes : Read(len)) \/ CopyDone \/ ReadWoken
    BY <1>1, <1>2, <2>1, <2>4, ReadCallsData
  <2>5. CASE CopySkb
    BY <1>1, <1>2, <2>1, <2>5, CopySkbData
  <2>6. CASE CoreNext
    <3>1. UNCHANGED << app, delivered, peer >>
      BY <2>6 DEF CoreNext, RcvSynSent, RcvUnacceptable, RcvReset, RcvSegment, Arrives
    <3>2. DataOK(tsk', Len(delivered), PeerSent(peer), PeerClosed(peer), Copied)
      <4> DEFINE b == Copied
      <4>1. DataOK(tsk, Len(delivered), PeerSent(peer), PeerClosed(peer), b)
        BY <1>2 DEF DataNow
      <4> HIDE DEF b
      <4>2. DataOK(tsk', Len(delivered), PeerSent(peer), PeerClosed(peer), b)
        BY <1>1, <1>2, <2>6, <4>1, CoreData
      <4> QED
        BY <4>2 DEF b
    <3> QED
      BY <1>2, <2>1, <3>1, <3>2 DEF DataNow, Copied, WantOK
  <2> QED
    BY <1>4, <2>2, <2>3, <2>4, <2>5, <2>6 DEF Next, AppNext
<1> QED
  BY <1>3, <1>4

\* The peer's position in the stream.
LEMMA PeerEnd ==
    ASSUME TypeOK
    PROVE  /\ peer.snd \in Nat /\ PeerBytes \in Nat
           /\ PeerSent(peer) \in Nat /\ PeerSent(peer) <= PeerBytes
           /\ PeerClosed(peer) => PeerSent(peer) = PeerBytes
BY TcpRunConstants DEF TypeOK, PeerType, PeerSent, PeerClosed

\* Nothing is copied when everything has been delivered.
LEMMA NoCopyAtEnd ==
    ASSUME RefInv, CopySkb
    PROVE  Len(delivered) # PeerBytes
<1>1. TypeOK /\ DataNow /\ StreamOK(tsk, Len(delivered)) /\ InOrder
  BY DEF RefInv, ReadInv, StreamInv, TypeInv
<1>2. Len(delivered') > Len(delivered) /\ Len(delivered') <= PeerSent(peer)
  BY <1>1, CopySkbData
<1>3. Len(delivered) \in Nat /\ Len(delivered') \in Nat
  <2>1. TypeOK'
    BY <1>1, CopySkbEffect
  <2> QED
    BY <1>1, <2>1 DEF TypeOK
<1> QED
  BY <1>1, <1>2, <1>3, PeerEnd

\* Once told, the end of the stream stays where it is.
LEMMA EofStep ==
    ASSUME RefInv, [Next]_vars
    PROVE  EofOK'
<1>1. /\ TypeOK /\ ReaderOK /\ DataNow /\ WantOK /\ UnclosedNow /\ EofOK
      /\ HistOK(peer) /\ tsk \in Tsk
  BY DEF RefInv, ReadInv, StreamInv, TypeInv, TypeOK
<1>2. tsk'.state \notin Ended => tsk.state \notin Ended
  <2>1. Edge(tsk, tsk')
    BY ConnStep DEF RefInv
  <2> QED
    BY <2>1 DEF Edge, StateChanges, Ended
<1>3. SUFFICES ASSUME tsk'.state \notin Ended, app'.ret = "eof"
               PROVE  Len(delivered') = PeerBytes /\ PeerClosed(peer')
  BY DEF EofOK
<1>4. Len(delivered) = PeerBytes /\ PeerClosed(peer)
  <2>1. CASE app.ret = "eof"
    BY <1>1, <1>2, <1>3, <2>1 DEF EofOK
  <2>2. CASE app.ret # "eof"
    <3>1. ReadAtEnd \/ CopyDone
      BY <1>1, <1>3, <2>2, OtherSteps
    <3> QED
      BY <1>1, <1>2, <1>3, <2>2, <3>1, TellsEnd
  <2> QED
    BY <2>1, <2>2
<1>5. delivered' = delivered
  BY <1>4, NoCopyAtEnd, NothingDelivered
<1>6. PeerClosed(peer')
  <2>1. CASE PeerNext
    BY <1>1, <1>4, <2>1, PeerStepData, PeerEnd DEF PeerClosed
  <2>2. CASE ~PeerNext
    BY <1>4, <2>2, PeerMoves
  <2> QED
    BY <2>1, <2>2
<1> QED
  BY <1>4, <1>5, <1>6

\* The step of the induction.
LEMMA RefStep ==
    ASSUME RefInv, [Next]_vars
    PROVE  RefInv'
<1>1. ReadInv'
  BY ReadStep DEF RefInv
<1>2. ConnInv'
  BY ConnStep DEF RefInv
<1>3. HistOK(peer') /\ DataNow' /\ WantOK'
  BY DataStep
<1>4. UnclosedNow'
  BY UnclosedStep DEF RefInv
<1>5. EofOK'
  BY EofStep
<1> QED
  BY <1>1, <1>2, <1>3, <1>4, <1>5 DEF RefInv, HistOK

\* Nothing is sent, queued or told at first.
LEMMA RefInit ==
    ASSUME Init
    PROVE  RefInv
<1>1. ReadInv /\ TypeOK
  BY ReadInit DEF ReadInv, StreamInv, TypeInv
<1>2. /\ tsk = NewSock /\ app.pc = "start" /\ app.ret = "none" /\ delivered = << >>
      /\ peer.snd = 0 /\ peer.hist = {}
  BY DEF Init
<1>3. ConnInv
  BY <1>1, <1>2 DEF ConnInv, ReadInv, StreamInv
<1>4. /\ tsk.rq = << >> /\ tsk.ofo = << >> /\ tsk.wq = << >> /\ tsk.psh = FALSE
      /\ tsk.state = "CLOSE" /\ Len(delivered) = 0
  BY <1>2 DEF NewSock
<1>5. DataNow
  BY <1>1, <1>4, PeerEnd DEF DataNow, DataOK, Within, Passive
<1>6. UnclosedNow
  BY <1>4 DEF UnclosedNow, Unclosed, NoFin, Finishing
<1>7. HistOK(peer) /\ WantOK /\ EofOK
  BY <1>2 DEF HistOK, WantOK, EofOK
<1> QED
  BY <1>1, <1>3, <1>5, <1>6, <1>7 DEF RefInv

\* A step of the connection is a step of the byte stream, or leaves it alone.
LEMMA StreamMap ==
    ASSUME RefInv, [Next]_vars, tsk.state \notin Ended \/ app.pc = "closed"
    PROVE  In!Next \/ UNCHANGED In!stream
<1>1. /\ TypeOK /\ ReaderOK /\ DataNow /\ WantOK /\ UnclosedNow /\ EofOK
      /\ HistOK(peer) /\ StreamOK(tsk, Len(delivered)) /\ InOrder
  BY DEF RefInv, ReadInv, StreamInv, TypeInv
<1>2. CASE CopySkb
  <2>1. app.pc = "copy" /\ tsk.state \notin Ended
    BY <1>2 DEF CopySkb
  <2>2. app.ret # "eof" /\ app'.ret # "eof"
    <3>1. app.ret # "eof"
      BY <1>1, <1>2, <2>1, NoCopyAtEnd DEF EofOK
    <3>2. ~ReadAtEnd /\ ~CopyDone
      <4>1. tsk.rq # << >> /\ app.rlen # app.want
        <5>1. app.rlen \in Nat /\ app.want \in Nat
          BY <1>1 DEF TypeOK, AppType
        <5>2. tsk.rq # << >> /\ app.rlen < app.want
          BY <1>2 DEF CopySkb
        <5> QED
          BY <5>1, <5>2
      <4>2. ~ReadAtEnd
        BY <2>1 DEF ReadAtEnd
      <4>3. ~CopyDone
        BY <4>1 DEF CopyDone
      <4> QED
        BY <4>2, <4>3
    <3> QED
      BY <1>1, <3>1, <3>2, OtherSteps
  <2>3. /\ Len(delivered') > Len(delivered) /\ Len(delivered') <= PeerSent(peer)
        /\ SubSeq(delivered', 1, Len(delivered)) = delivered
    BY <1>1, <1>2, CopySkbData
  <2>4. \A i \in Len(delivered)+1..Len(delivered') : delivered'[i] = i
    <3>1. InOrder'
      BY <1>1, <1>2, CopyStream
    <3>2. \A i \in 1..Len(delivered') : delivered'[i] = i
      BY <3>1 DEF InOrder
    <3>3. Len(delivered) \in Nat
      BY <1>1 DEF TypeOK
    <3> QED
      BY <3>2, <3>3
  <2>5. peer' = peer
    BY <1>2 DEF CopySkb
  <2>6. In!Take
    <3>1. Len(delivered') <= IF peer.snd > PeerBytes THEN PeerBytes ELSE peer.snd
      BY <2>3 DEF PeerSent
    <3>2. ~(app'.ret = "eof")
      BY <2>2
    <3>3. /\ Len(delivered') > Len(delivered)
          /\ SubSeq(delivered', 1, Len(delivered)) = delivered
      BY <2>3
    <3> QED
      BY <2>4, <2>5, <3>1, <3>2, <3>3, Zenon DEF In!Take
  <2> QED
    BY <2>6 DEF In!Next
<1>3. CASE PeerNext
  <2>1. app' = app /\ delivered' = delivered
    BY <1>3 DEF PeerNext, PeerReceive, PeerSend, PeerReset
  <2>2. /\ peer'.snd \in {peer.snd, peer.snd + 1}
        /\ peer'.snd # peer.snd => peer.snd <= PeerBytes
    BY <1>1, <1>3, PeerStepData
  <2>3. peer.snd \in Nat /\ PeerBytes \in Nat
    BY <1>1, PeerEnd
  <2>4. CASE peer'.snd = peer.snd
    BY <2>1, <2>4 DEF In!stream
  <2>5. CASE peer'.snd # peer.snd /\ peer.snd < PeerBytes
    <3>1. /\ ~(peer.snd > PeerBytes) /\ ~(peer'.snd > PeerBytes)
          /\ peer'.snd > peer.snd
      BY <2>2, <2>3, <2>5
    <3>2. In!Put
      BY <2>1, <3>1 DEF In!Put
    <3> QED
      BY <3>2 DEF In!Next
  <2>6. CASE peer'.snd # peer.snd /\ peer.snd = PeerBytes
    <3>1. ~(peer.snd > PeerBytes) /\ peer'.snd > PeerBytes
      BY <2>2, <2>3, <2>6
    <3>2. In!Close
      BY <2>1, <2>6, <3>1 DEF In!Close
    <3> QED
      BY <3>2 DEF In!Next
  <2> QED
    BY <2>2, <2>3, <2>4, <2>5, <2>6
<1>4. CASE ~CopySkb /\ ~PeerNext
  <2>1. delivered' = delivered /\ peer' = peer
    BY <1>4, NothingDelivered, PeerMoves
  <2>2. CASE app'.ret = "eof" <=> app.ret = "eof"
    BY <2>1, <2>2 DEF In!stream
  <2>3. CASE app'.ret # "eof" /\ app.ret = "eof"
    <3>1. In!Ask
      BY <2>1, <2>3 DEF In!Ask
    <3> QED
      BY <3>1 DEF In!Next
  <2>4. CASE app'.ret = "eof" /\ app.ret # "eof"
    <3>1. ReadAtEnd \/ CopyDone
      BY <1>1, <2>4, OtherSteps
    <3>2. tsk.state \notin Ended
      BY <3>1 DEF ReadAtEnd, CopyDone
    <3>3. Len(delivered) = PeerBytes /\ peer.snd > PeerBytes
      BY <1>1, <2>4, <3>1, <3>2, TellsEnd DEF PeerClosed
    <3>4. In!TellEnd
      BY <2>1, <2>4, <3>3 DEF In!TellEnd
    <3> QED
      BY <3>4 DEF In!Next
  <2> QED
    BY <2>2, <2>3, <2>4
<1> QED
  BY <1>2, <1>3, <1>4

\* Every read() of a connection gives the application the next bytes of the
\* peer's stream, or its end where it is, whatever is lost, repeated, reordered
\* or cut differently and whatever the window and the sizes: every step is one
\* of ByteStream's, but that a read() of an application that has not closed, on
\* a connection that a reset or a timeout has ended, may tell the end too early.
THEOREM ReadsStepwise ==
    Spec => [][tsk.state \notin Ended \/ app.pc = "closed"
                  => In!Next \/ UNCHANGED In!stream]_vars
<1>1. RefInv /\ [Next]_vars => RefInv'
  BY RefStep
<1>2. RefInv /\ [Next]_vars =>
         [tsk.state \notin Ended \/ app.pc = "closed"
             => In!Next \/ UNCHANGED In!stream]_vars
  BY StreamMap
<1>3. Init => RefInv
  BY RefInit
<1> QED
  BY <1>1, <1>2, <1>3, PTL DEF Spec

\* So the connection implements ByteStream in every behaviour in which it does
\* not end before the application has closed it: what read() gives is the
\* peer's stream, in order and with its end.
THEOREM ReadsAreStream ==
    Spec /\ [](tsk.state \in Ended => app.pc = "closed") => ReadsStream
<1>1. RefInv /\ [Next]_vars => RefInv'
  BY RefStep
<1>2. RefInv /\ [Next]_vars /\ (tsk.state \in Ended => app.pc = "closed")
         => [In!Next]_(In!stream)
  BY StreamMap
<1>3. Init => RefInv
  BY RefInit
<1>4. Init => In!Init
  BY TcpRunConstants DEF Init, In!Init
<1> QED
  BY <1>1, <1>2, <1>3, <1>4, PTL DEF Spec, ReadsStream, In!Spec

=============================================================================
