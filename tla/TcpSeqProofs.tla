---------------------------- MODULE TcpSeqProofs ----------------------------
(***************************************************************************)
(* Module TcpSeq for every width of the sequence numbers, every window and *)
(* every initial sequence number: wherever the numbers wrap, the bytes are *)
(* received in order and each once, no byte is given up before the peer    *)
(* has it, and the SACK blocks tell what the out-of-order queue holds.     *)
(***************************************************************************)
EXTENDS TcpSeq, TLAPS, FiniteSetTheorems, SequenceTheorems, WellFoundedInduction

----------------------------------------------------------------------------
(* The inductive invariant *)

Numbers == 0 .. MOD - 1

\* A buffer with data, and one of ofo_queue or receive_queue with its numbers.
RcvBuf == [seq : Numbers, end_seq : Numbers, pos : Nat, dlen : 1 .. 2]
Numbered(b) ==
    /\ b.pos + b.dlen <= Bytes
    /\ b.seq = Number(irs, b.pos)
    /\ b.end_seq = Number(irs, b.pos + b.dlen)

SndBuf == [seq : Numbers, end_seq : Numbers, dlen : 0 .. 1, sent : BOOLEAN]

TypeOK ==
    /\ up \in BOOLEAN
    /\ state \in {"SYN_SENT", "ESTABLISHED"}
    /\ tcb \in [iss : Numbers, snd_una : Numbers, snd_nxt : Numbers, rcv_nxt : Numbers]
    /\ wq \in Seq(SndBuf) /\ inflight \in Nat
    /\ irs \in Numbers
    /\ wrote \in Nat /\ gone \in Nat /\ acked \in Nat
    /\ ofo \in Seq(RcvBuf) /\ rq \in Seq(RcvBuf)

\* The buffers of receive_queue follow one another, and rcv_nxt is the number
\* after the last.
InOrder(q) ==
    \A i \in 1 .. Len(q) : q[i].pos = IF i = 1 THEN 0 ELSE q[i-1].pos + q[i-1].dlen

\* The receiving side.  The numbers do not wrap within a buffer of ofo_queue:
\* the window that let it in did not reach over the wrap.
RcvInv ==
    /\ state = "SYN_SENT" => rq = << >> /\ ofo = << >> /\ sack = << >>
    /\ state = "ESTABLISHED" => tcb.rcv_nxt = Number(irs, Reach(rq))
    /\ up => rq = << >>
    /\ InOrder(rq)
    /\ \A j \in 1 .. Len(rq) : Numbered(rq[j])
    /\ \A j \in 1 .. Len(ofo) : Numbered(ofo[j]) /\ ofo[j].seq < ofo[j].end_seq

\* Before the SYN is acknowledged, and for good if it had the number 0, it is
\* the head of the write queue and all that is in flight.
SynHeld ==
    /\ wq # << >> /\ wq[1] = [seq |-> tcb.iss, end_seq |-> tcb.iss, dlen |-> 0, sent |-> TRUE]
    /\ Len(wq) = wrote + 1 /\ inflight = 1 /\ gone = 0
    /\ \A j \in 2 .. Len(wq) : wq[j] = Buffer(1)
    /\ state = "ESTABLISHED" => tcb.iss = 0
    /\ state = "SYN_SENT" => wrote = 0

\* The first n buffers of q were sent, from byte k on, and the others not.
SentFirst(q, isn, n, k) ==
    /\ n <= Len(q)
    /\ \A j \in 1 .. Len(q) :
          q[j] = IF j <= n THEN [seq |-> Number(isn, k + (j - 1)), end_seq |-> Number(isn, k + j),
                                 dlen |-> 1, sent |-> TRUE]
                 ELSE Buffer(1)

\* The position of the first byte in the write queue.
Base == wrote - Len(wq)

\* Afterwards the queue holds the last bytes written, those in flight first
\* and with their numbers, and none before the first that the peer has not.
DataHeld ==
    /\ state = "ESTABLISHED"
    /\ Len(wq) <= wrote /\ Base <= acked
    /\ gone = Base + inflight
    /\ inflight = 0 => wq = << >>
    /\ SentFirst(wq, tcb.iss, inflight, Base)

SndInv ==
    /\ acked <= gone /\ gone <= wrote /\ wrote <= Bytes
    /\ ~up => wrote = 0
    /\ tcb.snd_nxt = Number(tcb.iss, gone)
    /\ SynHeld \/ DataHeld

SeqInv == TypeOK /\ RcvInv /\ SndInv /\ SackTells

----------------------------------------------------------------------------
(* Arithmetic of the numbers *)

\* A number below twice the modulus is reduced by one subtraction at most.
LEMMA Reduced ==
    ASSUME NEW x \in Nat, NEW m \in Nat, m > 0, x < 2 * m
    PROVE  x % m = IF x < m THEN x ELSE x - m
<1> DEFINE q == x \div m
           r == x % m
<1>1. q \in Int /\ r \in 0 .. m - 1 /\ x = m * q + r
  BY SMT
<1> HIDE DEF q, r
<1>2. q \in {0, 1}
  <2>1. q < 2
    <3>1. SUFFICES ASSUME q >= 2 PROVE FALSE
      BY <1>1
    <3>2. m * q >= m * 2
      BY <1>1, <3>1
    <3> QED
      BY <1>1, <3>2
  <2>2. q > - 1
    <3>1. SUFFICES ASSUME q <= - 1 PROVE FALSE
      BY <1>1
    <3>2. m * q <= m * (- 1)
      BY <1>1, <3>1
    <3> QED
      BY <1>1, <3>2
  <2> QED
    BY <1>1, <2>1, <2>2
<1>3. r = IF x < m THEN x ELSE x - m
  <2>1. CASE q = 0
    BY <1>1, <2>1
  <2>2. CASE q = 1
    BY <1>1, <2>2
  <2> QED
    BY <1>2, <2>1, <2>2
<1> QED
  BY <1>3 DEF r

\* The number of a byte, which wraps once at most.
LEMMA NumberIs ==
    ASSUME NEW isn \in Numbers, NEW i \in Nat, i < MOD
    PROVE  /\ Number(isn, i) = IF isn + 1 + i < MOD THEN isn + 1 + i ELSE isn + 1 + i - MOD
           /\ Number(isn, i) \in Numbers
<1> DEFINE x == isn + (1 + i)
<1>1. MOD \in Nat /\ MOD > 0 /\ x \in Nat /\ x < 2 * MOD
  BY SeqAssumption DEF Numbers
<1> HIDE DEF x
<1>2. x % MOD = IF x < MOD THEN x ELSE x - MOD
  BY <1>1, Reduced
<1> USE DEF x
<1>3. Number(isn, i) = IF isn + 1 + i < MOD THEN isn + 1 + i ELSE isn + 1 + i - MOD
  BY <1>1, <1>2 DEF Number, Sum, Numbers
<1> QED
  BY <1>1, <1>3 DEF Numbers

\* Different bytes have different numbers.
LEMMA NumbersDiffer ==
    ASSUME NEW isn \in Numbers, NEW i \in Nat, NEW j \in Nat, i < MOD, j < MOD,
           Number(isn, i) = Number(isn, j)
    PROVE  i = j
<1> DEFINE a == Number(isn, i)
           b == Number(isn, j)
<1>1. /\ a = IF isn + 1 + i < MOD THEN isn + 1 + i ELSE isn + 1 + i - MOD
      /\ b = IF isn + 1 + j < MOD THEN isn + 1 + j ELSE isn + 1 + j - MOD
  BY NumberIs
<1>2. MOD \in Nat /\ isn \in Nat
  BY SeqAssumption DEF Numbers
<1>3. a = b
  OBVIOUS
<1> HIDE DEF a, b
<1> QED
  BY <1>1, <1>2, <1>3

\* n bytes after byte i.
LEMMA NumberPlus ==
    ASSUME NEW isn \in Numbers, NEW i \in Nat, NEW n \in Nat, i + n < MOD
    PROVE  Sum(Number(isn, i), n) = Number(isn, i + n)
<1> DEFINE a == Number(isn, i)
           b == Number(isn, i + n)
<1>1. /\ a = IF isn + 1 + i < MOD THEN isn + 1 + i ELSE isn + 1 + i - MOD
      /\ b = IF isn + 1 + (i + n) < MOD THEN isn + 1 + (i + n) ELSE isn + 1 + (i + n) - MOD
      /\ a \in Numbers /\ b \in Numbers
  BY NumberIs, SeqAssumption
<1> HIDE DEF a, b
<1> DEFINE x == a + n
<1>2. MOD \in Nat /\ MOD > 0 /\ x \in Nat /\ x < 2 * MOD
  BY <1>1, SeqAssumption DEF Numbers
<1> HIDE DEF x
<1>3. x % MOD = IF x < MOD THEN x ELSE x - MOD
  BY <1>2, Reduced
<1> USE DEF x
<1>4. Sum(a, n) = b
  BY <1>1, <1>2, <1>3 DEF Sum, Numbers
<1> QED
  BY <1>4 DEF a, b

\* The SYN has the number before that of the first byte.
LEMMA NumberFirst ==
    ASSUME NEW isn \in Numbers
    PROVE  Number(isn, 0) = Sum(isn, 1) /\ Sum(isn, 0) = isn
<1>1. MOD \in Nat /\ MOD > 0 /\ isn \in Nat /\ isn < MOD /\ isn < 2 * MOD
  BY SeqAssumption DEF Numbers
<1>2. isn % MOD = IF isn < MOD THEN isn ELSE isn - MOD
  BY <1>1, Reduced
<1> QED
  BY <1>1, <1>2 DEF Number, Sum, Numbers

\* The least-number principle.
LEMMA LeastNumber ==
    ASSUME NEW T, T \subseteq Nat, T # {}
    PROVE  \E x \in T : \A y \in T : x <= y
<1> DEFINE R == {ss \in Nat \X Nat : ss[1] < ss[2]}
<1>1. IsWellFoundedOn(R, Nat)
  BY NatLessThanWellFounded DEF OpToRel
<1> HIDE DEF R
<1>2. PICK x \in T : \A y \in T : ~ (<< y, x >> \in R)
  BY <1>1, WFMin
<1>3. \A y \in T : ~ (y < x)
  BY <1>2 DEF R
<1> QED
  BY <1>3

----------------------------------------------------------------------------
(* The receiving side *)

\* What tcp_verify_segment takes and is not next lies ahead, and its numbers
\* do not wrap: a window that reaches over the wrap takes nothing ahead.
LEMMA AheadInWindow ==
    ASSUME irs \in Numbers, NEW R \in 0 .. Bytes, NEW p \in Nat, NEW n \in 1 .. 2,
           p + n <= Bytes, p + n <= R + RCV_WND,
           ~ (Number(irs, p) < Number(irs, R)),
           ~ (Number(irs, p) > Sum(Number(irs, R), RCV_WND)),
           Number(irs, p) # Number(irs, R)
    PROVE  R < p /\ p <= R + RCV_WND /\ Number(irs, p) < Number(irs, p + n)
<1> DEFINE a == Number(irs, p)
           b == Number(irs, p + n)
           r == Number(irs, R)
           w == Number(irs, R + RCV_WND)
<1>1. /\ MOD \in Nat /\ RCV_WND \in Nat /\ Bytes \in Nat
      /\ p < MOD /\ p + n < MOD /\ R < MOD /\ R + RCV_WND < MOD
      /\ R \in Nat /\ p + n \in Nat /\ R + RCV_WND \in Nat /\ irs \in Nat /\ irs < MOD
  BY SeqAssumption DEF Numbers
<1>2. a = IF irs + 1 + p < MOD THEN irs + 1 + p ELSE irs + 1 + p - MOD
  BY <1>1, NumberIs
<1>3. b = IF irs + 1 + (p + n) < MOD THEN irs + 1 + (p + n) ELSE irs + 1 + (p + n) - MOD
  BY <1>1, NumberIs
<1>4. r = IF irs + 1 + R < MOD THEN irs + 1 + R ELSE irs + 1 + R - MOD
  BY <1>1, NumberIs
<1>5. w = IF irs + 1 + (R + RCV_WND) < MOD THEN irs + 1 + (R + RCV_WND)
          ELSE irs + 1 + (R + RCV_WND) - MOD
  BY <1>1, NumberIs
<1>6. Sum(r, RCV_WND) = w
  BY <1>1, NumberPlus
<1>7. ~ (a < r) /\ ~ (a > w) /\ a # r
  BY <1>6
<1> HIDE DEF a, b, r, w
<1>8. R < p /\ p <= R + RCV_WND /\ a < b
  BY <1>1, <1>2, <1>3, <1>4, <1>5, <1>7
<1> QED
  BY <1>8 DEF a, b

\* How far a queue reaches is no further than the transfer.
LEMMA ReachBounded ==
    ASSUME NEW q \in Seq(RcvBuf), \A j \in 1 .. Len(q) : Numbered(q[j])
    PROVE  Reach(q) \in 0 .. Bytes
<1>1. CASE q = << >>
  BY <1>1, SeqAssumption DEF Reach
<1>2. CASE q # << >>
  <2>1. Len(q) \in 1 .. Len(q) /\ q[Len(q)] \in RcvBuf
    BY <1>2
  <2>2. Numbered(q[Len(q)])
    BY <2>1
  <2> QED
    BY <1>2, <2>1, <2>2, SeqAssumption DEF Reach, Numbered, RcvBuf
<1> QED
  BY <1>1, <1>2

\* What tcp_consume_ofo_queue takes is a prefix of the queue whose buffers
\* follow one another in the stream, the first from position p on.
LEMMA ConsecutiveIs ==
    ASSUME irs \in Numbers, NEW q \in Seq(RcvBuf), \A j \in 1 .. Len(q) : Numbered(q[j]),
           NEW p \in 0 .. Bytes
    PROVE  \E n \in 0 .. Len(q) :
              /\ Consecutive(Number(irs, p), q) = SubSeq(q, 1, n)
              /\ \A j \in 1 .. n : q[j].pos = IF j = 1 THEN p ELSE q[j-1].pos + q[j-1].dlen
<1> DEFINE follows(j) == q[j].seq = IF j = 1 THEN Number(irs, p)
                                    ELSE Sum(q[j-1].seq, q[j-1].dlen)
           fits(k) == /\ \A j \in 1 .. k : follows(j)
                      /\ k < Len(q) => ~ follows(k + 1)
           n == CHOOSE k \in 0 .. Len(q) : fits(k)
           T == {j \in 1 .. Len(q) : ~ follows(j)}
<1>0. Len(q) \in Nat
  OBVIOUS
<1>1. \E k \in 0 .. Len(q) : fits(k)
  <2> HIDE DEF follows
  <2>1. CASE T = {}
    BY <1>0, <2>1
  <2>2. CASE T # {}
    <3>1. T \subseteq Nat
      BY <1>0
    <3>2. PICK x \in T : \A y \in T : x <= y
      BY <2>2, <3>1, LeastNumber
    <3>3. x \in 1 .. Len(q) /\ ~ follows(x)
      BY <3>2
    <3>4. \A j \in 1 .. x - 1 : j \in 1 .. Len(q) /\ ~ (x <= j)
      BY <1>0, <3>3
    <3>5. \A j \in 1 .. x - 1 : follows(j)
      BY <3>2, <3>4
    <3>6. (x - 1) + 1 = x /\ x - 1 \in 0 .. Len(q)
      BY <1>0, <3>3
    <3>7. fits(x - 1)
      BY <3>3, <3>5, <3>6
    <3> QED
      BY <3>6, <3>7
  <2> QED
    BY <2>1, <2>2
<1> HIDE DEF fits
<1>2. n \in 0 .. Len(q) /\ fits(n)
  BY <1>1
<1> USE DEF fits
<1>3. Consecutive(Number(irs, p), q) = SubSeq(q, 1, n)
  BY DEF Consecutive
<1> HIDE DEF n
<1>4. ASSUME NEW j \in 1 .. n
      PROVE  q[j].pos = IF j = 1 THEN p ELSE q[j-1].pos + q[j-1].dlen
  <2>1. j \in 1 .. Len(q) /\ q[j] \in RcvBuf /\ follows(j) /\ j \in Nat
    BY <1>0, <1>2
  <2>2. q[j].seq = Number(irs, q[j].pos) /\ q[j].pos \in Nat /\ q[j].pos < MOD
    BY <2>1, SeqAssumption DEF Numbered, RcvBuf
  <2>3. CASE j = 1
    <3>1. Number(irs, q[j].pos) = Number(irs, p) /\ p \in Nat /\ p < MOD
      BY <2>1, <2>2, <2>3, SeqAssumption
    <3>2. q[j].pos = p
      BY <2>2, <3>1, NumbersDiffer
    <3> QED
      BY <2>3, <3>2
  <2>4. CASE j # 1
    <3> DEFINE i == j - 1
    <3>1. i \in 1 .. Len(q) /\ q[i] \in RcvBuf
      BY <2>1, <2>4
    <3>2. Numbered(q[i])
      BY <3>1
    <3>3. q[j].seq = Sum(q[i].seq, q[i].dlen)
      BY <2>1, <2>4
    <3> HIDE DEF i
    <3>4. /\ q[i].seq = Number(irs, q[i].pos) /\ q[i].pos \in Nat /\ q[i].dlen \in Nat
          /\ q[i].pos + q[i].dlen \in Nat /\ q[i].pos + q[i].dlen < MOD
      BY <3>1, <3>2, SeqAssumption DEF Numbered, RcvBuf
    <3>5. Sum(Number(irs, q[i].pos), q[i].dlen) = Number(irs, q[i].pos + q[i].dlen)
      BY <3>4, NumberPlus
    <3>6. Number(irs, q[j].pos) = Number(irs, q[i].pos + q[i].dlen)
      BY <2>2, <3>3, <3>4, <3>5
    <3>7. q[j].pos = q[i].pos + q[i].dlen
      BY <2>2, <3>4, <3>6, NumbersDiffer
    <3> QED
      BY <2>4, <3>7 DEF i
  <2> QED
    BY <2>3, <2>4
<1> QED
  BY <1>2, <1>3, <1>4

\* The receiving side as tcp_data_queue leaves it.
Received(d) ==
    /\ d.rq \in Seq(RcvBuf) /\ InOrder(d.rq) /\ \A j \in 1 .. Len(d.rq) : Numbered(d.rq[j])
    /\ d.rcv_nxt = Number(irs, Reach(d.rq))
    /\ d.ofo \in Seq(RcvBuf)
    /\ \A j \in 1 .. Len(d.ofo) : Numbered(d.ofo[j]) /\ d.ofo[j].seq < d.ofo[j].end_seq

\* The queue without its first n buffers.
LEMMA RestOf ==
    ASSUME NEW q \in Seq(RcvBuf), NEW n \in 0 .. Len(q)
    PROVE  LET o == SubSeq(q, n + 1, Len(q))
           IN  /\ o \in Seq(RcvBuf)
               /\ \A j \in 1 .. Len(o) : \E i \in 1 .. Len(q) : o[j] = q[i]
<1> DEFINE o == SubSeq(q, n + 1, Len(q))
<1>1. o \in Seq(RcvBuf) /\ Len(o) = Len(q) - n /\ \A j \in 1 .. Len(q) - n : o[j] = q[n + j]
  OBVIOUS
<1> HIDE DEF o
<1>2. \A j \in 1 .. Len(o) : n + j \in 1 .. Len(q) /\ o[j] = q[n + j]
  BY <1>1
<1>3. o \in Seq(RcvBuf) /\ \A j \in 1 .. Len(o) : \E i \in 1 .. Len(q) : o[j] = q[i]
  BY <1>1, <1>2
<1> QED
  BY <1>3 DEF o

\* A buffer, and a queue that follows it, put after a stream.
LEMMA Extended ==
    ASSUME NEW q \in Seq(RcvBuf), NEW b \in RcvBuf, NEW m \in Seq(RcvBuf),
           InOrder(q), b.pos = Reach(q),
           \A j \in 1 .. Len(m) :
               m[j].pos = IF j = 1 THEN b.pos + b.dlen ELSE m[j-1].pos + m[j-1].dlen,
           \A j \in 1 .. Len(q) : Numbered(q[j]), Numbered(b),
           \A j \in 1 .. Len(m) : Numbered(m[j])
    PROVE  LET a == q \o << b >> \o m
           IN  /\ a \in Seq(RcvBuf) /\ InOrder(a) /\ \A j \in 1 .. Len(a) : Numbered(a[j])
               /\ Reach(a) = IF m = << >> THEN b.pos + b.dlen ELSE Last(m).pos + Last(m).dlen
<1> DEFINE k == Len(q)
           n == Len(m)
           c == q \o << b >>
           a == c \o m
<1>1. /\ k \in Nat /\ c \in Seq(RcvBuf) /\ Len(c) = k + 1 /\ c[k + 1] = b
      /\ \A j \in 1 .. k : c[j] = q[j]
  OBVIOUS
<1> HIDE DEF c
<1>2. /\ n \in Nat /\ a \in Seq(RcvBuf) /\ Len(a) = k + 1 + n
      /\ \A j \in 1 .. k + 1 : a[j] = c[j]
      /\ \A j \in 1 .. n : a[k + 1 + j] = m[j]
  <2>1. a \in Seq(RcvBuf) /\ Len(a) = Len(c) + n /\ n \in Nat
    <3>1. c \in Seq(RcvBuf) /\ m \in Seq(RcvBuf)
      BY <1>1
    <3>2. Len(m) \in Nat
      BY <3>1
    <3>3. c \o m \in Seq(RcvBuf) /\ Len(c \o m) = Len(c) + Len(m)
      BY <3>1, ConcatProperties
    <3> QED
      BY <3>2, <3>3
  <2>2. \A j \in 1 .. Len(c) : a[j] = c[j]
    BY <1>1
  <2>3. \A j \in 1 .. n : a[Len(c) + j] = m[j]
    BY <1>1
  <2> HIDE DEF a
  <2> QED
    BY <1>1, <2>1, <2>2, <2>3
<1> HIDE DEF a
<1>3. /\ \A j \in 1 .. k : a[j] = q[j]
      /\ a[k + 1] = b
  BY <1>1, <1>2
<1>4. \A i \in 1 .. Len(a) : i \in 1 .. k \/ i = k + 1 \/ \E j \in 1 .. n : i = k + 1 + j
  <2>1. ASSUME NEW i \in 1 .. Len(a), i \notin 1 .. k, i # k + 1
        PROVE  i - k - 1 \in 1 .. n /\ i = k + 1 + (i - k - 1)
    BY <1>1, <1>2, <2>1
  <2> QED
    BY <2>1
<1>5. \A i \in 1 .. Len(a) : Numbered(a[i])
  <2>1. ASSUME NEW i \in 1 .. Len(a) PROVE Numbered(a[i])
    <3>1. CASE i \in 1 .. k
      BY <1>3, <3>1
    <3>2. CASE i = k + 1
      BY <1>3, <3>2
    <3>3. CASE \E j \in 1 .. n : i = k + 1 + j
      BY <1>2, <3>3
    <3> QED
      BY <1>4, <3>1, <3>2, <3>3
  <2> QED
    BY <2>1
<1>6. ASSUME NEW i \in 1 .. Len(a)
      PROVE  a[i].pos = IF i = 1 THEN 0 ELSE a[i-1].pos + a[i-1].dlen
  <2>1. CASE i \in 1 .. k
    <3>1. CASE i = 1
      BY <1>3, <2>1, <3>1 DEF InOrder
    <3>2. CASE i # 1
      <4>1. i - 1 \in 1 .. k
        BY <1>1, <2>1, <3>2
      <4>2. a[i-1] = q[i-1] /\ a[i] = q[i]
        BY <1>3, <2>1, <4>1
      <4>3. q[i].pos = q[i-1].pos + q[i-1].dlen
        BY <2>1, <3>2 DEF InOrder
      <4> QED
        BY <3>2, <4>2, <4>3
    <3> QED
      BY <3>1, <3>2
  <2>2. CASE i = k + 1
    <3>1. CASE k = 0
      BY <1>3, <2>2, <3>1 DEF Reach
    <3>2. CASE k # 0
      <4>1. i # 1 /\ i - 1 = k /\ k \in 1 .. k /\ q # << >>
        BY <1>1, <2>2, <3>2
      <4>2. a[i-1] = q[k] /\ a[i] = b
        BY <1>3, <2>2, <4>1
      <4>3. b.pos = q[k].pos + q[k].dlen
        BY <4>1 DEF Reach
      <4> QED
        BY <4>1, <4>2, <4>3
    <3> QED
      BY <3>1, <3>2
  <2>3. CASE \E j \in 1 .. n : i = k + 1 + j
    <3>1. PICK j \in 1 .. n : i = k + 1 + j
      BY <2>3
    <3>2. a[i] = m[j] /\ i # 1
      BY <1>1, <1>2, <3>1
    <3>3. CASE j = 1
      <4>1. i - 1 = k + 1 /\ a[i-1] = b
        BY <1>1, <1>3, <3>1, <3>3
      <4>2. m[j].pos = b.pos + b.dlen
        BY <3>3
      <4> QED
        BY <3>2, <4>1, <4>2
    <3>4. CASE j # 1
      <4>1. j - 1 \in 1 .. n /\ i - 1 = k + 1 + (j - 1)
        BY <1>1, <1>2, <3>1, <3>4
      <4>2. a[i-1] = m[j-1]
        BY <1>2, <4>1
      <4>3. m[j].pos = m[j-1].pos + m[j-1].dlen
        BY <3>4
      <4> QED
        BY <3>2, <4>2, <4>3
    <3> QED
      BY <3>3, <3>4
  <2> QED
    BY <1>4, <2>1, <2>2, <2>3
<1>7. Reach(a) = IF m = << >> THEN b.pos + b.dlen ELSE Last(m).pos + Last(m).dlen
  <2>1. a # << >>
    BY <1>1, <1>2
  <2>2. CASE m = << >>
    <3>1. n = 0 /\ Len(a) = k + 1
      BY <1>1, <1>2, <2>2
    <3> QED
      BY <1>3, <2>1, <2>2, <3>1 DEF Reach
  <2>3. CASE m # << >>
    <3>1. n \in 1 .. n
      BY <2>3
    <3>2. a[Len(a)] = m[n]
      BY <1>2, <3>1
    <3> QED
      BY <2>1, <2>3, <3>2 DEF Reach, Last
  <2> QED
    BY <2>2, <2>3
<1> QED
  BY <1>2, <1>5, <1>6, <1>7 DEF InOrder, a, c

\* A segment that is next: it and what follows it reach the receive queue.
LEMMA NextSegment ==
    ASSUME TypeOK, RcvInv, state = "ESTABLISHED",
           NEW skb \in RcvBuf, Numbered(skb), skb.seq = tcb.rcv_nxt
    PROVE  /\ Received(tcp_data_queue(skb))
           /\ tcp_data_queue(skb).sack = << >>
           /\ ToSet(tcp_data_queue(skb).ofo) \subseteq ToSet(ofo)
<1> DEFINE R == Reach(rq)
           p == skb.pos + skb.dlen
           nxt == Sum(tcb.rcv_nxt, skb.dlen)
           moved == Consecutive(nxt, ofo)
           d == tcp_data_queue(skb)
           a == rq \o << skb >> \o moved
<1>1. /\ irs \in Numbers /\ rq \in Seq(RcvBuf) /\ ofo \in Seq(RcvBuf)
      /\ tcb.rcv_nxt = Number(irs, R) /\ InOrder(rq)
      /\ \A j \in 1 .. Len(rq) : Numbered(rq[j])
      /\ \A j \in 1 .. Len(ofo) : Numbered(ofo[j]) /\ ofo[j].seq < ofo[j].end_seq
  BY DEF TypeOK, RcvInv
<1>2. R \in 0 .. Bytes
  BY <1>1, ReachBounded
<1>3. /\ skb.pos \in Nat /\ skb.dlen \in Nat /\ p \in 0 .. Bytes /\ p < MOD
      /\ skb.pos < MOD /\ R \in Nat /\ R < MOD /\ skb.seq = Number(irs, skb.pos)
  BY <1>2, SeqAssumption DEF Numbered, RcvBuf
<1>4. skb.pos = R
  BY <1>1, <1>3, NumbersDiffer
<1>5. nxt = Number(irs, p)
  BY <1>1, <1>3, <1>4, NumberPlus
<1> HIDE DEF p
<1>6. PICK n \in 0 .. Len(ofo) :
          /\ moved = SubSeq(ofo, 1, n)
          /\ \A j \in 1 .. n : ofo[j].pos = IF j = 1 THEN p ELSE ofo[j-1].pos + ofo[j-1].dlen
  <2>1. \E n \in 0 .. Len(ofo) :
          /\ Consecutive(Number(irs, p), ofo) = SubSeq(ofo, 1, n)
          /\ \A j \in 1 .. n : ofo[j].pos = IF j = 1 THEN p ELSE ofo[j-1].pos + ofo[j-1].dlen
    BY <1>1, <1>3, ConsecutiveIs
  <2>2. moved = Consecutive(Number(irs, p), ofo)
    BY <1>5
  <2> HIDE DEF moved
  <2> QED
    BY <2>1, <2>2
<1>7. d = [rcv_nxt |-> IF moved = << >> THEN nxt ELSE Sum(Last(moved).seq, Last(moved).dlen),
           rq |-> a, ofo |-> SubSeq(ofo, Len(moved) + 1, Len(ofo)), sack |-> << >>]
  BY DEF tcp_data_queue
<1> HIDE DEF d, nxt
<1> HIDE DEF moved
<1>8. moved \in Seq(RcvBuf) /\ Len(moved) = n /\ \A j \in 1 .. n : moved[j] = ofo[j]
  BY <1>1, <1>6
<1>9. /\ \A j \in 1 .. Len(moved) : Numbered(moved[j])
      /\ \A j \in 1 .. Len(moved) :
            moved[j].pos = IF j = 1 THEN skb.pos + skb.dlen ELSE moved[j-1].pos + moved[j-1].dlen
  <2>1. ASSUME NEW j \in 1 .. n PROVE j \in 1 .. Len(ofo) /\ Numbered(moved[j])
    BY <1>1, <1>8
  <2>2. ASSUME NEW j \in 1 .. n
        PROVE  moved[j].pos = IF j = 1 THEN p ELSE moved[j-1].pos + moved[j-1].dlen
    <3>1. CASE j = 1
      BY <1>6, <1>8, <3>1
    <3>2. CASE j # 1
      <4>1. j - 1 \in 1 .. n
        BY <3>2
      <4> QED
        BY <1>6, <1>8, <3>2, <4>1
    <3> QED
      BY <3>1, <3>2
  <2> QED
    BY <1>8, <2>1, <2>2 DEF p
<1>10. /\ a \in Seq(RcvBuf) /\ InOrder(a) /\ \A j \in 1 .. Len(a) : Numbered(a[j])
       /\ Reach(a) = IF moved = << >> THEN p ELSE Last(moved).pos + Last(moved).dlen
  BY <1>1, <1>4, <1>8, <1>9, Extended DEF p
<1> HIDE DEF a
<1>11. (IF moved = << >> THEN nxt ELSE Sum(Last(moved).seq, Last(moved).dlen)) = Number(irs, Reach(a))
  <2>1. CASE moved = << >>
    BY <1>5, <1>10, <2>1
  <2>2. CASE moved # << >>
    <3> DEFINE l == Last(moved)
    <3>1. l \in RcvBuf /\ Numbered(l)
      BY <1>8, <1>9, <2>2 DEF Last
    <3> HIDE DEF l
    <3>2. /\ l.pos \in Nat /\ l.dlen \in Nat /\ l.pos + l.dlen < MOD
          /\ l.seq = Number(irs, l.pos)
      BY <3>1, SeqAssumption DEF Numbered, RcvBuf
    <3>3. Sum(l.seq, l.dlen) = Number(irs, l.pos + l.dlen)
      BY <1>1, <3>2, NumberPlus
    <3> QED
      BY <1>10, <2>2, <3>3 DEF l
  <2> QED
    BY <2>1, <2>2
<1> DEFINE o == SubSeq(ofo, Len(moved) + 1, Len(ofo))
<1>12. /\ o \in Seq(RcvBuf)
       /\ \A j \in 1 .. Len(o) : \E i \in 1 .. Len(ofo) : o[j] = ofo[i]
  BY <1>1, <1>8, RestOf
<1>13. d.rq = a /\ d.ofo = o /\ d.sack = << >> /\ d.rcv_nxt = Number(irs, Reach(a))
  BY <1>7, <1>11
<1> HIDE DEF o
<1>14. \A j \in 1 .. Len(o) : Numbered(o[j]) /\ o[j].seq < o[j].end_seq
  BY <1>1, <1>12
<1>15. ToSet(o) \subseteq ToSet(ofo)
  <2>1. DOMAIN o = 1 .. Len(o) /\ DOMAIN ofo = 1 .. Len(ofo)
    BY <1>1, <1>12
  <2> QED
    BY <1>12, <2>1 DEF ToSet
<1>16. Received(d) /\ d.sack = << >> /\ ToSet(d.ofo) \subseteq ToSet(ofo)
  BY <1>10, <1>12, <1>13, <1>14, <1>15 DEF Received
<1> QED
  BY <1>16 DEF d

\* Insertion into the out-of-order queue adds nothing but the new buffer.
LEMMA InsertAdds ==
    ASSUME NEW q \in Seq(RcvBuf), NEW skb \in RcvBuf
    PROVE  LET r == tcp_data_insert_ordered(q, skb)
           IN  /\ r \in Seq(RcvBuf)
               /\ \A j \in 1 .. Len(r) : r[j] = skb \/ \E i \in 1 .. Len(q) : r[j] = q[i]
<1> DEFINE stops == {j \in 1 .. Len(q) :
                       \/ q[j].seq = skb.seq
                       \/ skb.seq < q[j].seq /\ skb.end_seq <= q[j].seq}
           at == CHOOSE j \in stops : \A k \in stops : j <= k
           r == tcp_data_insert_ordered(q, skb)
           Ok(s) == /\ s \in Seq(RcvBuf)
                    /\ \A j \in 1 .. Len(s) : s[j] = skb \/ \E i \in 1 .. Len(q) : s[j] = q[i]
<1>1. r = IF stops = {} THEN Append(q, skb)
          ELSE IF q[at].seq = skb.seq THEN q ELSE InsertAt(q, at, skb)
  BY DEF tcp_data_insert_ordered
<1>2. Ok(q)
  OBVIOUS
<1>3. Ok(Append(q, skb))
  <2> DEFINE a == Append(q, skb)
  <2>1. a \in Seq(RcvBuf) /\ Len(a) = Len(q) + 1 /\ Len(q) \in Nat
        /\ a[Len(q) + 1] = skb /\ \A i \in 1 .. Len(q) : a[i] = q[i]
    OBVIOUS
  <2> HIDE DEF a
  <2>2. ASSUME NEW j \in 1 .. Len(a) PROVE a[j] = skb \/ \E i \in 1 .. Len(q) : a[j] = q[i]
    <3>1. CASE j = Len(q) + 1
      BY <2>1, <3>1
    <3>2. CASE j # Len(q) + 1
      <4>1. j \in 1 .. Len(q)
        BY <2>1, <3>2
      <4> QED
        BY <2>1, <4>1
    <3> QED
      BY <3>1, <3>2
  <2>3. Ok(a)
    BY <2>1, <2>2
  <2> QED
    BY <2>3 DEF a
<1>4. ASSUME stops # {} PROVE Ok(InsertAt(q, at, skb))
  <2>1. stops \subseteq Nat /\ stops \subseteq 1 .. Len(q)
    OBVIOUS
  <2> HIDE DEF stops
  <2>2. \E x \in stops : \A y \in stops : x <= y
    BY <1>4, <2>1, LeastNumber
  <2>3. at \in stops
    BY <2>2
  <2> HIDE DEF at
  <2>4. at \in 1 .. Len(q) /\ Len(q) \in Nat
    BY <2>1, <2>3
  <2> DEFINE u == SubSeq(q, 1, at - 1)
             v == SubSeq(q, at, Len(q))
             c == u \o << skb >>
             a == c \o v
  <2>5. u \in Seq(RcvBuf) /\ Len(u) = at - 1 /\ \A j \in 1 .. at - 1 : u[j] = q[j]
    BY <2>4
  <2>6. v \in Seq(RcvBuf) /\ Len(v) = Len(q) - at + 1
        /\ \A j \in 1 .. Len(q) - at + 1 : v[j] = q[at + j - 1]
    BY <2>4
  <2> HIDE DEF u, v
  <2>7. c \in Seq(RcvBuf) /\ Len(c) = at /\ c[at] = skb /\ \A j \in 1 .. at - 1 : c[j] = u[j]
    BY <2>4, <2>5
  <2> HIDE DEF c
  <2>8. a \in Seq(RcvBuf) /\ Len(a) = Len(c) + Len(v)
        /\ \A j \in 1 .. Len(c) + Len(v) : a[j] = IF j <= Len(c) THEN c[j] ELSE v[j - Len(c)]
    <3>1. c \in Seq(RcvBuf) /\ v \in Seq(RcvBuf)
      BY <2>6, <2>7
    <3> QED
      BY <3>1, ConcatProperties
  <2> HIDE DEF a
  <2>9. ASSUME NEW j \in 1 .. Len(a) PROVE a[j] = skb \/ \E i \in 1 .. Len(q) : a[j] = q[i]
    <3>1. CASE j < at
      <4>1. a[j] = q[j] /\ j \in 1 .. Len(q)
        BY <2>4, <2>5, <2>6, <2>7, <2>8, <3>1
      <4> QED
        BY <4>1
    <3>2. CASE j = at
      BY <2>4, <2>6, <2>7, <2>8, <3>2
    <3>3. CASE j > at
      <4>1. j - at \in 1 .. Len(q) - at + 1 /\ a[j] = v[j - at] /\ j - 1 \in 1 .. Len(q)
        BY <2>4, <2>6, <2>7, <2>8, <3>3
      <4>2. v[j - at] = q[at + (j - at) - 1] /\ at + (j - at) - 1 = j - 1
        BY <2>4, <2>6, <4>1
      <4> QED
        BY <4>1, <4>2
    <3> QED
      BY <2>4, <3>1, <3>2, <3>3
  <2>10. Ok(a)
    BY <2>8, <2>9
  <2> QED
    BY <2>10 DEF a, c, u, v, InsertAt
<1>5. Ok(r)
  <2> HIDE DEF Ok, r, stops, at
  <2> QED
    BY <1>1, <1>2, <1>3, <1>4
<1> QED
  BY <1>5

----------------------------------------------------------------------------
(* Selective acknowledgments *)

\* What the loop of tcp_calculate_sacks has after each buffer.
CoverSteps(f, q, m) ==
    /\ f[0] = [blocks |-> << >>, break |-> FALSE]
    /\ \A i \in 1 .. m : f[i] = Cover(f[i-1], q[i])

\* The rounds of the loop over any queue.
LEMMA CoverRuns ==
    ASSUME NEW q \in Seq(RcvBuf)
    PROVE  \E f : /\ CoverSteps(f, q, Len(q))
                  /\ tcp_calculate_sacks(q) = f[Len(q)].blocks
<1> DEFINE start == [blocks |-> << >>, break |-> FALSE]
           Fix(f, m) == f = [i \in 0 .. m |-> IF i = 0 THEN start ELSE Cover(f[i-1], q[i])]
           T == {m \in 0 .. Len(q) : ~ \E f : Fix(f, m)}
           acc[i \in 0 .. Len(q)] ==
               IF i = 0 THEN [blocks |-> << >>, break |-> FALSE] ELSE Cover(acc[i-1], q[i])
<1>0. Len(q) \in Nat
  OBVIOUS
<1>1. T = {}
  <2>1. SUFFICES ASSUME T # {} PROVE FALSE
    OBVIOUS
  <2>2. T \subseteq Nat
    BY <1>0
  <2>3. PICK m \in T : \A k \in T : m <= k
    BY <2>1, <2>2, LeastNumber
  <2>4. m \in 0 .. Len(q) /\ ~ \E f : Fix(f, m)
    BY <2>3
  <2>5. CASE m = 0
    <3> DEFINE f == [i \in 0 .. 0 |-> start]
    <3>1. \A i \in 0 .. 0 : i = 0
      OBVIOUS
    <3>2. f = [i \in 0 .. 0 |-> IF i = 0 THEN start ELSE Cover(f[i-1], q[i])]
      <4> HIDE DEF start
      <4> QED
        BY <3>1, Zenon
    <3>3. Fix(f, 0)
      BY <3>2
    <3> QED
      BY <2>4, <2>5, <3>3
  <2>6. CASE m # 0
    <3> DEFINE k == m - 1
    <3>1. k \in 0 .. Len(q) /\ ~ (m <= k) /\ m \in Nat /\ k \in Nat
      BY <1>0, <2>4, <2>6
    <3>2. PICK f : Fix(f, k)
      <4>1. k \notin T
        BY <2>3, <3>1
      <4> HIDE DEF Fix
      <4> QED
        BY <3>1, <4>1
    <3> DEFINE g == [i \in 0 .. m |-> IF i = m THEN Cover(f[k], q[m]) ELSE f[i]]
    <3>3. \A i \in 0 .. k : f[i] = IF i = 0 THEN start ELSE Cover(f[i-1], q[i])
      BY <3>2
    <3>4. \A i \in 0 .. m : g[i] = IF i = m THEN Cover(f[k], q[m]) ELSE f[i]
      OBVIOUS
    <3> DEFINE h == [i \in 0 .. m |-> IF i = 0 THEN start ELSE Cover(g[i-1], q[i])]
    <3>5. ASSUME NEW i \in 0 .. m
          PROVE  g[i] = IF i = 0 THEN start ELSE Cover(g[i-1], q[i])
      <4> HIDE DEF g, start
      <4>1. CASE i = m
        <5>1. i - 1 = k /\ k \in 0 .. m /\ k # m /\ i # 0
          BY <2>6, <3>1, <4>1
        <5>2. g[i] = Cover(f[k], q[m]) /\ g[k] = f[k]
          <6> HIDE DEF k
          <6> QED
            BY <3>4, <4>1, <5>1
        <5> HIDE DEF k
        <5>3. Cover(g[i-1], q[i]) = Cover(f[k], q[m])
          BY <4>1, <5>1, <5>2
        <5> QED
          BY <5>1, <5>2, <5>3
      <4>2. CASE i # m
        <5>1. i \in 0 .. k
          BY <3>1, <4>2
        <5>2. g[i] = f[i]
          BY <3>4, <4>2
        <5>3. CASE i = 0
          BY <3>3, <5>1, <5>2, <5>3
        <5>4. CASE i # 0
          <6>1. i - 1 \in 0 .. m /\ i - 1 # m
            BY <3>1, <5>1, <5>4
          <6>2. g[i-1] = f[i-1]
            BY <3>4, <6>1
          <6> QED
            BY <3>3, <5>1, <5>2, <5>4, <6>2
        <5> QED
          BY <5>3, <5>4
      <4> QED
        BY <4>1, <4>2
    <3>6. g = h
      <4>1. \A i \in 0 .. m : g[i] = h[i]
        BY <3>5
      <4>2. g = [i \in 0 .. m |-> g[i]]
        BY SMT
      <4>3. h = [i \in 0 .. m |-> h[i]]
        BY SMT
      <4> HIDE DEF g, h
      <4> QED
        BY <4>1, <4>2, <4>3, Zenon
    <3>7. Fix(g, m)
      BY <3>6
    <3> HIDE DEF Fix
    <3> QED
      BY <2>4, <3>7
  <2> QED
    BY <2>5, <2>6
<1>2. \E f : Fix(f, Len(q))
  <2> HIDE DEF Fix
  <2> QED
    BY <1>0, <1>1
<1>3. Fix(acc, Len(q))
  <2>1. acc = CHOOSE f : Fix(f, Len(q))
    BY DEF acc
  <2> HIDE DEF acc, Fix
  <2> QED
    BY <1>2, <2>1
<1>4. tcp_calculate_sacks(q) = acc[Len(q)].blocks
  BY DEF tcp_calculate_sacks
<1> HIDE DEF acc
<1>5. \A i \in 0 .. Len(q) : acc[i] = IF i = 0 THEN start ELSE Cover(acc[i-1], q[i])
  BY <1>3
<1>6. CoverSteps(acc, q, Len(q))
  <2> HIDE DEF Fix
  <2>1. \A i \in 1 .. Len(q) : i \in 0 .. Len(q) /\ i # 0
    BY <1>0
  <2> QED
    BY <1>0, <1>5, <2>1 DEF CoverSteps
<1> QED
  BY <1>4, <1>6

Block == [left : Numbers, right : Numbers]
Cut(lo, hi) == [left |-> Number(irs, lo), right |-> Number(irs, hi)]

\* The bytes that blocks tell of, and those of the first i buffers of a queue.
Told(bs) == UNION {Covered(bs[j]) : j \in 1 .. Len(bs)}
Bytesof(b) == b.pos .. b.pos + b.dlen - 1
Held(q, i) == UNION {Bytesof(q[j]) : j \in 1 .. i}

\* A block covers the bytes from its left end up to its right one.
LEMMA CoveredIs ==
    ASSUME irs \in Numbers, NEW lo \in 0 .. Bytes, NEW hi \in 0 .. Bytes, lo < hi
    PROVE  Covered(Cut(lo, hi)) = lo .. hi - 1
<1> DEFINE l == Number(irs, lo)
           r == Number(irs, hi)
           b == [left |-> l, right |-> r]
<1>0. /\ Bytes \in Nat /\ MOD \in Nat /\ lo \in Nat /\ hi \in Nat
      /\ lo < MOD /\ hi < MOD /\ 2 * Bytes < MOD
  BY SeqAssumption
<1>1. ASSUME NEW k \in 0 .. Bytes
      PROVE  /\ k \in Nat /\ lo + k \in Nat /\ lo + k < MOD
             /\ Sum(l, k) = Number(irs, lo + k)
  <2>1. k \in Nat /\ lo + k \in Nat /\ lo + k < MOD
    BY <1>0
  <2>2. Sum(Number(irs, lo), k) = Number(irs, lo + k)
    BY <1>0, <2>1, NumberPlus
  <2> QED
    BY <2>1, <2>2
<1>2. ASSUME NEW k \in 0 .. Bytes
      PROVE  Sum(l, k) = r <=> lo + k = hi
  <2>1. lo + k \in Nat /\ lo + k < MOD /\ Sum(l, k) = Number(irs, lo + k)
    BY <1>1
  <2>2. Number(irs, lo + k) = Number(irs, hi) => lo + k = hi
    BY <1>0, <2>1, NumbersDiffer
  <2> QED
    BY <2>1, <2>2
<1>3. ASSUME NEW k \in 0 .. Bytes, NEW i \in 0 .. Bytes
      PROVE  Number(irs, i) = Sum(l, k) <=> i = lo + k
  <2>1. i \in Nat /\ i < MOD
    BY <1>0
  <2>2. lo + k \in Nat /\ lo + k < MOD /\ Sum(l, k) = Number(irs, lo + k)
    BY <1>1
  <2>3. Number(irs, i) = Number(irs, lo + k) => i = lo + k
    BY <1>0, <2>1, <2>2, NumbersDiffer
  <2> QED
    BY <2>2, <2>3
<1>4. Covered(b) = {i \in 0 .. Bytes : \E k \in 0 .. Bytes :
                      /\ Number(irs, i) = Sum(l, k)
                      /\ \A j \in 0 .. k : Sum(l, j) # r}
  BY DEF Covered
<1> HIDE DEF l, r, b
<1>5. ASSUME NEW i \in Covered(b) PROVE i \in lo .. hi - 1
  <2>1. PICK k \in 0 .. Bytes : /\ Number(irs, i) = Sum(l, k)
                                /\ \A j \in 0 .. k : Sum(l, j) # r
    BY <1>4, <1>5
  <2>2. i \in 0 .. Bytes /\ i = lo + k
    BY <1>3, <1>4, <1>5, <2>1
  <2>3. ~ (lo + k >= hi)
    <3>1. SUFFICES ASSUME lo + k >= hi PROVE FALSE
      OBVIOUS
    <3>2. hi - lo \in 0 .. k /\ hi - lo \in 0 .. Bytes /\ lo + (hi - lo) = hi
      BY <1>0, <3>1
    <3> QED
      BY <1>2, <2>1, <3>2
  <2> QED
    BY <1>0, <2>2, <2>3
<1>6. ASSUME NEW i \in lo .. hi - 1 PROVE i \in Covered(b)
  <2> DEFINE k == i - lo
  <2>1. k \in 0 .. Bytes /\ i \in 0 .. Bytes /\ i = lo + k
    BY <1>0
  <2>2. \A j \in 0 .. k : j \in 0 .. Bytes /\ lo + j # hi
    BY <1>0
  <2> HIDE DEF k
  <2>3. Number(irs, i) = Sum(l, k) /\ \A j \in 0 .. k : Sum(l, j) # r
    BY <1>2, <1>3, <2>1, <2>2
  <2> QED
    BY <1>4, <2>1, <2>3
<1>7. Covered(b) = lo .. hi - 1
  BY <1>5, <1>6
<1> QED
  BY <1>7 DEF b, l, r, Cut

\* What the loop has after some buffers with the bytes H: blocks that cover
\* bytes of H, and all of them until every block is in use.
SacksOk(a, H) ==
    /\ a \in [blocks : Seq(Block), break : BOOLEAN]
    /\ \A j \in 1 .. Len(a.blocks) :
          /\ a.blocks[j].right > 0
          /\ \E lo, hi \in 0 .. Bytes : lo < hi /\ a.blocks[j] = Cut(lo, hi)
    /\ Told(a.blocks) \subseteq H
    /\ ~ a.break => Told(a.blocks) = H
    /\ Len(a.blocks) <= SACKS
    /\ a.break => Len(a.blocks) = SACKS

\* Another block.
LEMMA ToldAppend ==
    ASSUME NEW bs \in Seq(Block), NEW b \in Block
    PROVE  Told(Append(bs, b)) = Told(bs) \cup Covered(b)
<1> DEFINE c == Append(bs, b)
<1>1. Len(c) = Len(bs) + 1 /\ Len(bs) \in Nat /\ c[Len(bs) + 1] = b
      /\ \A j \in 1 .. Len(bs) : c[j] = bs[j]
  OBVIOUS
<1> HIDE DEF c
<1>2. ASSUME NEW x \in Told(c) PROVE x \in Told(bs) \cup Covered(b)
  <2>1. PICK j \in 1 .. Len(c) : x \in Covered(c[j])
    BY <1>2 DEF Told
  <2>2. j \in 1 .. Len(bs) \/ j = Len(bs) + 1
    BY <1>1
  <2> QED
    BY <1>1, <2>1, <2>2 DEF Told
<1>3. ASSUME NEW x \in Told(bs) \cup Covered(b) PROVE x \in Told(c)
  <2>1. CASE x \in Covered(b)
    <3>1. Len(bs) + 1 \in 1 .. Len(c)
      BY <1>1
    <3> QED
      BY <1>1, <2>1, <3>1 DEF Told
  <2>2. CASE x \in Told(bs)
    <3>1. PICK j \in 1 .. Len(bs) : x \in Covered(bs[j])
      BY <2>2 DEF Told
    <3>2. j \in 1 .. Len(c)
      BY <1>1
    <3> QED
      BY <1>1, <3>1, <3>2 DEF Told
  <2> QED
    BY <1>3, <2>1, <2>2
<1> QED
  BY <1>2, <1>3 DEF c

\* One block grows.
LEMMA ToldGrows ==
    ASSUME NEW bs \in Seq(Block), NEW n \in 1 .. Len(bs), NEW cs \in Seq(Block), NEW X,
           Len(cs) = Len(bs), \A j \in 1 .. Len(bs) : j # n => cs[j] = bs[j],
           Covered(cs[n]) = Covered(bs[n]) \cup X
    PROVE  Told(cs) = Told(bs) \cup X
<1>1. ASSUME NEW x \in Told(cs) PROVE x \in Told(bs) \cup X
  <2>1. PICK j \in 1 .. Len(bs) : x \in Covered(cs[j])
    BY <1>1 DEF Told
  <2> QED
    BY <2>1 DEF Told
<1>2. ASSUME NEW x \in Told(bs) \cup X PROVE x \in Told(cs)
  <2>1. CASE x \in X
    BY <2>1 DEF Told
  <2>2. CASE x \in Told(bs)
    <3>1. PICK j \in 1 .. Len(bs) : x \in Covered(bs[j])
      BY <2>2 DEF Told
    <3> QED
      BY <3>1 DEF Told
  <2> QED
    BY <1>2, <2>1, <2>2
<1> QED
  BY <1>1, <1>2

\* One round of the loop.
LEMMA CoverRound ==
    ASSUME irs \in Numbers, NEW skb \in RcvBuf, Numbered(skb), skb.seq < skb.end_seq,
           NEW a, NEW H, SacksOk(a, H)
    PROVE  SacksOk(Cover(a, skb), H \cup Bytesof(skb))
<1> DEFINE bs == a.blocks
           n == Len(bs)
           p == skb.pos
           e == skb.pos + skb.dlen
           block == [left |-> skb.seq, right |-> skb.end_seq]
           c == Cover(a, skb)
           G == H \cup Bytesof(skb)
<1>1. /\ a = [blocks |-> bs, break |-> a.break] /\ a.break \in BOOLEAN /\ bs \in Seq(Block)
      /\ n \in Nat /\ n <= SACKS /\ Told(bs) \subseteq H
      /\ ~ a.break => Told(bs) = H
      /\ a.break => n = SACKS
      /\ SACKS \in Nat /\ SACKS > 0
  BY SeqAssumption DEF SacksOk
<1>2. \A j \in 1 .. n : /\ bs[j].right > 0
                        /\ \E lo, hi \in 0 .. Bytes : lo < hi /\ bs[j] = Cut(lo, hi)
  BY DEF SacksOk
<1>3. /\ p \in 0 .. Bytes /\ e \in 0 .. Bytes /\ p < e
      /\ block = Cut(p, e) /\ skb.seq = Number(irs, p) /\ skb.end_seq = Number(irs, e)
      /\ block \in Block /\ block.right > 0
  BY SeqAssumption DEF Numbered, RcvBuf, Cut, Block, Numbers
<1>4. Bytesof(skb) = p .. e - 1
  <2>1. skb.pos \in Nat /\ skb.dlen \in Nat
    BY DEF RcvBuf
  <2> QED
    BY <2>1 DEF Bytesof
<1>5. Covered(block) = Bytesof(skb)
  BY <1>3, <1>4, CoveredIs
<1>6. c = IF a.break THEN a
          ELSE IF n = 0 THEN [a EXCEPT !.blocks = << block >>]
          ELSE IF bs[n].right \in {0, skb.seq} THEN [a EXCEPT !.blocks[n].right = skb.end_seq]
          ELSE IF n >= SACKS THEN [a EXCEPT !.break = TRUE]
          ELSE [a EXCEPT !.blocks = Append(@, block)]
  BY DEF Cover
<1>0. SUFFICES SacksOk(c, G)
  OBVIOUS
<1> HIDE DEF c, bs, block, p, e, n, G
<1>7. CASE a.break
  <2>1. c = a /\ Told(bs) \subseteq G
    BY <1>1, <1>6, <1>7 DEF G
  <2> QED
    BY <1>1, <1>7, <2>1 DEF SacksOk, bs, n
<1>8. CASE ~ a.break /\ n = 0
  <2>1. c = [blocks |-> << block >>, break |-> FALSE]
    BY <1>1, <1>6, <1>8
  <2>2. c.blocks = << block >> /\ ~ c.break /\ c \in [blocks : Seq(Block), break : BOOLEAN]
    BY <1>3, <2>1
  <2>3. Told(bs) = {} /\ H = {}
    BY <1>1, <1>8 DEF Told, n
  <2>4. Told(<< block >>) = Covered(block)
    <3>1. 1 .. Len(<< block >>) = {1} /\ << block >>[1] = block
      OBVIOUS
    <3> QED
      BY <3>1 DEF Told
  <2>5. Told(c.blocks) = G
    BY <1>5, <2>2, <2>3, <2>4 DEF G
  <2>6. Len(c.blocks) = 1 /\ \A j \in 1 .. Len(c.blocks) : c.blocks[j] = block
    BY <2>2
  <2> QED
    BY <1>1, <1>3, <2>2, <2>5, <2>6 DEF SacksOk
<1>9. CASE ~ a.break /\ n # 0 /\ bs[n].right \in {0, skb.seq}
  <2> DEFINE d == [bs[n] EXCEPT !.right = skb.end_seq]
             cs == [bs EXCEPT ![n] = d]
  <2>1. n \in 1 .. n /\ bs[n] \in Block
    BY <1>1, <1>9 DEF n
  <2>2. PICK lo \in 0 .. Bytes, hi \in 0 .. Bytes : lo < hi /\ bs[n] = Cut(lo, hi)
    BY <1>2, <2>1
  <2>3. bs[n].right > 0 /\ bs[n].right = skb.seq
    BY <1>2, <1>9, <2>1
  <2>4. Number(irs, hi) = Number(irs, p)
    BY <1>3, <2>2, <2>3 DEF Cut
  <2>5. hi = p
    <3>1. hi \in Nat /\ p \in Nat /\ hi < MOD /\ p < MOD
      BY <1>3, SeqAssumption
    <3> QED
      BY <2>4, <3>1, NumbersDiffer
  <2>6. d = Cut(lo, e) /\ d \in Block /\ d.right > 0 /\ lo < e
    <3>1. bs[n] = [left |-> Number(irs, lo), right |-> Number(irs, hi)]
      BY <2>2 DEF Cut
    <3>2. d = [left |-> Number(irs, lo), right |-> Number(irs, e)]
      BY <1>3, <3>1
    <3>3. skb.end_seq > 0 /\ skb.end_seq \in Numbers
      BY <1>3 DEF RcvBuf, block
    <3>4. d \in Block /\ d.right > 0
      BY <2>1, <3>3 DEF Block
    <3>5. lo < e
      BY <1>3, <2>2, <2>5
    <3> QED
      BY <3>2, <3>4, <3>5 DEF Cut
  <2> HIDE DEF d
  <2>7. cs \in Seq(Block) /\ Len(cs) = n /\ cs[n] = d
        /\ \A j \in 1 .. n : j # n => cs[j] = bs[j]
    BY <1>1, <2>1, <2>6 DEF n
  <2> HIDE DEF cs
  <2>8. Covered(cs[n]) = Covered(bs[n]) \cup Bytesof(skb)
    <3>1. Covered(Cut(lo, e)) = lo .. e - 1 /\ Covered(Cut(lo, hi)) = lo .. hi - 1
      BY <1>3, <2>2, <2>6, CoveredIs
    <3>2. lo .. e - 1 = (lo .. hi - 1) \cup (p .. e - 1)
      BY <1>3, <2>2, <2>5
    <3> QED
      BY <1>4, <2>2, <2>6, <2>7, <3>1, <3>2
  <2>9. Told(cs) = Told(bs) \cup Bytesof(skb)
    <3> DEFINE X == Bytesof(skb)
    <3>1. /\ bs \in Seq(Block) /\ n \in 1 .. Len(bs) /\ cs \in Seq(Block)
          /\ Len(cs) = Len(bs) /\ \A j \in 1 .. Len(bs) : j # n => cs[j] = bs[j]
          /\ Covered(cs[n]) = Covered(bs[n]) \cup X
      BY <1>1, <2>1, <2>7, <2>8 DEF n
    <3> HIDE DEF X
    <3>2. Told(cs) = Told(bs) \cup X
      BY <3>1, ToldGrows
    <3> QED
      BY <3>2 DEF X
  <2>10. c = [blocks |-> cs, break |-> FALSE]
    <3>1. c = [a EXCEPT !.blocks = [bs EXCEPT ![n] = [bs[n] EXCEPT !.right = skb.end_seq]]]
      BY <1>6, <1>9 DEF bs
    <3> QED
      BY <1>1, <1>9, <3>1 DEF cs, d, n
  <2>11. c.blocks = cs /\ ~ c.break /\ c \in [blocks : Seq(Block), break : BOOLEAN]
    BY <2>7, <2>10
  <2>12. ASSUME NEW j \in 1 .. n
         PROVE  /\ cs[j].right > 0
                /\ \E x, y \in 0 .. Bytes : x < y /\ cs[j] = Cut(x, y)
    <3>1. CASE j = n
      BY <1>3, <2>2, <2>6, <2>7, <3>1
    <3>2. CASE j # n
      BY <1>2, <2>7, <3>2
    <3> QED
      BY <3>1, <3>2
  <2>13. Told(cs) = G
    BY <1>1, <1>9, <2>9 DEF G
  <2> QED
    BY <1>1, <2>7, <2>11, <2>12, <2>13 DEF SacksOk
<1>10. CASE ~ a.break /\ n # 0 /\ bs[n].right \notin {0, skb.seq} /\ n >= SACKS
  <2>1. c = [blocks |-> bs, break |-> TRUE]
    <3>1. c = [a EXCEPT !.break = TRUE]
      BY <1>6, <1>10, Zenon
    <3>2. a = [blocks |-> bs, break |-> FALSE]
      BY <1>1, <1>10
    <3> QED
      BY <3>1, <3>2
  <2>2. c.blocks = bs /\ c.break /\ c \in [blocks : Seq(Block), break : BOOLEAN] /\ n = SACKS
    BY <1>1, <1>10, <2>1
  <2>3. Told(bs) \subseteq G
    BY <1>1 DEF G
  <2> QED
    BY <1>1, <1>2, <2>2, <2>3 DEF SacksOk, n
<1>11. CASE ~ a.break /\ n # 0 /\ bs[n].right \notin {0, skb.seq} /\ ~ (n >= SACKS)
  <2> DEFINE cs == Append(bs, block)
  <2>1. cs \in Seq(Block) /\ Len(cs) = n + 1 /\ cs[n + 1] = block
        /\ \A j \in 1 .. n : cs[j] = bs[j]
    BY <1>1, <1>3 DEF n
  <2>2. Told(cs) = Told(bs) \cup Bytesof(skb)
    BY <1>1, <1>3, <1>5, ToldAppend
  <2>3. c = [blocks |-> cs, break |-> FALSE]
    <3>1. c = [a EXCEPT !.blocks = cs]
      BY <1>6, <1>11 DEF bs
    <3> HIDE DEF cs
    <3> QED
      BY <1>1, <1>11, <3>1
  <2> HIDE DEF cs
  <2>4. c.blocks = cs /\ ~ c.break /\ c \in [blocks : Seq(Block), break : BOOLEAN]
    BY <2>1, <2>3
  <2>5. ASSUME NEW j \in 1 .. n + 1
        PROVE  /\ cs[j].right > 0
               /\ \E x, y \in 0 .. Bytes : x < y /\ cs[j] = Cut(x, y)
    <3>1. CASE j = n + 1
      BY <1>3, <2>1, <3>1
    <3>2. CASE j # n + 1
      <4>1. j \in 1 .. n
        BY <1>1, <3>2
      <4> QED
        BY <1>2, <2>1, <4>1
    <3> QED
      BY <3>1, <3>2
  <2>6. Told(cs) = G
    BY <1>1, <1>11, <2>2 DEF G
  <2> QED
    BY <1>1, <1>11, <2>1, <2>4, <2>5, <2>6 DEF SacksOk
<1> QED
  BY <1>7, <1>8, <1>9, <1>10, <1>11

\* The blocks of a queue whose numbers do not wrap within a buffer.
LEMMA SacksTell ==
    ASSUME irs \in Numbers, NEW q \in Seq(RcvBuf),
           \A j \in 1 .. Len(q) : Numbered(q[j]) /\ q[j].seq < q[j].end_seq
    PROVE  LET bs == tcp_calculate_sacks(q)
           IN  /\ bs \in Seq(Block) /\ Len(bs) <= SACKS
               /\ Told(bs) \subseteq Held(q, Len(q))
               /\ Len(bs) < SACKS => Told(bs) = Held(q, Len(q))
<1>0. Len(q) \in Nat
  OBVIOUS
<1>1. PICK f : CoverSteps(f, q, Len(q)) /\ tcp_calculate_sacks(q) = f[Len(q)].blocks
  BY CoverRuns
<1> DEFINE T == {i \in 0 .. Len(q) : ~ SacksOk(f[i], Held(q, i))}
<1>2. T = {}
  <2>1. SUFFICES ASSUME T # {} PROVE FALSE
    OBVIOUS
  <2>2. T \subseteq Nat
    BY <1>0
  <2>3. PICK i \in T : \A k \in T : i <= k
    BY <2>1, <2>2, LeastNumber
  <2>4. i \in 0 .. Len(q) /\ ~ SacksOk(f[i], Held(q, i))
    BY <2>3
  <2>5. CASE i = 0
    <3>1. f[0] = [blocks |-> << >>, break |-> FALSE]
      BY <1>1 DEF CoverSteps
    <3>2. /\ f[0].blocks = << >> /\ ~ f[0].break /\ Len(f[0].blocks) = 0
          /\ f[0] \in [blocks : Seq(Block), break : BOOLEAN]
      BY <3>1
    <3>3. Told(f[0].blocks) = {} /\ Held(q, 0) = {}
      BY <3>2 DEF Told, Held
    <3> DEFINE a == f[0]
               H == Held(q, 0)
    <3> HIDE DEF a, H, T
    <3>4. SacksOk(a, H)
      <4>1. SACKS \in Nat /\ SACKS > 0 /\ 0 <= SACKS /\ 1 .. 0 = {}
        BY SeqAssumption
      <4>2. /\ a.blocks = << >> /\ ~ a.break /\ Len(a.blocks) = 0
            /\ a \in [blocks : Seq(Block), break : BOOLEAN] /\ Told(a.blocks) = H
        BY <3>2, <3>3 DEF a, H
      <4>3. \A j \in 1 .. Len(a.blocks) : FALSE
        BY <4>1, <4>2
      <4> QED
        BY <4>1, <4>2, <4>3 DEF SacksOk
    <3> USE DEF a, H
    <3> QED
      BY <2>4, <2>5, <3>4
  <2>6. CASE i # 0
    <3> DEFINE k == i - 1
    <3>1. k \in 0 .. Len(q) /\ ~ (i <= k) /\ i \in 1 .. Len(q) /\ k \in Nat /\ i = k + 1
      BY <1>0, <2>4, <2>6
    <3>2. f[i] = Cover(f[k], q[i])
      BY <1>1, <3>1 DEF CoverSteps
    <3> HIDE DEF k
    <3>3. SacksOk(f[k], Held(q, k))
      BY <2>3, <3>1
    <3>4. q[i] \in RcvBuf /\ Numbered(q[i]) /\ q[i].seq < q[i].end_seq
      BY <3>1
    <3>5. SacksOk(Cover(f[k], q[i]), Held(q, k) \cup Bytesof(q[i]))
      BY <3>3, <3>4, CoverRound
    <3>6. Held(q, i) = Held(q, k) \cup Bytesof(q[i])
      <4>1. \A j : j \in 1 .. i <=> j \in 1 .. k \/ j = i
        BY <3>1
      <4>2. ASSUME NEW x
            PROVE  x \in Held(q, i) <=> x \in Held(q, k) \/ x \in Bytesof(q[i])
        BY <4>1 DEF Held
      <4> QED
        BY <4>2
    <3> QED
      BY <2>4, <3>2, <3>5, <3>6
  <2> QED
    BY <2>5, <2>6
<1>3. SacksOk(f[Len(q)], Held(q, Len(q)))
  BY <1>0, <1>2
<1> DEFINE a == f[Len(q)]
<1>4. /\ a.blocks \in Seq(Block) /\ a.break \in BOOLEAN /\ Len(a.blocks) <= SACKS
      /\ Told(a.blocks) \subseteq Held(q, Len(q))
      /\ ~ a.break => Told(a.blocks) = Held(q, Len(q))
      /\ a.break => Len(a.blocks) = SACKS
  BY <1>3 DEF SacksOk
<1> HIDE DEF a
<1>5. Len(a.blocks) < SACKS => ~ a.break
  BY <1>4, SeqAssumption
<1> QED
  BY <1>1, <1>4, <1>5 DEF a

\* The order of the blocks does not matter.
LEMMA ToldReverse ==
    ASSUME NEW bs \in Seq(Block)
    PROVE  Told(Reverse(bs)) = Told(bs) /\ Len(Reverse(bs)) = Len(bs)
<1> DEFINE n == Len(bs)
           r == Reverse(bs)
<1>1. n \in Nat /\ r = [i \in 1 .. n |-> bs[n - i + 1]]
  BY DEF Reverse
<1>2. Len(r) = n
  BY <1>1
<1>3. \A i \in 1 .. n : r[i] = bs[n - i + 1] /\ n - i + 1 \in 1 .. n /\ n - (n - i + 1) + 1 = i
  BY <1>1
<1> HIDE DEF r, n
<1>4. \A i \in 1 .. n : bs[i] = r[n - i + 1]
  <2>1. ASSUME NEW i \in 1 .. n PROVE bs[i] = r[n - i + 1]
    <3> DEFINE j == n - i + 1
    <3>1. j \in 1 .. n /\ n - j + 1 = i
      BY <1>3
    <3> HIDE DEF j
    <3>2. r[j] = bs[n - j + 1]
      BY <1>3, <3>1
    <3> QED
      BY <3>1, <3>2 DEF j
  <2> QED
    BY <2>1
<1>5. ASSUME NEW x \in Told(r) PROVE x \in Told(bs)
  <2>1. PICK i \in 1 .. n : x \in Covered(r[i])
    BY <1>2, <1>5 DEF Told
  <2> QED
    BY <1>3, <2>1 DEF Told, n
<1>6. ASSUME NEW x \in Told(bs) PROVE x \in Told(r)
  <2>1. PICK i \in 1 .. n : x \in Covered(bs[i])
    BY <1>6 DEF Told, n
  <2>2. n - i + 1 \in 1 .. n /\ bs[i] = r[n - i + 1]
    BY <1>3, <1>4
  <2> QED
    BY <1>2, <2>1, <2>2 DEF Told
<1> QED
  BY <1>2, <1>5, <1>6 DEF r, n

\* A segment ahead of the stream: it joins the out-of-order queue, and the
\* acknowledgment tells what the queue holds.
LEMMA SegmentAhead ==
    ASSUME TypeOK, RcvInv, NEW skb \in RcvBuf, Numbered(skb), skb.seq < skb.end_seq,
           state = "ESTABLISHED", skb.seq # tcb.rcv_nxt
    PROVE  LET d == tcp_data_queue(skb)
           IN  /\ Received(d)
               /\ d.rq = rq
               /\ ToSet(d.ofo) \subseteq ToSet(ofo) \cup {skb}
               /\ d.sack # << >> => /\ Len(d.sack) <= SACKS
                                    /\ Told(d.sack) \subseteq Held(d.ofo, Len(d.ofo))
                                    /\ Len(d.sack) < SACKS =>
                                          Told(d.sack) = Held(d.ofo, Len(d.ofo))
<1> DEFINE d == tcp_data_queue(skb)
           q == tcp_data_insert_ordered(ofo, skb)
           bs == tcp_calculate_sacks(q)
<1>1. d = [rcv_nxt |-> tcb.rcv_nxt, rq |-> rq, ofo |-> q, sack |-> tcp_write_options(bs)]
  BY DEF tcp_data_queue
<1>2. /\ irs \in Numbers /\ rq \in Seq(RcvBuf) /\ ofo \in Seq(RcvBuf)
      /\ tcb.rcv_nxt = Number(irs, Reach(rq)) /\ InOrder(rq)
      /\ \A j \in 1 .. Len(rq) : Numbered(rq[j])
      /\ \A j \in 1 .. Len(ofo) : Numbered(ofo[j]) /\ ofo[j].seq < ofo[j].end_seq
  BY DEF TypeOK, RcvInv
<1>3. /\ q \in Seq(RcvBuf)
      /\ \A j \in 1 .. Len(q) : q[j] = skb \/ \E i \in 1 .. Len(ofo) : q[j] = ofo[i]
  BY <1>2, InsertAdds
<1> HIDE DEF q
<1>4. \A j \in 1 .. Len(q) : Numbered(q[j]) /\ q[j].seq < q[j].end_seq
  BY <1>2, <1>3
<1>5. ToSet(q) \subseteq ToSet(ofo) \cup {skb}
  <2>1. DOMAIN q = 1 .. Len(q) /\ DOMAIN ofo = 1 .. Len(ofo)
    BY <1>2, <1>3
  <2> QED
    BY <1>3, <2>1 DEF ToSet
<1>6. /\ bs \in Seq(Block) /\ Len(bs) <= SACKS
      /\ Told(bs) \subseteq Held(q, Len(q))
      /\ Len(bs) < SACKS => Told(bs) = Held(q, Len(q))
  BY <1>2, <1>3, <1>4, SacksTell
<1> HIDE DEF bs, d
<1>7. d.rcv_nxt = tcb.rcv_nxt /\ d.rq = rq /\ d.ofo = q /\ d.sack = tcp_write_options(bs)
  BY <1>1
<1>8. Received(d)
  BY <1>2, <1>3, <1>4, <1>7 DEF Received
<1>9. d.sack # << >> => d.sack = Reverse(bs)
  BY <1>7 DEF tcp_write_options
<1>10. Told(Reverse(bs)) = Told(bs) /\ Len(Reverse(bs)) = Len(bs)
  BY <1>6, ToldReverse
<1>11. d.sack # << >> => /\ Len(d.sack) <= SACKS
                         /\ Told(d.sack) \subseteq Held(d.ofo, Len(d.ofo))
                         /\ Len(d.sack) < SACKS => Told(d.sack) = Held(d.ofo, Len(d.ofo))
  BY <1>6, <1>7, <1>9, <1>10
<1> QED
  BY <1>5, <1>7, <1>8, <1>11 DEF d

\* The blocks s tell what the queue o holds.
Tells(s, o) ==
    s # << >> => /\ Len(s) <= SACKS
                 /\ Told(s) \subseteq Held(o, Len(o))
                 /\ Len(s) < SACKS => Told(s) = Held(o, Len(o))

\* The property the runs check, in terms of the queue and the blocks.
LEMMA TellsIsSackTells ==
    SackTells <=> Tells(sack, ofo)
BY DEF SackTells, Tells, Told, Held, Bytesof

\* What tcp_input_state makes of the text of a segment.
Text(p, n) ==
    LET seq == Number(irs, p)
        skb == [seq |-> seq, end_seq |-> Sum(seq, n), pos |-> p, dlen |-> n]
    IN  IF n > 0 THEN tcp_data_queue(skb)
        ELSE [rcv_nxt |-> tcb.rcv_nxt, rq |-> rq, ofo |-> ofo, sack |-> << >>]

\* The receiving side takes a segment of the peer.
LEMMA TextTaken ==
    ASSUME TypeOK, RcvInv, state = "ESTABLISHED", NEW p \in 0 .. Bytes, NEW n \in 0 .. 2,
           p + n <= (IF up THEN 0 ELSE Bytes), p + n <= Reach(rq) + RCV_WND,
           tcp_verify_segment(Number(irs, p))
    PROVE  /\ Received(Text(p, n))
           /\ up => Text(p, n).rq = << >>
           /\ Tells(Text(p, n).sack, Text(p, n).ofo)
           /\ \A b \in ToSet(Text(p, n).ofo) \ ToSet(ofo) :
                 Reach(rq) < b.pos /\ b.pos <= Reach(rq) + RCV_WND
<1> DEFINE seq == Number(irs, p)
           skb == [seq |-> seq, end_seq |-> Sum(seq, n), pos |-> p, dlen |-> n]
           same == [rcv_nxt |-> tcb.rcv_nxt, rq |-> rq, ofo |-> ofo, sack |-> << >>]
           R == Reach(rq)
           t == Text(p, n)
<1>1. /\ irs \in Numbers /\ rq \in Seq(RcvBuf) /\ ofo \in Seq(RcvBuf)
      /\ tcb.rcv_nxt = Number(irs, R) /\ InOrder(rq) /\ up \in BOOLEAN
      /\ \A j \in 1 .. Len(rq) : Numbered(rq[j])
      /\ \A j \in 1 .. Len(ofo) : Numbered(ofo[j]) /\ ofo[j].seq < ofo[j].end_seq
      /\ up => rq = << >>
  BY DEF TypeOK, RcvInv
<1>2. R \in 0 .. Bytes
  BY <1>1, ReachBounded
<1>3. t = IF n > 0 THEN tcp_data_queue(skb) ELSE same
  BY DEF Text
<1>4. CASE n = 0
  <2>1. t = same
    BY <1>3, <1>4
  <2>2. /\ same.rcv_nxt = tcb.rcv_nxt /\ same.rq = rq /\ same.ofo = ofo /\ same.sack = << >>
    OBVIOUS
  <2> HIDE DEF same, t
  <2>3. Received(same)
    BY <1>1, <2>2 DEF Received
  <2>4. Tells(same.sack, same.ofo)
    BY <2>2 DEF Tells
  <2>5. \A b \in ToSet(same.ofo) \ ToSet(ofo) : FALSE
    BY <2>2
  <2>6. up => same.rq = << >>
    BY <1>1, <2>2
  <2> QED
    BY <2>1, <2>3, <2>4, <2>5, <2>6 DEF t
<1>5. CASE n # 0
  <2>1. /\ n \in 1 .. 2 /\ p \in Nat /\ p + n <= Bytes /\ ~ up /\ p + n < MOD /\ p < MOD
        /\ p + n \in Nat /\ n \in Nat
    BY <1>1, <1>5, SeqAssumption
  <2>2. seq \in Numbers /\ Sum(seq, n) = Number(irs, p + n) /\ Number(irs, p + n) \in Numbers
    BY <1>1, <2>1, NumberIs, NumberPlus
  <2>3. t = tcp_data_queue(skb)
    BY <1>3, <2>1
  <2>4. /\ skb.seq = seq /\ skb.end_seq = Number(irs, p + n) /\ skb.pos = p /\ skb.dlen = n
        /\ skb \in RcvBuf
    BY <2>1, <2>2 DEF RcvBuf
  <2> HIDE DEF skb
  <2>5. Numbered(skb)
    BY <2>1, <2>4 DEF Numbered
  <2>6. CASE seq = tcb.rcv_nxt
    <3>1. /\ Received(tcp_data_queue(skb))
          /\ tcp_data_queue(skb).sack = << >>
          /\ ToSet(tcp_data_queue(skb).ofo) \subseteq ToSet(ofo)
      BY <2>4, <2>5, <2>6, NextSegment
    <3>2. Tells(tcp_data_queue(skb).sack, tcp_data_queue(skb).ofo)
      BY <3>1 DEF Tells
    <3> HIDE DEF t, seq
    <3> QED
      BY <2>1, <2>3, <3>1, <3>2 DEF t
  <2>7. CASE seq # tcb.rcv_nxt
    <3>1. ~ (seq < Number(irs, R)) /\ ~ (seq > Sum(Number(irs, R), RCV_WND)) /\ seq # Number(irs, R)
      BY <1>1, <2>7 DEF tcp_verify_segment
    <3>2. R < p /\ p <= R + RCV_WND /\ seq < Number(irs, p + n)
      BY <1>1, <1>2, <2>1, <3>1, AheadInWindow
    <3> HIDE DEF seq, R
    <3> DEFINE d == tcp_data_queue(skb)
    <3>3. /\ Received(d) /\ d.rq = rq
          /\ ToSet(d.ofo) \subseteq ToSet(ofo) \cup {skb}
          /\ Tells(d.sack, d.ofo)
      BY <2>4, <2>5, <2>7, <3>2, SegmentAhead DEF Tells
    <3> HIDE DEF d, t
    <3>4. \A b \in ToSet(d.ofo) \ ToSet(ofo) : R < b.pos /\ b.pos <= R + RCV_WND
      BY <2>4, <3>2, <3>3
    <3> QED
      BY <2>1, <2>3, <3>3, <3>4 DEF d, t, R
  <2> QED
    BY <2>6, <2>7
<1> QED
  BY <1>4, <1>5

----------------------------------------------------------------------------
(* The sending side *)

\* tcp_clean_rto_queue takes a prefix of the write queue, each buffer of it
\* sent and, going by the numbers, acknowledged.
LEMMA CleanTakes ==
    ASSUME wq \in Seq(SndBuf), inflight \in Nat, NEW una
    PROVE  \E m \in 0 .. Len(wq) :
              /\ tcp_clean_rto_queue(una) = SubSeq(wq, m + 1, Len(wq))
              /\ Left(tcp_clean_rto_queue(una)) = IF m > inflight THEN 0 ELSE inflight - m
              /\ \A j \in 1 .. m : wq[j].seq > 0 /\ wq[j].end_seq <= una
              /\ m < Len(wq) => ~ (wq[m + 1].seq > 0 /\ wq[m + 1].end_seq <= una)
<1> DEFINE keeps == {j \in 1 .. Len(wq) : ~ (wq[j].seq > 0 /\ wq[j].end_seq <= una)}
           at == CHOOSE j \in keeps : \A k \in keeps : j <= k
           q == tcp_clean_rto_queue(una)
           L == Len(wq)
<1>0. L \in Nat
  OBVIOUS
<1>1. q = IF keeps = {} THEN << >> ELSE SubSeq(wq, at, L)
  BY DEF tcp_clean_rto_queue
<1>2. ASSUME NEW m \in 0 .. L, q = SubSeq(wq, m + 1, L)
      PROVE  Left(q) = IF m > inflight THEN 0 ELSE inflight - m
  <2>1. Len(q) = L - m
    BY <1>0, <1>2
  <2>2. L - Len(q) = m
    BY <1>0, <2>1
  <2> HIDE DEF q
  <2> QED
    BY <2>2 DEF Left
<1>3. CASE keeps = {}
  <2>1. q = << >> /\ SubSeq(wq, L + 1, L) = << >>
    BY <1>0, <1>1, <1>3
  <2>2. \A j \in 1 .. L : wq[j].seq > 0 /\ wq[j].end_seq <= una
    BY <1>3
  <2>3. L \in 0 .. L /\ ~ (L < L)
    BY <1>0
  <2> HIDE DEF q, L
  <2>4. Left(q) = IF L > inflight THEN 0 ELSE inflight - L
    BY <1>2, <2>1, <2>3
  <2>5. L \in 0 .. L /\ q = SubSeq(wq, L + 1, L)
    BY <2>1, <2>3
  <2> QED
    BY <2>2, <2>3, <2>4, <2>5 DEF q, L
<1>4. CASE keeps # {}
  <2>1. keeps \subseteq Nat /\ keeps \subseteq 1 .. L
    BY <1>0
  <2>2. at \in keeps /\ \A k \in keeps : at <= k
    <3> HIDE DEF keeps
    <3> QED
      BY <1>4, <2>1, LeastNumber
  <2> HIDE DEF at
  <2> DEFINE m == at - 1
  <2>3. at \in 1 .. L /\ m \in 0 .. L /\ m + 1 = at
    BY <1>0, <2>1, <2>2
  <2>4. q = SubSeq(wq, m + 1, L)
    BY <1>1, <1>4, <2>3
  <2>5. \A j \in 1 .. m : j \in 1 .. L /\ ~ (at <= j)
    BY <1>0, <2>3
  <2>6. \A j \in 1 .. m : wq[j].seq > 0 /\ wq[j].end_seq <= una
    BY <2>2, <2>5
  <2>7. ~ (wq[m + 1].seq > 0 /\ wq[m + 1].end_seq <= una)
    BY <2>2, <2>3
  <2> HIDE DEF m, q
  <2>8. Left(q) = IF m > inflight THEN 0 ELSE inflight - m
    BY <1>2, <2>3, <2>4
  <2> HIDE DEF L
  <2> QED
    BY <2>3, <2>4, <2>6, <2>7, <2>8 DEF q, L
<1> QED
  BY <1>3, <1>4

\* An acknowledgment of byte a that lies, by the numbers, up to snd_nxt: what
\* follows byte a and was sent has a larger number.
LEMMA AfterAck ==
    ASSUME NEW isn \in Numbers, NEW a \in 0 .. Bytes, NEW g \in 0 .. Bytes, NEW k \in 0 .. Bytes,
           a < k, k <= g, Number(isn, a) <= Number(isn, g)
    PROVE  Number(isn, a) < Number(isn, k)
<1> DEFINE x == Number(isn, a)
           y == Number(isn, g)
           z == Number(isn, k)
<1>1. /\ MOD \in Nat /\ Bytes \in Nat /\ 2 * Bytes < MOD /\ isn \in Nat /\ isn < MOD
      /\ a \in Nat /\ g \in Nat /\ k \in Nat /\ a < MOD /\ g < MOD /\ k < MOD
  BY SeqAssumption DEF Numbers
<1>2. x = IF isn + 1 + a < MOD THEN isn + 1 + a ELSE isn + 1 + a - MOD
  BY <1>1, NumberIs
<1>3. y = IF isn + 1 + g < MOD THEN isn + 1 + g ELSE isn + 1 + g - MOD
  BY <1>1, NumberIs
<1>4. z = IF isn + 1 + k < MOD THEN isn + 1 + k ELSE isn + 1 + k - MOD
  BY <1>1, NumberIs
<1>5. x <= y
  OBVIOUS
<1> HIDE DEF x, y, z
<1>6. x < z
  BY <1>1, <1>2, <1>3, <1>4, <1>5
<1> QED
  BY <1>6 DEF x, z

\* A queue without its first m buffers, all of them sent.
LEMMA SentRest ==
    ASSUME NEW q \in Seq(SndBuf), NEW isn, NEW n \in Nat, NEW k \in Nat, NEW m \in 0 .. Len(q),
           SentFirst(q, isn, n, k), m <= n
    PROVE  LET r == SubSeq(q, m + 1, Len(q))
           IN  r \in Seq(SndBuf) /\ Len(r) = Len(q) - m /\ SentFirst(r, isn, n - m, k + m)
<1> DEFINE r == SubSeq(q, m + 1, Len(q))
           L == Len(q)
<1>1. L \in Nat /\ n <= L /\ r \in Seq(SndBuf) /\ Len(r) = L - m
      /\ \A j \in 1 .. L - m : r[j] = q[m + j]
  BY DEF SentFirst
<1> HIDE DEF r
<1>2. ASSUME NEW j \in 1 .. Len(r)
      PROVE  r[j] = IF j <= n - m
                    THEN [seq |-> Number(isn, (k + m) + (j - 1)), end_seq |-> Number(isn, (k + m) + j),
                          dlen |-> 1, sent |-> TRUE]
                    ELSE Buffer(1)
  <2> DEFINE i == m + j
  <2>1. i \in 1 .. L /\ r[j] = q[i] /\ (i <= n <=> j <= n - m)
        /\ k + (i - 1) = (k + m) + (j - 1) /\ k + i = (k + m) + j
    BY <1>1
  <2> HIDE DEF i, L
  <2>2. q[i] = IF i <= n
               THEN [seq |-> Number(isn, k + (i - 1)), end_seq |-> Number(isn, k + i),
                     dlen |-> 1, sent |-> TRUE]
               ELSE Buffer(1)
    BY <2>1 DEF SentFirst, L
  <2> QED
    BY <2>1, <2>2
<1>3. SentFirst(r, isn, n - m, k + m)
  BY <1>1, <1>2 DEF SentFirst
<1> QED
  BY <1>1, <1>3 DEF r

\* What an acknowledgment of the peer leaves in the write queue: no byte goes
\* that the peer does not have.
LEMMA QueueCleaned ==
    ASSUME TypeOK, SndInv, DataHeld, NEW a \in 0 .. acked,
           Number(tcb.iss, a) <= tcb.snd_nxt
    PROVE  LET q == tcp_clean_rto_queue(Number(tcb.iss, a))
           IN  /\ q \in Seq(SndBuf) /\ Len(q) <= wrote /\ wrote - Len(q) <= acked
               /\ Left(q) \in Nat /\ gone = (wrote - Len(q)) + Left(q)
               /\ SentFirst(q, tcb.iss, Left(q), wrote - Len(q))
<1> DEFINE isn == tcb.iss
           una == Number(isn, a)
           q == tcp_clean_rto_queue(una)
           L == Len(wq)
           k == wrote - L
<1>1. /\ isn \in Numbers /\ wq \in Seq(SndBuf) /\ inflight \in Nat /\ L \in Nat
      /\ wrote \in Nat /\ gone \in Nat /\ acked \in Nat
  BY DEF TypeOK
<1>2. /\ acked <= gone /\ gone <= wrote /\ wrote <= Bytes /\ tcb.snd_nxt = Number(isn, gone)
      /\ L <= wrote /\ k <= acked /\ gone = k + inflight /\ k \in Nat
      /\ SentFirst(wq, isn, inflight, k) /\ inflight <= L
  BY <1>1 DEF SndInv, DataHeld, Base, SentFirst
<1>3. PICK m \in 0 .. L :
          /\ q = SubSeq(wq, m + 1, L)
          /\ Left(q) = IF m > inflight THEN 0 ELSE inflight - m
          /\ \A j \in 1 .. m : wq[j].seq > 0 /\ wq[j].end_seq <= una
          /\ m < L => ~ (wq[m + 1].seq > 0 /\ wq[m + 1].end_seq <= una)
  BY <1>1, CleanTakes
<1> HIDE DEF q, una, L, k
<1>4. m <= inflight
  <2>1. SUFFICES ASSUME m > inflight PROVE FALSE
    BY <1>1
  <2>2. m \in 1 .. m /\ m \in 1 .. L /\ ~ (m <= inflight)
    BY <1>1, <2>1
  <2>3. wq[m] = Buffer(1)
    BY <1>2, <2>2 DEF SentFirst, L
  <2>4. wq[m].seq > 0
    BY <1>3, <2>2
  <2> QED
    BY <2>3, <2>4 DEF Buffer
<1>5. k + m <= acked
  <2>1. CASE m = 0
    BY <1>1, <1>2, <2>1
  <2>2. CASE m # 0
    <3>1. SUFFICES ASSUME k + m > acked PROVE FALSE
      BY <1>1, <1>2
    <3>2. m \in 1 .. m /\ m \in 1 .. L /\ m <= inflight
      BY <1>1, <1>4, <2>2
    <3>3. wq[m].end_seq = Number(isn, k + m)
      <4>1. wq[m] = [seq |-> Number(isn, k + (m - 1)), end_seq |-> Number(isn, k + m),
                     dlen |-> 1, sent |-> TRUE]
        BY <1>2, <3>2 DEF SentFirst, L
      <4> QED
        BY <4>1
    <3>4. Number(isn, k + m) <= una
      BY <1>3, <3>2, <3>3
    <3>5. /\ a \in 0 .. Bytes /\ gone \in 0 .. Bytes /\ k + m \in 0 .. Bytes
          /\ a < k + m /\ k + m <= gone
      BY <1>1, <1>2, <1>4, <3>1, SeqAssumption
    <3>6. una <= Number(isn, gone)
      BY <1>2 DEF una
    <3>7. una < Number(isn, k + m)
      BY <1>1, <3>5, <3>6, AfterAck DEF una
    <3>8. una \in Nat /\ Number(isn, k + m) \in Nat
      <4>1. a \in Nat /\ a < MOD /\ k + m \in Nat /\ k + m < MOD
        BY <3>5, SeqAssumption
      <4> QED
        BY <1>1, <4>1, NumberIs DEF una, Numbers
    <3> QED
      BY <3>4, <3>7, <3>8
  <2> QED
    BY <2>1, <2>2
<1>6. q \in Seq(SndBuf) /\ Len(q) = L - m /\ SentFirst(q, isn, inflight - m, k + m)
  <2>1. /\ wq \in Seq(SndBuf) /\ inflight \in Nat /\ k \in Nat /\ m \in 0 .. Len(wq)
        /\ SentFirst(wq, isn, inflight, k) /\ m <= inflight
        /\ q = SubSeq(wq, m + 1, Len(wq))
    BY <1>1, <1>2, <1>3, <1>4 DEF L
  <2> HIDE DEF isn
  <2>2. /\ SubSeq(wq, m + 1, Len(wq)) \in Seq(SndBuf)
        /\ Len(SubSeq(wq, m + 1, Len(wq))) = Len(wq) - m
        /\ SentFirst(SubSeq(wq, m + 1, Len(wq)), isn, inflight - m, k + m)
    BY <2>1, SentRest, SMTT(30)
  <2> QED
    BY <2>1, <2>2 DEF L
<1>7. Left(q) = inflight - m /\ wrote - Len(q) = k + m
  BY <1>1, <1>2, <1>3, <1>4, <1>6 DEF k
<1>8. /\ q \in Seq(SndBuf) /\ Len(q) <= wrote /\ wrote - Len(q) <= acked
      /\ Left(q) \in Nat /\ gone = (wrote - Len(q)) + Left(q)
      /\ SentFirst(q, isn, Left(q), wrote - Len(q))
  BY <1>1, <1>2, <1>4, <1>5, <1>6, <1>7, SMTT(30)
<1> QED
  BY <1>8 DEF q, una

\* A buffer of one byte is sent with the number of its byte.
LEMMA ByteSent ==
    ASSUME NEW isn \in Numbers, NEW i \in Nat, i + 1 < MOD
    PROVE  /\ Transmitted(Buffer(1), Number(isn, i)) =
                  [seq |-> Number(isn, i), end_seq |-> Number(isn, i + 1), dlen |-> 1, sent |-> TRUE]
           /\ Transmitted(Buffer(1), Number(isn, i)) \in SndBuf
           /\ Sum(Number(isn, i), 1) = Number(isn, i + 1)
<1>1. i < MOD /\ i + 1 \in Nat /\ MOD \in Nat
  BY SeqAssumption
<1>2. Number(isn, i) \in Numbers /\ Number(isn, i + 1) \in Numbers
  BY <1>1, NumberIs
<1>3. Sum(Number(isn, i), 1) = Number(isn, i + 1)
  BY <1>1, NumberPlus
<1> DEFINE s == Number(isn, i)
           e == Number(isn, i + 1)
<1>4. Transmitted(Buffer(1), s) = [seq |-> s, end_seq |-> e, dlen |-> 1, sent |-> TRUE]
  <2>1. Buffer(1).dlen = 1
    BY DEF Buffer
  <2>2. Transmitted(Buffer(1), s) =
            [[seq |-> 0, end_seq |-> 0, dlen |-> 1, sent |-> FALSE] EXCEPT
                !.seq = s, !.end_seq = e, !.sent = TRUE]
    BY <1>3, <2>1 DEF Transmitted, Buffer
  <2> HIDE DEF s, e
  <2> QED
    BY <2>2
<1> HIDE DEF s, e
<1>5. [seq |-> s, end_seq |-> e, dlen |-> 1, sent |-> TRUE] \in SndBuf
  BY <1>2 DEF s, e, SndBuf
<1> QED
  BY <1>3, <1>4, <1>5 DEF s, e

\* Once nothing is in flight the next buffers are sent from snd_nxt on.
LEMMA NextSent ==
    ASSUME NEW isn \in Numbers, NEW q \in Seq(SndBuf), NEW g \in Nat, g + Len(q) <= Bytes,
           SentFirst(q, isn, 0, g),
           NEW m \in Nat, m = IF Len(q) < 3 THEN Len(q) ELSE 3
    PROVE  LET r == tcp_send_next(q, Number(isn, g))
           IN  /\ r \in Seq(SndBuf) /\ Len(r) = Len(q) /\ SentFirst(r, isn, m, g)
               /\ Sum(Number(isn, g), m) = Number(isn, g + m)
<1> DEFINE r == tcp_send_next(q, Number(isn, g))
           L == Len(q)
<1>1. /\ L \in Nat /\ m \in 0 .. L /\ MOD \in Nat /\ Bytes \in Nat /\ 2 * Bytes < MOD
      /\ \A j \in 1 .. L : j <= 3 <=> j <= m
  BY SeqAssumption
<1>2. ASSUME NEW j \in 1 .. L PROVE q[j] = Buffer(1) /\ q[j] \in SndBuf
  <2>1. ~ (j <= 0)
    BY <1>1
  <2>2. q[j] \in SndBuf
    OBVIOUS
  <2>3. q[j] = Buffer(1)
    BY <2>1, Zenon DEF SentFirst
  <2> QED
    BY <2>2, <2>3
<1>3. r = [j \in 1 .. L |-> IF j <= 3 THEN Transmitted(q[j], Sum(Number(isn, g), j - 1)) ELSE q[j]]
  BY DEF tcp_send_next
<1>4. ASSUME NEW j \in 1 .. L
      PROVE  /\ r[j] = IF j <= m
                       THEN [seq |-> Number(isn, g + (j - 1)), end_seq |-> Number(isn, g + j),
                             dlen |-> 1, sent |-> TRUE]
                       ELSE Buffer(1)
             /\ r[j] \in SndBuf
  <2>1. r[j] = IF j <= m THEN Transmitted(Buffer(1), Sum(Number(isn, g), j - 1)) ELSE q[j]
    <3> HIDE DEF r, L
    <3> QED
      BY <1>1, <1>2, <1>3
  <2> DEFINE i == g + (j - 1)
  <2>2. /\ j - 1 \in Nat /\ i \in Nat /\ i + 1 < MOD /\ i + 1 = g + j /\ g + (j - 1) < MOD
    BY <1>1
  <2>3. Sum(Number(isn, g), j - 1) = Number(isn, i)
    BY <2>2, NumberPlus
  <2> HIDE DEF i, r
  <2>4. /\ Transmitted(Buffer(1), Number(isn, i)) =
               [seq |-> Number(isn, i), end_seq |-> Number(isn, i + 1), dlen |-> 1, sent |-> TRUE]
        /\ Transmitted(Buffer(1), Number(isn, i)) \in SndBuf
    BY <2>2, ByteSent
  <2>5. CASE j <= m
    <3>1. r[j] = Transmitted(Buffer(1), Number(isn, i))
      BY <2>1, <2>3, <2>5
    <3> QED
      BY <2>2, <2>4, <2>5, <3>1 DEF i
  <2>6. CASE ~ (j <= m)
    BY <1>2, <2>1, <2>6
  <2> QED
    BY <2>5, <2>6
<1>5. r \in Seq(SndBuf) /\ Len(r) = L
  <2>1. r = [j \in 1 .. L |-> r[j]]
    BY <1>3
  <2> HIDE DEF r, L
  <2>2. r \in [1 .. L -> SndBuf]
    BY <1>4, <2>1
  <2> QED
    BY <1>1, <2>2
<1>6. g + m < MOD
  BY <1>1
<1>7. Sum(Number(isn, g), m) = Number(isn, g + m)
  BY <1>6, NumberPlus
<1> HIDE DEF r, L
<1>8. SentFirst(r, isn, m, g)
  BY <1>1, <1>4, <1>5 DEF SentFirst
<1> QED
  BY <1>5, <1>7, <1>8 DEF r, L

----------------------------------------------------------------------------
(* The steps *)

\* When connect() has sent the SYN, nothing is queued but the SYN.
LEMMA InitInv ==
    Init => SeqInv
<1> SUFFICES ASSUME Init PROVE SeqInv
  OBVIOUS
<1>1. PICK iss \in ISNs : tcp_connect(iss)
  BY DEF Init
<1>2. iss \in Numbers /\ irs \in Numbers /\ up \in BOOLEAN /\ MOD \in Nat /\ MOD > 0 /\ Bytes \in Nat
  BY SeqAssumption DEF Init, Numbers
<1>3. /\ tcb = [iss |-> iss, snd_una |-> iss, snd_nxt |-> Sum(iss, 1), rcv_nxt |-> 0]
      /\ wq = << Transmitted(Buffer(0), iss) >> /\ inflight = 1
  BY <1>1 DEF tcp_connect
<1>4. /\ state = "SYN_SENT" /\ wrote = 0 /\ gone = 0 /\ acked = 0
      /\ ofo = << >> /\ rq = << >> /\ sack = << >>
  BY DEF Init
<1>5. Sum(iss, 1) = Number(iss, 0) /\ Sum(iss, 0) = iss
  BY <1>2, NumberFirst
<1>6. Number(iss, 0) \in Numbers /\ 0 \in Numbers
  <2>1. Number(iss, 0) \in Numbers
    BY <1>2, NumberIs
  <2>2. 0 \in Numbers
    BY <1>2 DEF Numbers
  <2> QED
    BY <2>1, <2>2
<1> DEFINE syn == [seq |-> iss, end_seq |-> iss, dlen |-> 0, sent |-> TRUE]
<1>7. Transmitted(Buffer(0), iss) = syn
  <2>1. Buffer(0).dlen = 0
    BY DEF Buffer
  <2>2. Transmitted(Buffer(0), iss) =
            [[seq |-> 0, end_seq |-> 0, dlen |-> 0, sent |-> FALSE] EXCEPT
                !.seq = iss, !.end_seq = iss, !.sent = TRUE]
    BY <1>5, <2>1 DEF Transmitted, Buffer
  <2> QED
    BY <2>2
<1>8. syn \in SndBuf
  BY <1>2 DEF SndBuf
<1> HIDE DEF syn
<1>9. wq = << syn >> /\ wq \in Seq(SndBuf) /\ Len(wq) = 1 /\ wq[1] = syn /\ wq # << >>
  BY <1>3, <1>7, <1>8
<1>10. /\ tcb \in [iss : Numbers, snd_una : Numbers, snd_nxt : Numbers, rcv_nxt : Numbers]
       /\ tcb.iss = iss /\ tcb.snd_nxt = Number(iss, 0)
  BY <1>2, <1>3, <1>5, <1>6
<1>11. TypeOK
  BY <1>2, <1>3, <1>4, <1>9, <1>10 DEF TypeOK
<1>12. RcvInv
  BY <1>4 DEF RcvInv, InOrder
<1>13. SynHeld
  BY <1>3, <1>4, <1>9, <1>10 DEF SynHeld, syn
<1>14. SndInv
  BY <1>2, <1>4, <1>10, <1>13 DEF SndInv
<1>15. SackTells
  BY <1>4 DEF SackTells
<1> QED
  BY <1>11, <1>12, <1>14, <1>15 DEF SeqInv

\* The peer's SYN/ACK.
LEMMA SynsentInv ==
    ASSUME SeqInv, tcp_synsent
    PROVE  SeqInv'
<1> DEFINE ack == Number(tcb.iss, 0)
           q == tcp_clean_rto_queue(ack)
<1>1. /\ state = "SYN_SENT" /\ state' = "ESTABLISHED"
      /\ ~ (ack <= tcb.iss)
      /\ tcb' = [tcb EXCEPT !.rcv_nxt = Number(irs, 0), !.snd_una = tcb.snd_nxt]
      /\ wq' = q /\ inflight' = Left(q)
      /\ up' = up /\ irs' = irs /\ wrote' = wrote /\ gone' = gone /\ acked' = acked
      /\ ofo' = ofo /\ rq' = rq /\ sack' = sack
  BY DEF tcp_synsent
<1>2. TypeOK /\ RcvInv /\ SndInv /\ SackTells
  BY DEF SeqInv
<1>3. /\ tcb \in [iss : Numbers, snd_una : Numbers, snd_nxt : Numbers, rcv_nxt : Numbers]
      /\ tcb.iss \in Numbers /\ irs \in Numbers /\ wq \in Seq(SndBuf) /\ inflight \in Nat
      /\ MOD \in Nat /\ MOD > 0 /\ Bytes \in Nat
      /\ wrote \in Nat /\ gone \in Nat /\ acked \in Nat
  BY <1>2, SeqAssumption DEF TypeOK
<1>4. rq = << >> /\ ofo = << >> /\ sack = << >>
  BY <1>1, <1>2 DEF RcvInv
<1>5. SynHeld /\ wrote = 0 /\ Len(wq) = 1 /\ inflight = 1 /\ gone = 0
  <2>1. SynHeld
    BY <1>1, <1>2 DEF SndInv, DataHeld
  <2> QED
    BY <1>1, <2>1 DEF SynHeld
<1>6. Number(irs, 0) \in Numbers /\ ack \in Numbers
  BY <1>3, NumberIs
<1>7. /\ tcb' \in [iss : Numbers, snd_una : Numbers, snd_nxt : Numbers, rcv_nxt : Numbers]
      /\ tcb'.iss = tcb.iss /\ tcb'.snd_nxt = tcb.snd_nxt /\ tcb'.rcv_nxt = Number(irs, 0)
  BY <1>1, <1>3, <1>6
<1>8. PICK m \in 0 .. Len(wq) :
          /\ q = SubSeq(wq, m + 1, Len(wq))
          /\ Left(q) = IF m > inflight THEN 0 ELSE inflight - m
          /\ m < Len(wq) => ~ (wq[m + 1].seq > 0 /\ wq[m + 1].end_seq <= ack)
  BY <1>3, CleanTakes
<1> HIDE DEF q, ack
<1>9. wq' \in Seq(SndBuf) /\ inflight' \in Nat
  <2>1. SubSeq(wq, m + 1, Len(wq)) \in Seq(SndBuf)
    BY <1>3
  <2>2. Left(q) \in Nat
    BY <1>3, <1>8
  <2> QED
    BY <1>1, <1>8, <2>1, <2>2
<1>10. TypeOK'
  BY <1>1, <1>2, <1>7, <1>9 DEF TypeOK
<1>11. RcvInv'
  BY <1>1, <1>4, <1>7 DEF RcvInv, InOrder, Reach
<1>12. SackTells'
  BY <1>1, <1>4 DEF SackTells
<1>13. SynHeld' \/ DataHeld'
  <2>1. CASE m = 0
    <3>1. wq' = wq
      BY <1>1, <1>3, <1>5, <1>8, <2>1
    <3>2. inflight' = 1
      BY <1>1, <1>5, <1>8, <2>1
    <3>3. ~ (tcb.iss > 0 /\ tcb.iss <= ack)
      <4>1. wq[1].seq = tcb.iss /\ wq[1].end_seq = tcb.iss
        BY <1>5 DEF SynHeld
      <4> QED
        BY <1>5, <1>8, <2>1, <4>1
    <3>4. tcb.iss = 0
      BY <1>1, <1>3, <1>6, <3>3, SMTT(30) DEF Numbers
    <3>5. SynHeld'
      BY <1>1, <1>5, <1>7, <3>1, <3>2, <3>4 DEF SynHeld
    <3> QED
      BY <3>5
  <2>2. CASE m = 1
    <3>1. wq' = << >> /\ Len(wq') = 0
      BY <1>1, <1>3, <1>5, <1>8, <2>2
    <3>2. inflight' = 0
      BY <1>1, <1>5, <1>8, <2>2
    <3>3. DataHeld'
      BY <1>1, <1>3, <1>5, <3>1, <3>2 DEF DataHeld, Base, SentFirst
    <3> QED
      BY <3>3
  <2> QED
    BY <1>5, <2>1, <2>2
<1>14. SndInv'
  BY <1>1, <1>2, <1>7, <1>13 DEF SndInv
<1> QED
  BY <1>10, <1>11, <1>12, <1>14 DEF SeqInv

\* The peer reads more of what was sent.
LEMMA PeerReceivesInv ==
    ASSUME SeqInv, PeerReceives
    PROVE  SeqInv'
<1>1. /\ \E n \in acked + 1 .. gone : acked' = n
      /\ sack' = << >> /\ up' = up /\ state' = state /\ tcb' = tcb /\ wq' = wq
      /\ inflight' = inflight /\ irs' = irs /\ wrote' = wrote /\ gone' = gone
      /\ ofo' = ofo /\ rq' = rq
  BY DEF PeerReceives
<1>2. TypeOK /\ RcvInv /\ SndInv
  BY DEF SeqInv
<1>3. acked \in Nat /\ gone \in Nat /\ wrote \in Nat /\ Len(wq) \in Nat
  BY <1>2 DEF TypeOK
<1>4. acked' \in Nat /\ acked < acked' /\ acked' <= gone
  BY <1>1, <1>3
<1>5. TypeOK'
  BY <1>1, <1>2, <1>4 DEF TypeOK
<1>6. RcvInv'
  BY <1>1, <1>2 DEF RcvInv, InOrder, Numbered
<1>7. SynHeld => SynHeld'
  BY <1>1 DEF SynHeld
<1>8. DataHeld => DataHeld'
  BY <1>1, <1>3, <1>4 DEF DataHeld, Base, SentFirst
<1>9. SndInv'
  BY <1>1, <1>2, <1>3, <1>4, <1>7, <1>8 DEF SndInv
<1>10. SackTells'
  BY <1>1 DEF SackTells
<1> QED
  BY <1>5, <1>6, <1>9, <1>10 DEF SeqInv

\* write() of a byte.
LEMMA QueueInv ==
    ASSUME SeqInv, tcp_queue_transmit_skb
    PROVE  SeqInv'
<1>1. /\ state = "ESTABLISHED" /\ up /\ wrote < Bytes
      /\ wrote' = wrote + 1 /\ sack' = << >> /\ up' = up /\ state' = state
      /\ irs' = irs /\ acked' = acked /\ ofo' = ofo /\ rq' = rq
  BY DEF tcp_queue_transmit_skb
<1>2. TypeOK /\ RcvInv /\ SndInv
  BY DEF SeqInv
<1>3. /\ tcb \in [iss : Numbers, snd_una : Numbers, snd_nxt : Numbers, rcv_nxt : Numbers]
      /\ tcb.iss \in Numbers /\ wq \in Seq(SndBuf) /\ inflight \in Nat /\ Len(wq) \in Nat
      /\ MOD \in Nat /\ Bytes \in Nat /\ 2 * Bytes < MOD
      /\ wrote \in Nat /\ gone \in Nat /\ acked \in Nat
  BY <1>2, SeqAssumption DEF TypeOK
<1>4. Buffer(1) \in SndBuf
  BY <1>3 DEF Buffer, SndBuf, Numbers
<1>5. /\ acked <= gone /\ gone <= wrote /\ wrote <= Bytes /\ tcb.snd_nxt = Number(tcb.iss, gone)
      /\ SynHeld \/ DataHeld
  BY <1>2 DEF SndInv
<1>6. SackTells'
  BY <1>1 DEF SackTells
<1>7. CASE inflight = 0
  <2> DEFINE b == Transmitted(Buffer(1), tcb.snd_nxt)
  <2>1. /\ wq' = Append(wq, b) /\ tcb' = [tcb EXCEPT !.snd_nxt = Sum(@, 1)]
        /\ inflight' = 1 /\ gone' = gone + 1
    BY <1>7 DEF tcp_queue_transmit_skb
  <2>2. DataHeld /\ wq = << >> /\ Len(wq) = 0
    <3>1. DataHeld
      BY <1>5, <1>7 DEF SynHeld
    <3> QED
      BY <1>7, <3>1 DEF DataHeld
  <2>3. gone = wrote /\ gone <= acked /\ gone + 1 < MOD
    BY <1>1, <1>3, <1>5, <1>7, <2>2 DEF DataHeld, Base
  <2>4. /\ b = [seq |-> Number(tcb.iss, gone), end_seq |-> Number(tcb.iss, gone + 1),
                dlen |-> 1, sent |-> TRUE]
        /\ b \in SndBuf /\ Sum(tcb.snd_nxt, 1) = Number(tcb.iss, gone + 1)
    BY <1>3, <1>5, <2>3, ByteSent
  <2> HIDE DEF b
  <2>5. wq' = << b >> /\ wq' \in Seq(SndBuf) /\ Len(wq') = 1 /\ wq'[1] = b
    BY <2>1, <2>2, <2>4
  <2>6. Number(tcb.iss, gone + 1) \in Numbers
    BY <1>3, <2>3, NumberIs
  <2>7. /\ tcb' \in [iss : Numbers, snd_una : Numbers, snd_nxt : Numbers, rcv_nxt : Numbers]
        /\ tcb'.iss = tcb.iss /\ tcb'.snd_nxt = Number(tcb.iss, gone + 1)
        /\ tcb'.rcv_nxt = tcb.rcv_nxt
    BY <1>3, <2>1, <2>4, <2>6
  <2>8. TypeOK'
    BY <1>1, <1>2, <1>3, <2>1, <2>5, <2>7 DEF TypeOK
  <2>9. RcvInv'
    BY <1>1, <1>2, <2>7 DEF RcvInv, InOrder, Numbered
  <2>10. Base' = gone
    BY <1>1, <1>3, <2>3, <2>5 DEF Base
  <2>11. SentFirst(wq', tcb'.iss, inflight', Base')
    <3>1. \A j \in 1 .. Len(wq') : j = 1
      BY <2>5
    <3>2. gone + (1 - 1) = gone /\ 1 <= 1
      BY <1>3
    <3>3. wq'[1] = IF 1 <= 1
                   THEN [seq |-> Number(tcb.iss, gone + (1 - 1)), end_seq |-> Number(tcb.iss, gone + 1),
                         dlen |-> 1, sent |-> TRUE]
                   ELSE Buffer(1)
      BY <2>4, <2>5, <3>2
    <3>4. ASSUME NEW j \in 1 .. Len(wq')
          PROVE  wq'[j] = IF j <= 1
                          THEN [seq |-> Number(tcb.iss, gone + (j - 1)),
                                end_seq |-> Number(tcb.iss, gone + j), dlen |-> 1, sent |-> TRUE]
                          ELSE Buffer(1)
      BY <3>1, <3>3
    <3>5. 1 <= Len(wq')
      BY <2>5
    <3> QED
      BY <2>1, <2>7, <2>10, <3>4, <3>5 DEF SentFirst
  <2>12. DataHeld'
    BY <1>1, <1>3, <2>1, <2>3, <2>5, <2>10, <2>11 DEF DataHeld
  <2>13. SndInv'
    BY <1>1, <1>3, <1>5, <2>1, <2>3, <2>7, <2>12 DEF SndInv
  <2> QED
    BY <1>6, <2>8, <2>9, <2>13 DEF SeqInv
<1>8. CASE inflight # 0
  <2> DEFINE b == Buffer(1)
             L == Len(wq)
  <2>1. wq' = Append(wq, b) /\ tcb' = tcb /\ inflight' = inflight /\ gone' = gone
    BY <1>8 DEF tcp_queue_transmit_skb
  <2> HIDE DEF b
  <2>2. /\ wq' \in Seq(SndBuf) /\ Len(wq') = L + 1 /\ wq'[L + 1] = b /\ wq' # << >>
        /\ \A j \in 1 .. L : wq'[j] = wq[j]
    BY <1>3, <1>4, <2>1 DEF b
  <2>3. TypeOK'
    BY <1>1, <1>2, <1>3, <2>1, <2>2 DEF TypeOK
  <2>4. RcvInv'
    BY <1>1, <1>2, <2>1 DEF RcvInv, InOrder, Numbered
  <2>5. ASSUME SynHeld PROVE SynHeld'
    <3>1. ASSUME NEW j \in 2 .. Len(wq') PROVE wq'[j] = Buffer(1)
      <4>1. CASE j = L + 1
        BY <2>2, <4>1 DEF b
      <4>2. CASE j # L + 1
        <5>1. j \in 2 .. L /\ j \in 1 .. L
          BY <1>3, <2>2, <4>2
        <5> QED
          BY <2>2, <2>5, <5>1 DEF SynHeld
      <4> QED
        BY <4>1, <4>2
    <3>2. 1 \in 1 .. L
      BY <1>3, <2>5 DEF SynHeld
    <3>3. wq'[1] = [seq |-> tcb.iss, end_seq |-> tcb.iss, dlen |-> 0, sent |-> TRUE]
      BY <2>2, <2>5, <3>2 DEF SynHeld
    <3> QED
      BY <1>1, <1>3, <2>1, <2>2, <2>5, <3>1, <3>3 DEF SynHeld
  <2>6. ASSUME DataHeld PROVE DataHeld'
    <3>1. Base' = Base
      BY <1>1, <1>3, <2>2 DEF Base
    <3>2. inflight <= L /\ SentFirst(wq, tcb.iss, inflight, Base)
      BY <2>6 DEF DataHeld, SentFirst
    <3>3. ASSUME NEW j \in 1 .. Len(wq')
          PROVE  wq'[j] = IF j <= inflight
                          THEN [seq |-> Number(tcb.iss, Base + (j - 1)),
                                end_seq |-> Number(tcb.iss, Base + j), dlen |-> 1, sent |-> TRUE]
                          ELSE Buffer(1)
      <4>1. CASE j = L + 1
        <5>1. ~ (j <= inflight)
          BY <1>3, <3>2, <4>1
        <5> QED
          BY <2>2, <4>1, <5>1 DEF b
      <4>2. CASE j # L + 1
        <5>1. j \in 1 .. L
          BY <1>3, <2>2, <4>2
        <5> QED
          BY <2>2, <3>2, <5>1 DEF SentFirst
      <4> QED
        BY <4>1, <4>2
    <3>4. SentFirst(wq', tcb'.iss, inflight', Base')
      BY <1>3, <2>1, <2>2, <3>1, <3>2, <3>3 DEF SentFirst
    <3> QED
      BY <1>1, <1>3, <1>8, <2>1, <2>2, <2>6, <3>1, <3>4 DEF DataHeld
  <2>7. SndInv'
    BY <1>1, <1>3, <1>5, <2>1, <2>5, <2>6 DEF SndInv
  <2> QED
    BY <1>6, <2>3, <2>4, <2>7 DEF SeqInv
<1> QED
  BY <1>7, <1>8

\* A segment of the peer, refused.
LEMMA Refused ==
    ASSUME SeqInv, sack' = << >>,
           UNCHANGED << up, state, tcb, wq, inflight, irs, wrote, gone, acked, ofo, rq >>
    PROVE  SeqInv'
<1>1. TypeOK'
  BY DEF SeqInv, TypeOK
<1>2. RcvInv'
  BY DEF SeqInv, RcvInv, InOrder, Numbered
<1>3. SynHeld => SynHeld'
  BY DEF SynHeld
<1>4. DataHeld => DataHeld'
  BY DEF DataHeld, Base, SentFirst
<1>5. SndInv'
  BY <1>3, <1>4 DEF SeqInv, SndInv
<1>6. SackTells'
  BY DEF SackTells
<1> QED
  BY <1>1, <1>2, <1>5, <1>6 DEF SeqInv

\* What an accepted segment does.
Accepted(p, n, a) ==
    LET ack == Number(tcb.iss, a)
        new == tcb.snd_una < ack /\ ack <= tcb.snd_nxt
        q == IF new THEN tcp_clean_rto_queue(ack) ELSE wq
        left == IF new THEN Left(q) ELSE inflight
        more == Number(irs, p) = tcb.rcv_nxt /\ left = 0 /\ q # << >>
        m == IF ~ more THEN 0 ELSE IF Len(q) < 3 THEN Len(q) ELSE 3
    IN  /\ tcp_verify_segment(Number(irs, p))
        /\ wq' = IF more THEN tcp_send_next(q, tcb.snd_nxt) ELSE q
        /\ inflight' = left + m
        /\ gone' = gone + m
        /\ tcb' = [tcb EXCEPT !.snd_una = IF new THEN ack ELSE tcb.snd_una,
                              !.snd_nxt = Sum(@, m), !.rcv_nxt = Text(p, n).rcv_nxt]
        /\ ofo' = Text(p, n).ofo /\ rq' = Text(p, n).rq /\ sack' = Text(p, n).sack
        /\ UNCHANGED << up, state, irs, wrote, acked >>

\* A segment is refused without a trace (tcp_input.c:289-301), or accepted.
LEMMA SegmentIs ==
    ASSUME NEW p, NEW n, NEW a, PeerSegment(p, n, a)
    PROVE  /\ state = "ESTABLISHED"
           /\ p + n <= (IF up THEN 0 ELSE Bytes) /\ p + n <= Reach(rq) + RCV_WND
           /\ \/ /\ sack' = << >>
                 /\ UNCHANGED << up, state, tcb, wq, inflight, irs, wrote, gone, acked, ofo, rq >>
              \/ Accepted(p, n, a)
BY DEF PeerSegment, tcp_input_state, Accepted, Text

\* The sending side of an accepted segment.
LEMMA SentOn ==
    ASSUME SeqInv, state = "ESTABLISHED", NEW p \in 0 .. Bytes, NEW n \in 0 .. 2, NEW a \in 0 .. acked,
           p + n <= (IF up THEN 0 ELSE Bytes), Accepted(p, n, a),
           Text(p, n).rcv_nxt \in Numbers
    PROVE  /\ tcb' \in [iss : Numbers, snd_una : Numbers, snd_nxt : Numbers, rcv_nxt : Numbers]
           /\ tcb'.rcv_nxt = Text(p, n).rcv_nxt
           /\ wq' \in Seq(SndBuf) /\ inflight' \in Nat /\ gone' \in Nat
           /\ SndInv'
<1> DEFINE isn == tcb.iss
           ack == Number(isn, a)
           new == tcb.snd_una < ack /\ ack <= tcb.snd_nxt
           una == IF new THEN ack ELSE tcb.snd_una
           q == IF new THEN tcp_clean_rto_queue(ack) ELSE wq
           left == IF new THEN Left(q) ELSE inflight
           more == Number(irs, p) = tcb.rcv_nxt /\ left = 0 /\ q # << >>
           m == IF ~ more THEN 0 ELSE IF Len(q) < 3 THEN Len(q) ELSE 3
           nxt == Text(p, n).rcv_nxt
<1>1. /\ wq' = IF more THEN tcp_send_next(q, tcb.snd_nxt) ELSE q
      /\ inflight' = left + m
      /\ gone' = gone + m
      /\ tcb' = [tcb EXCEPT !.snd_una = una, !.snd_nxt = Sum(@, m), !.rcv_nxt = nxt]
      /\ up' = up /\ state' = state /\ irs' = irs /\ wrote' = wrote /\ acked' = acked
  BY DEF Accepted
<1>2. TypeOK /\ RcvInv /\ SndInv
  BY DEF SeqInv
<1>3. /\ tcb \in [iss : Numbers, snd_una : Numbers, snd_nxt : Numbers, rcv_nxt : Numbers]
      /\ isn \in Numbers /\ wq \in Seq(SndBuf) /\ inflight \in Nat /\ Len(wq) \in Nat
      /\ MOD \in Nat /\ Bytes \in Nat /\ 2 * Bytes < MOD
      /\ wrote \in Nat /\ gone \in Nat /\ acked \in Nat /\ up \in BOOLEAN
      /\ irs \in Numbers
  BY <1>2, SeqAssumption DEF TypeOK
<1>4. /\ acked <= gone /\ gone <= wrote /\ wrote <= Bytes /\ tcb.snd_nxt = Number(isn, gone)
      /\ SynHeld \/ DataHeld
      /\ ~ up => wrote = 0
  BY <1>2 DEF SndInv
<1>5. a \in Nat /\ a < MOD /\ gone < MOD
  BY <1>3, <1>4
<1>6. ack \in Numbers
  BY <1>3, <1>5, NumberIs
<1>7. una \in Numbers
  BY <1>3, <1>6
<1>8. SynHeld => q = wq /\ left = 1
  <2>1. SUFFICES ASSUME SynHeld, new PROVE q = wq /\ left = 1
    BY DEF SynHeld
  <2>2. PICK k \in 0 .. Len(wq) :
            /\ tcp_clean_rto_queue(ack) = SubSeq(wq, k + 1, Len(wq))
            /\ Left(tcp_clean_rto_queue(ack)) = IF k > inflight THEN 0 ELSE inflight - k
            /\ \A j \in 1 .. k : wq[j].seq > 0 /\ wq[j].end_seq <= ack
    BY <1>3, CleanTakes
  <2>3. wq[1].seq = 0 /\ inflight = 1
    BY <2>1 DEF SynHeld
  <2> HIDE DEF ack
  <2>4. k = 0
    BY <1>3, <2>2, <2>3
  <2>5. SubSeq(wq, 0 + 1, Len(wq)) = wq
    BY <1>3
  <2> QED
    BY <2>1, <2>2, <2>3, <2>4, <2>5
<1>9. DataHeld => /\ q \in Seq(SndBuf) /\ Len(q) <= wrote /\ wrote - Len(q) <= acked
                  /\ left \in Nat /\ gone = (wrote - Len(q)) + left
                  /\ SentFirst(q, isn, left, wrote - Len(q))
                  /\ left = 0 /\ ~ new => q = << >>
  <2>1. SUFFICES ASSUME DataHeld
                 PROVE  /\ q \in Seq(SndBuf) /\ Len(q) <= wrote /\ wrote - Len(q) <= acked
                        /\ left \in Nat /\ gone = (wrote - Len(q)) + left
                        /\ SentFirst(q, isn, left, wrote - Len(q))
                        /\ left = 0 /\ ~ new => q = << >>
    OBVIOUS
  <2>2. CASE new
    <3>1. q = tcp_clean_rto_queue(ack) /\ left = Left(q) /\ ack <= tcb.snd_nxt
      BY <2>2
    <3> HIDE DEF new
    <3> QED
      BY <1>2, <2>1, <2>2, <3>1, QueueCleaned
  <2>3. CASE ~ new
    <3>1. q = wq /\ left = inflight
      BY <2>3
    <3> HIDE DEF new, q, left
    <3> QED
      BY <1>3, <2>1, <2>3, <3>1 DEF DataHeld, Base
  <2> QED
    BY <2>2, <2>3
<1>10. up => Number(irs, p) = tcb.rcv_nxt
  <2>1. SUFFICES ASSUME up PROVE Number(irs, p) = tcb.rcv_nxt
    OBVIOUS
  <2>2. p = 0
    BY <1>3, <2>1
  <2>3. rq = << >> /\ tcb.rcv_nxt = Number(irs, Reach(rq))
    BY <1>2, <2>1 DEF RcvInv
  <2> QED
    BY <2>2, <2>3 DEF Reach
<1> HIDE DEF una, q, left, nxt, new
<1>11. CASE SynHeld
  <2>1. ~ more /\ m = 0
    BY <1>8, <1>11
  <2>2. wq' = wq /\ inflight' = 1 /\ gone' = gone
    BY <1>1, <1>3, <1>8, <1>11, <2>1
  <2> HIDE DEF m, more
  <2>3. Sum(tcb.snd_nxt, m) = tcb.snd_nxt
    <3>1. gone + 0 = gone
      BY <1>3
    <3>2. Sum(Number(isn, gone), 0) = Number(isn, gone + 0)
      BY <1>3, <1>5, <3>1, NumberPlus
    <3> QED
      BY <1>4, <2>1, <3>1, <3>2
  <2>4. /\ tcb' \in [iss : Numbers, snd_una : Numbers, snd_nxt : Numbers, rcv_nxt : Numbers]
        /\ tcb'.iss = isn /\ tcb'.snd_nxt = tcb.snd_nxt /\ tcb'.rcv_nxt = nxt
    BY <1>1, <1>3, <1>7, <2>3 DEF nxt
  <2>5. SynHeld'
    BY <1>1, <1>11, <2>2, <2>4 DEF SynHeld
  <2>6. SndInv'
    BY <1>1, <1>4, <2>2, <2>4, <2>5 DEF SndInv
  <2> QED
    BY <1>3, <2>2, <2>4, <2>6 DEF nxt
<1>12. CASE DataHeld
  <2> DEFINE k == wrote - Len(q)
  <2>1. /\ q \in Seq(SndBuf) /\ Len(q) \in Nat /\ Len(q) <= wrote /\ k <= acked /\ k \in Nat
        /\ left \in Nat /\ gone = k + left /\ SentFirst(q, isn, left, k) /\ left <= Len(q)
    BY <1>3, <1>9, <1>12 DEF SentFirst
  <2> HIDE DEF k
  <2>2. /\ wq' \in Seq(SndBuf) /\ Len(wq') = Len(q) /\ m \in Nat
        /\ SentFirst(wq', isn, left + m, k) /\ gone + m <= wrote
        /\ left + m = 0 => wq' = << >>
        /\ Sum(tcb.snd_nxt, m) = Number(isn, gone + m)
    <3>1. CASE more
      <4>1. left = 0 /\ gone = k /\ m = IF Len(q) < 3 THEN Len(q) ELSE 3
        BY <1>3, <2>1, <3>1
      <4>2. wq' = tcp_send_next(q, Number(isn, k)) /\ q # << >>
        BY <1>1, <1>4, <3>1, <4>1
      <4>3. m \in Nat /\ m # 0 /\ k + m <= wrote /\ k + Len(q) <= Bytes
        BY <1>3, <1>4, <2>1, <4>1, <4>2 DEF k
      <4> HIDE DEF m, more
      <4> DEFINE r == tcp_send_next(q, Number(isn, k))
      <4>4. /\ r \in Seq(SndBuf) /\ Len(r) = Len(q) /\ SentFirst(r, isn, m, k)
            /\ Sum(Number(isn, k), m) = Number(isn, k + m)
        BY <1>3, <2>1, <4>1, <4>3, NextSent
      <4> HIDE DEF r
      <4>5. wq' = r /\ left + m = m
        BY <4>1, <4>2, <4>3 DEF r
      <4> QED
        BY <1>4, <4>1, <4>3, <4>4, <4>5
    <3>2. CASE ~ more
      <4>1. m = 0 /\ wq' = q /\ left + 0 = left /\ gone + 0 = gone
        BY <1>1, <1>3, <2>1, <3>2
      <4>2. left = 0 => q = << >>
        <5>1. CASE up
          BY <1>10, <3>2, <5>1
        <5>2. CASE ~ up
          <6>1. Len(q) = 0
            BY <1>3, <1>4, <2>1, <5>2
          <6> QED
            BY <2>1, <6>1
        <5> QED
          BY <5>1, <5>2
      <4>3. Sum(Number(isn, gone), 0) = Number(isn, gone + 0)
        BY <1>3, <1>5, <4>1, NumberPlus
      <4> HIDE DEF m, more
      <4> QED
        BY <1>3, <1>4, <2>1, <4>1, <4>2, <4>3
    <3> QED
      BY <3>1, <3>2
  <2> HIDE DEF m, more
  <2>3. Number(isn, gone + m) \in Numbers
    <3>1. gone + m \in Nat /\ gone + m < MOD
      BY <1>3, <1>4, <2>2
    <3> QED
      BY <1>3, <3>1, NumberIs
  <2>4. /\ tcb' \in [iss : Numbers, snd_una : Numbers, snd_nxt : Numbers, rcv_nxt : Numbers]
        /\ tcb'.iss = isn /\ tcb'.snd_nxt = Number(isn, gone + m) /\ tcb'.rcv_nxt = nxt
    BY <1>1, <1>3, <1>7, <2>2, <2>3 DEF nxt
  <2>5. Base' = k
    BY <1>1, <2>2 DEF Base, k
  <2>6. DataHeld'
    <3>1. state' = "ESTABLISHED" /\ inflight' = left + m /\ tcb'.iss = isn
      BY <1>1, <2>4
    <3>2. Len(wq') <= wrote' /\ Base' <= acked'
      BY <1>1, <2>1, <2>2, <2>5
    <3>3. gone' = Base' + inflight'
      <4>1. gone' = gone + m /\ gone = k + left /\ k \in Nat /\ left \in Nat /\ m \in Nat
        BY <1>1, <2>1, <2>2
      <4> QED
        BY <2>5, <3>1, <4>1
    <3>4. inflight' = 0 => wq' = << >>
      BY <2>2, <3>1
    <3>5. SentFirst(wq', tcb'.iss, inflight', Base')
      BY <2>2, <2>5, <3>1
    <3> QED
      BY <3>1, <3>2, <3>3, <3>4, <3>5 DEF DataHeld
  <2>7. SndInv'
    BY <1>1, <1>3, <1>4, <2>2, <2>4, <2>6 DEF SndInv
  <2>8. inflight' \in Nat /\ gone' \in Nat
    <3>1. left \in Nat /\ m \in Nat /\ gone \in Nat /\ inflight' = left + m /\ gone' = gone + m
      BY <1>1, <1>3, <2>1, <2>2
    <3> QED
      BY <3>1
  <2>9. wq' \in Seq(SndBuf)
    BY <2>2
  <2> QED
    BY <2>4, <2>7, <2>8, <2>9 DEF nxt
<1> QED
  BY <1>4, <1>11, <1>12

\* A segment of the peer: its text is taken in order or kept, its
\* acknowledgment takes no byte that the peer does not have.
LEMMA SegmentInv ==
    ASSUME SeqInv, NEW p \in 0 .. Bytes, NEW n \in 0 .. 2, NEW a \in 0 .. acked,
           PeerSegment(p, n, a)
    PROVE  /\ SeqInv'
           /\ \A b \in ToSet(ofo') \ ToSet(ofo) :
                 Reach(rq) < b.pos /\ b.pos <= Reach(rq) + RCV_WND
<1>1. /\ state = "ESTABLISHED"
      /\ p + n <= (IF up THEN 0 ELSE Bytes) /\ p + n <= Reach(rq) + RCV_WND
      /\ \/ /\ sack' = << >>
            /\ UNCHANGED << up, state, tcb, wq, inflight, irs, wrote, gone, acked, ofo, rq >>
         \/ Accepted(p, n, a)
  BY SegmentIs
<1>2. CASE /\ sack' = << >>
           /\ UNCHANGED << up, state, tcb, wq, inflight, irs, wrote, gone, acked, ofo, rq >>
  <2>1. SeqInv'
    BY <1>2, Refused
  <2>2. ofo' = ofo
    BY <1>2
  <2> QED
    BY <2>1, <2>2
<1>3. CASE Accepted(p, n, a)
  <2> DEFINE t == Text(p, n)
  <2>1. /\ tcp_verify_segment(Number(irs, p))
        /\ ofo' = t.ofo /\ rq' = t.rq /\ sack' = t.sack
        /\ up' = up /\ state' = state /\ irs' = irs /\ wrote' = wrote /\ acked' = acked
    BY <1>3 DEF Accepted
  <2>2. TypeOK /\ RcvInv
    BY DEF SeqInv
  <2>3. /\ up => t.rq = << >>
        /\ Tells(t.sack, t.ofo)
        /\ \A b \in ToSet(t.ofo) \ ToSet(ofo) :
              Reach(rq) < b.pos /\ b.pos <= Reach(rq) + RCV_WND
    BY <1>1, <2>1, <2>2, TextTaken
  <2>4. Received(t)
    BY <1>1, <2>1, <2>2, TextTaken
  <2> HIDE DEF t
  <2>5. /\ t.rq \in Seq(RcvBuf) /\ InOrder(t.rq) /\ \A j \in 1 .. Len(t.rq) : Numbered(t.rq[j])
        /\ t.rcv_nxt = Number(irs, Reach(t.rq)) /\ t.ofo \in Seq(RcvBuf)
        /\ \A j \in 1 .. Len(t.ofo) : Numbered(t.ofo[j]) /\ t.ofo[j].seq < t.ofo[j].end_seq
    BY <2>4 DEF Received
  <2>6. t.rcv_nxt \in Numbers
    <3>1. Reach(t.rq) \in 0 .. Bytes
      BY <2>5, ReachBounded
    <3>2. Reach(t.rq) \in Nat /\ Reach(t.rq) < MOD /\ irs \in Numbers
      BY <2>2, <3>1, SeqAssumption DEF TypeOK
    <3> QED
      BY <2>5, <3>2, NumberIs
  <2>7. /\ tcb' \in [iss : Numbers, snd_una : Numbers, snd_nxt : Numbers, rcv_nxt : Numbers]
        /\ tcb'.rcv_nxt = t.rcv_nxt
        /\ wq' \in Seq(SndBuf) /\ inflight' \in Nat /\ gone' \in Nat
        /\ SndInv'
    BY <1>1, <1>3, <2>6, SentOn DEF t
  <2>8. TypeOK'
    BY <2>1, <2>2, <2>5, <2>7 DEF TypeOK
  <2>9. RcvInv'
    <3>1. ASSUME NEW b, Numbered(b)
          PROVE  /\ b.pos + b.dlen <= Bytes /\ b.seq = Number(irs', b.pos)
                 /\ b.end_seq = Number(irs', b.pos + b.dlen)
      BY <2>1, <3>1 DEF Numbered
    <3>2. (\A j \in 1 .. Len(rq) : Numbered(rq[j]))'
      BY <2>1, <2>5, <3>1 DEF Numbered
    <3>3. (\A j \in 1 .. Len(ofo) : Numbered(ofo[j]) /\ ofo[j].seq < ofo[j].end_seq)'
      BY <2>1, <2>5, <3>1 DEF Numbered
    <3>4. InOrder(rq') /\ tcb'.rcv_nxt = Number(irs', Reach(rq'))
      BY <2>1, <2>5, <2>7
    <3>5. up' => rq' = << >>
      BY <2>1, <2>3
    <3> QED
      BY <1>1, <2>1, <3>2, <3>3, <3>4, <3>5 DEF RcvInv
  <2>10. SackTells'
    <3>1. Tells(sack, ofo)'
      <4>1. \A s, o : Tells(s, o) <=> Tells(s, o)'
        BY <2>1 DEF Tells, Told, Covered
      <4> QED
        BY <2>1, <2>3, <4>1
    <3>2. (SackTells <=> Tells(sack, ofo))'
      BY TellsIsSackTells, PTL
    <3> QED
      BY <3>1, <3>2
  <2> QED
    BY <2>1, <2>3, <2>7, <2>8, <2>9, <2>10 DEF SeqInv
<1> QED
  BY <1>1, <1>2, <1>3

\* A step that changes nothing breaks nothing.
LEMMA StutterInv ==
    ASSUME SeqInv, UNCHANGED vars
    PROVE  SeqInv'
<1>1. TypeOK'
  BY DEF SeqInv, TypeOK, vars
<1>2. RcvInv'
  BY DEF SeqInv, RcvInv, InOrder, Numbered, vars
<1>3. SynHeld => SynHeld'
  BY DEF SynHeld, vars
<1>4. DataHeld => DataHeld'
  BY DEF DataHeld, Base, SentFirst, vars
<1>5. SndInv'
  BY <1>3, <1>4 DEF SeqInv, SndInv, vars
<1>6. SackTells'
  <2>1. SackTells
    BY DEF SeqInv
  <2>2. sack' = sack /\ ofo' = ofo /\ irs' = irs
    BY DEF vars
  <2>3. Tells(sack, ofo)
    BY <2>1, TellsIsSackTells
  <2>4. \A s, o : Tells(s, o) <=> Tells(s, o)'
    BY <2>2 DEF Tells, Told, Covered
  <2>5. Tells(sack, ofo)'
    BY <2>2, <2>3, <2>4
  <2>6. (SackTells <=> Tells(sack, ofo))'
    BY TellsIsSackTells, PTL
  <2> QED
    BY <2>5, <2>6
<1> QED
  BY <1>1, <1>2, <1>5, <1>6 DEF SeqInv

\* Every step keeps the invariant.
LEMMA StepInv ==
    SeqInv /\ [Next]_vars => SeqInv'
<1> SUFFICES ASSUME SeqInv, [Next]_vars PROVE SeqInv'
  OBVIOUS
<1>1. CASE tcp_synsent
  BY <1>1, SynsentInv
<1>2. CASE tcp_queue_transmit_skb
  BY <1>2, QueueInv
<1>3. CASE PeerReceives
  BY <1>3, PeerReceivesInv
<1>4. CASE \E p \in 0 .. Bytes, n \in 0 .. 2, a \in 0 .. acked : PeerSegment(p, n, a)
  BY <1>4, SegmentInv
<1>5. CASE UNCHANGED vars
  BY <1>5, StutterInv
<1> QED
  BY <1>1, <1>2, <1>3, <1>4, <1>5 DEF Next

\* The numbers, the queues and the acknowledgments fit together at all times.
THEOREM Consistent == Spec => []SeqInv
<1>1. Init => SeqInv
  BY InitInv
<1>2. SeqInv /\ [Next]_vars => SeqInv'
  BY StepInv
<1> QED
  BY <1>1, <1>2, PTL DEF Spec

----------------------------------------------------------------------------
(* The properties *)

\* The number of write buffers with data.
LEMMA DataBuffers ==
    ASSUME SeqInv
    PROVE  KeptUntilReceived
<1> DEFINE D == {j \in 1 .. Len(wq) : wq[j].dlen > 0}
           L == Len(wq)
<1>1. /\ L \in Nat /\ wrote \in Nat /\ acked \in Nat /\ gone \in Nat
      /\ SynHeld \/ DataHeld
  BY DEF SeqInv, TypeOK, SndInv
<1>2. CASE SynHeld
  <2>1. L = wrote + 1 /\ wq[1].dlen = 0 /\ \A j \in 2 .. L : wq[j].dlen = 1
    BY <1>2 DEF SynHeld, Buffer
  <2> HIDE DEF L
  <2>2. D = 2 .. L
    <3>1. ASSUME NEW j \in D PROVE j \in 2 .. L
      BY <1>1, <2>1 DEF L
    <3>2. ASSUME NEW j \in 2 .. L PROVE j \in D
      BY <1>1, <2>1 DEF L
    <3> QED
      BY <3>1, <3>2
  <2>3. Cardinality(2 .. L) = wrote
    BY <1>1, <2>1, FS_Interval
  <2> HIDE DEF D
  <2>4. wrote <= acked + Cardinality(D)
    BY <1>1, <2>2, <2>3
  <2> QED
    BY <2>4 DEF KeptUntilReceived, D, L
<1>3. CASE DataHeld
  <2>0. L <= wrote /\ wrote - L <= acked /\ SentFirst(wq, tcb.iss, inflight, Base)
    BY <1>3 DEF DataHeld, Base
  <2>1. ASSUME NEW j \in 1 .. L PROVE wq[j].dlen = 1
    <3>1. CASE j <= inflight
      <4>1. wq[j] = [seq |-> Number(tcb.iss, Base + (j - 1)), end_seq |-> Number(tcb.iss, Base + j),
                     dlen |-> 1, sent |-> TRUE]
        BY <2>0, <3>1 DEF SentFirst
      <4> QED
        BY <4>1
    <3>2. CASE ~ (j <= inflight)
      <4>1. wq[j] = Buffer(1)
        BY <2>0, <3>2 DEF SentFirst
      <4> QED
        BY <4>1 DEF Buffer
    <3> QED
      BY <3>1, <3>2
  <2>2. D = 1 .. L
    BY <2>1
  <2> HIDE DEF L
  <2>3. Cardinality(1 .. L) = L
    BY <1>1, FS_Interval
  <2>4. wrote <= acked + L
    BY <1>1, <2>0
  <2> QED
    BY <2>2, <2>3, <2>4 DEF KeptUntilReceived, L
<1> QED
  BY <1>1, <1>2, <1>3

\* The bytes reach the receive queue in their true order, each once, and
\* rcv_nxt is the number of the next one, wherever the numbers wrap
\* (tcp_data.c:33-47 and 88-105).
THEOREM ReceivedInOrder == Spec => []StreamInOrder
<1>1. SeqInv => StreamInOrder
  BY DEF SeqInv, RcvInv, InOrder, StreamInOrder
<1> QED
  BY <1>1, Consistent, PTL

\* A byte leaves the write queue only when the peer has it: the comparisons of
\* tcp_clean_rto_queue and of the acknowledgment (tcp_input.c:73 and 319-333)
\* take no number for one before it, wherever they wrap.
THEOREM KeptForThePeer == Spec => []KeptUntilReceived
<1>1. SeqInv => KeptUntilReceived
  BY DataBuffers
<1> QED
  BY <1>1, Consistent, PTL

\* The SACK blocks report what the out-of-order queue holds and nothing else,
\* and all of it while a block is free (tcp.c:453-484, tcp_output.c:65-90).
THEOREM SacksTellTheQueue == Spec => []SackTells
<1>1. SeqInv => SackTells
  BY DEF SeqInv
<1> QED
  BY <1>1, Consistent, PTL

\* What enters the out-of-order queue lies ahead of the stream and starts in
\* the window (tcp_input.c:106-107): the plain comparisons take no old segment
\* for new.
THEOREM OnlyAheadIsKept == Spec => OfoAhead
<1> DEFINE A == \A skb \in ToSet(ofo') \ ToSet(ofo) :
                    Reach(rq) < skb.pos /\ skb.pos <= Reach(rq) + RCV_WND
<1>1. SeqInv /\ [Next]_vars => [A]_vars
  <2> SUFFICES ASSUME SeqInv, [Next]_vars PROVE [A]_vars
    OBVIOUS
  <2>1. CASE \E p \in 0 .. Bytes, n \in 0 .. 2, a \in 0 .. acked : PeerSegment(p, n, a)
    BY <2>1, SegmentInv
  <2>2. CASE tcp_synsent \/ tcp_queue_transmit_skb \/ PeerReceives
    <3>1. ofo' = ofo
      BY <2>2 DEF tcp_synsent, tcp_queue_transmit_skb, PeerReceives
    <3> QED
      BY <3>1
  <2>3. CASE UNCHANGED vars
    BY <2>3
  <2> QED
    BY <2>1, <2>2, <2>3 DEF Next
<1> QED
  BY <1>1, Consistent, PTL DEF Spec, OfoAhead

=============================================================================
