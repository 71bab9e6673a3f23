------------------------------- MODULE TcpSeq -------------------------------
(***************************************************************************)
(* The sequence numbers of a connection with their width.  The code        *)
(* (src/tcp_input.c, src/tcp_output.c, src/tcp_data.c, src/tcp.c) compares *)
(* them as unsigned integers; module Tcp takes them for natural numbers,   *)
(* and this module shows for which connections that is the same.           *)
(*                                                                         *)
(* Byte i of a stream, counted from 0, has the sequence number             *)
(* Number(isn, i).  What the code knows is in tcb, wq, inflight, ofo and   *)
(* sack; the true positions are history.  A connection carries data in one *)
(* direction, in segments of one byte out and of one or two bytes in.      *)
(* Retransmission is not repeated here: what was sent arrives at some time *)
(* (module Tcp, UnackedTimed).                                             *)
(***************************************************************************)
EXTENDS Naturals, Sequences, FiniteSets, SequencesExt

CONSTANTS
    MOD,            \* 2^32
    RCV_WND,        \* tcb->rcv_wnd, 44477
    SACKS,          \* sacks_allowed, 4 without the timestamp option
    Bytes,          \* bytes of a transfer
    ISNs            \* initial sequence numbers, of both sides

ASSUME SeqAssumption ==
    /\ MOD \in Nat /\ RCV_WND \in Nat /\ SACKS \in Nat /\ Bytes \in Nat
    /\ ISNs \subseteq 0..MOD-1
    /\ SACKS > 0 /\ MOD > 2 * (RCV_WND + Bytes)

VARIABLES
    up,         \* the direction of the transfer
    state,      \* "SYN_SENT", "ESTABLISHED"
    tcb,        \* iss, snd_una, snd_nxt, rcv_nxt
    wq,         \* write_queue: buffers [seq, end_seq, dlen, sent]
    inflight,
    irs,        \* the peer's initial sequence number
    wrote,      \* bytes the application has written
    gone,       \* bytes of them that were sent
    acked,      \* bytes of them that the peer has
    ofo,        \* ofo_queue: buffers [seq, end_seq, pos, dlen]
    rq,         \* receive_queue: buffers like those of ofo, none ever read
    sack        \* the SACK blocks of the acknowledgment that the last step sent

vars == << up, state, tcb, wq, inflight, irs, wrote, gone, acked, ofo, rq, sack >>

Sum(a, b) == (a + b) % MOD
Number(isn, i) == Sum(isn, 1 + i)

----------------------------------------------------------------------------
(* tcp.c and tcp_output.c: selective acknowledgments *)

\* A block is prolonged over a gap.
CoverGap(acc, skb) ==
    LET n == Len(acc.blocks)
    IN  IF n = 0
        THEN [acc EXCEPT !.blocks = << [left |-> skb.seq, right |-> skb.end_seq] >>]
        ELSE [acc EXCEPT !.blocks[n].right = skb.end_seq]

\* One round of the loop over ofo_queue: the first buffer opens a block, one
\* that starts where the block ends prolongs it, another opens the next block
\* or, with all of them used, ends the loop.
Cover(acc, skb) ==
    LET n == Len(acc.blocks)
        block == [left |-> skb.seq, right |-> skb.end_seq]
    IN  IF acc.break THEN acc
        ELSE IF n = 0 THEN [acc EXCEPT !.blocks = << block >>]
        ELSE IF acc.blocks[n].right \in {0, skb.seq}
             THEN [acc EXCEPT !.blocks[n].right = skb.end_seq]
        ELSE IF n >= SACKS THEN [acc EXCEPT !.break = TRUE]
        ELSE [acc EXCEPT !.blocks = Append(@, block)]

\* The blocks are empty on entry: each acknowledgment that carries them
\* (tcp_write_options) clears them.
tcp_calculate_sacks(q) ==
    LET acc[i \in 0..Len(q)] ==
            IF i = 0 THEN [blocks |-> << >>, break |-> FALSE]
            ELSE Cover(acc[i-1], q[i])
    IN  acc[Len(q)].blocks

\* The last block goes first. A first block that starts at number 0 stands for
\* none; tcp_verify_segment takes 0 only if it is rcv_nxt, so there is none.
tcp_write_options(blocks) ==
    IF blocks = << >> \/ blocks[1].left = 0 THEN << >> ELSE Reverse(blocks)

----------------------------------------------------------------------------
(* tcp_data.c *)

\* As in module TcpInput, on sequence numbers that wrap.
tcp_data_insert_ordered(q, skb) ==
    LET stops == {j \in 1..Len(q) :
                    \/ q[j].seq = skb.seq
                    \/ skb.seq < q[j].seq /\ skb.end_seq <= q[j].seq}
        at == CHOOSE j \in stops : \A k \in stops : j <= k
    IN  IF stops = {} THEN Append(q, skb)
        ELSE IF q[at].seq = skb.seq THEN q
        ELSE InsertAt(q, at, skb)

\* A buffer that starts before rcv_nxt is taken too.
ConsecutiveOrOlder(rcv_nxt, q) ==
    SubSeq(q, 1, IF q # << >> /\ q[1].seq <= rcv_nxt THEN 1 ELSE 0)

\* The buffers at the front of the queue that follow rcv_nxt without a gap.
Consecutive(rcv_nxt, q) ==
    LET follows(j) == q[j].seq = IF j = 1 THEN rcv_nxt
                                 ELSE Sum(q[j-1].seq, q[j-1].dlen)
        n == CHOOSE k \in 0..Len(q) :
                /\ \A j \in 1..k : follows(j)
                /\ k < Len(q) => ~follows(k + 1)
    IN  SubSeq(q, 1, n)

\* How far the stream of the buffers of q reaches.
Reach(q) == IF q = << >> THEN 0 ELSE q[Len(q)].pos + q[Len(q)].dlen

\* The data of an accepted segment: rcv_nxt, both queues and the blocks of the
\* acknowledgment that an out-of-order segment gets at once.
tcp_data_queue(skb) ==
    IF skb.seq = tcb.rcv_nxt
    THEN LET nxt == Sum(tcb.rcv_nxt, skb.dlen)
             moved == Consecutive(nxt, ofo)
         IN  [rcv_nxt |-> IF moved = << >> THEN nxt
                          ELSE Sum(Last(moved).seq, Last(moved).dlen),
              rq |-> rq \o << skb >> \o moved,
              ofo |-> SubSeq(ofo, Len(moved) + 1, Len(ofo)),
              sack |-> << >>]
    ELSE LET q == tcp_data_insert_ordered(ofo, skb)
         IN  [rcv_nxt |-> tcb.rcv_nxt, rq |-> rq, ofo |-> q,
              sack |-> tcp_write_options(tcp_calculate_sacks(q))]

----------------------------------------------------------------------------
(* tcp_output.c *)

Buffer(dlen) == [seq |-> 0, end_seq |-> 0, dlen |-> dlen, sent |-> FALSE]

Transmitted(skb, snd_nxt) ==
    [skb EXCEPT !.seq = snd_nxt, !.end_seq = Sum(snd_nxt, skb.dlen), !.sent = TRUE]

\* tcp_connect: the SYN is queued like data, without a length, and the number
\* it uses up is counted afterwards.
tcp_connect(iss) ==
    /\ tcb = [iss |-> iss, snd_una |-> iss, snd_nxt |-> Sum(iss, 1), rcv_nxt |-> 0]
    /\ wq = << Transmitted(Buffer(0), iss) >>
    /\ inflight = 1

\* write() of a byte: sent at once if nothing is in flight.
tcp_queue_transmit_skb ==
    /\ state = "ESTABLISHED" /\ up /\ wrote < Bytes
    /\ wrote' = wrote + 1
    /\ IF inflight = 0
       THEN /\ wq' = Append(wq, Transmitted(Buffer(1), tcb.snd_nxt))
            /\ tcb' = [tcb EXCEPT !.snd_nxt = Sum(@, 1)]
            /\ inflight' = 1
            /\ gone' = gone + 1
       ELSE /\ wq' = Append(wq, Buffer(1))
            /\ UNCHANGED << tcb, inflight, gone >>
    /\ sack' = << >>
    /\ UNCHANGED << up, state, irs, acked, ofo, rq >>

\* The first three buffers of queue q, or fewer, are sent from snd_nxt on.
tcp_send_next(q, snd_nxt) ==
    [j \in 1..Len(q) |-> IF j <= 3 THEN Transmitted(q[j], Sum(snd_nxt, j - 1)) ELSE q[j]]

----------------------------------------------------------------------------
(* tcp_input.c *)

\* The test without the lower end of the window.
VerifyUpper(seq) == seq <= Sum(tcb.rcv_nxt, RCV_WND)

\* tcp_verify_segment: the end of the window wraps, the comparisons do not.
tcp_verify_segment(seq) ==
    ~(seq < tcb.rcv_nxt \/ seq > Sum(tcb.rcv_nxt, RCV_WND))

\* Buffers are taken off without a look at whether they were sent.
CleanUnsent(una) == SelectSeq(wq, LAMBDA b : b.end_seq > una)

\* Only buffers that end before the acknowledgment leave the queue.
CleanStrict(una) ==
    LET keeps == {j \in 1..Len(wq) : ~(wq[j].seq > 0 /\ wq[j].end_seq < una)}
    IN  IF keeps = {} THEN << >>
        ELSE SubSeq(wq, CHOOSE j \in keeps : \A k \in keeps : j <= k, Len(wq))

\* What tcp_clean_rto_queue leaves: all from the first buffer that is not
\* acknowledged.  seq > 0 stands for "was sent".
tcp_clean_rto_queue(una) ==
    LET keeps == {j \in 1..Len(wq) : ~(wq[j].seq > 0 /\ wq[j].end_seq <= una)}
    IN  IF keeps = {} THEN << >>
        ELSE SubSeq(wq, CHOOSE j \in keeps : \A k \in keeps : j <= k, Len(wq))

\* inflight after the buffers before q have left the queue.
Left(q) == LET n == Len(wq) - Len(q) IN IF n > inflight THEN 0 ELSE inflight - n

\* tcp_synsent, for the peer's SYN/ACK.  ack is the number after our SYN.
tcp_synsent ==
    /\ state = "SYN_SENT"
    /\ LET ack == Number(tcb.iss, 0)
           q == tcp_clean_rto_queue(ack)
       IN  /\ ~(ack <= tcb.iss \/ ack > tcb.snd_nxt)
           /\ tcb' = [tcb EXCEPT !.rcv_nxt = Number(irs, 0), !.snd_una = tcb.snd_nxt]
           /\ wq' = q
           /\ inflight' = Left(q)
    /\ state' = "ESTABLISHED"
    /\ UNCHANGED << up, irs, wrote, gone, acked, ofo, rq, sack >>

\* tcp_input_state, for the segment of n bytes from position p on that
\* acknowledges a bytes: the acceptability test, the ACK, the data, and more
\* of our own data once nothing is in flight.
tcp_input_state(p, n, a) ==
    LET seq == Number(irs, p)
        ack == Number(tcb.iss, a)
        new == tcb.snd_una < ack /\ ack <= tcb.snd_nxt
        una == IF new THEN ack ELSE tcb.snd_una
        q == IF new THEN tcp_clean_rto_queue(ack) ELSE wq
        left == IF new THEN Left(q) ELSE inflight
        skb == [seq |-> seq, end_seq |-> Sum(seq, n), pos |-> p, dlen |-> n]
        more == seq = tcb.rcv_nxt /\ left = 0 /\ q # << >>
        m == IF ~more THEN 0 ELSE IF Len(q) < 3 THEN Len(q) ELSE 3
        text == IF n > 0 THEN tcp_data_queue(skb)
                ELSE [rcv_nxt |-> tcb.rcv_nxt, rq |-> rq, ofo |-> ofo, sack |-> << >>]
    IN  /\ state = "ESTABLISHED"
        /\ IF ~tcp_verify_segment(seq) \/ ack < una \/ ack > tcb.snd_nxt
           THEN /\ sack' = << >>
                /\ UNCHANGED << tcb, wq, inflight, gone, ofo, rq >>
           ELSE /\ wq' = IF more THEN tcp_send_next(q, tcb.snd_nxt) ELSE q
                /\ inflight' = left + m
                /\ gone' = gone + m
                /\ tcb' = [tcb EXCEPT !.snd_una = una, !.snd_nxt = Sum(@, m),
                                      !.rcv_nxt = text.rcv_nxt]
                /\ ofo' = text.ofo /\ rq' = text.rq /\ sack' = text.sack
        /\ UNCHANGED << up, state, irs, wrote, acked >>

----------------------------------------------------------------------------
(* The peer *)

\* It has received more of what was sent.
PeerReceives ==
    /\ \E n \in acked+1..gone : acked' = n
    /\ sack' = << >>
    /\ UNCHANGED << up, state, tcb, wq, inflight, irs, wrote, gone, ofo, rq >>

\* It sends a segment, new or again, within the window it was given, cut as
\* it likes; an old acknowledgment may come late.
PeerSegment(p, n, a) ==
    /\ p + n <= (IF up THEN 0 ELSE Bytes)
    /\ p + n <= Reach(rq) + RCV_WND
    /\ tcp_input_state(p, n, a)

Init ==
    /\ up \in BOOLEAN
    /\ state = "SYN_SENT"
    /\ \E iss \in ISNs : tcp_connect(iss)
    /\ irs \in ISNs
    /\ wrote = 0 /\ gone = 0 /\ acked = 0
    /\ ofo = << >> /\ rq = << >> /\ sack = << >>

Next ==
    \/ tcp_synsent
    \/ tcp_queue_transmit_skb
    \/ PeerReceives
    \/ \E p \in 0..Bytes, n \in 0..2, a \in 0..acked : PeerSegment(p, n, a)

\* The peer retransmits what is missing, with its latest acknowledgment; the
\* application writes on.
Fairness ==
    /\ WF_vars(tcp_synsent)
    /\ WF_vars(tcp_queue_transmit_skb)
    /\ WF_vars(PeerReceives)
    /\ WF_vars(\E n \in 0..2 : /\ n > 0 \/ up
                               /\ PeerSegment(Reach(rq), n, acked))

Spec == Init /\ [][Next]_vars
FairSpec == Spec /\ Fairness

----------------------------------------------------------------------------
(* Properties *)

\* Wherever the sequence numbers start and wrap, the bytes reach the receive
\* queue in their true order, each once, and rcv_nxt is the number of the next
\* one (tcp_data.c:33-47 and 88-105), overlapping buffers in the out-of-order
\* queue included.
StreamInOrder ==
    /\ \A i \in 1..Len(rq) :
          rq[i].pos = IF i = 1 THEN 0 ELSE rq[i-1].pos + rq[i-1].dlen
    /\ state = "ESTABLISHED" => tcb.rcv_nxt = Number(irs, Reach(rq))

\* The plain comparison of tcp_verify_segment (tcp_input.c:106-107) can refuse a
\* segment it should take, and never takes an old one for new: what enters the
\* out-of-order queue lies ahead of the stream and starts in the window.
OfoAhead ==
    [][\A skb \in ToSet(ofo') \ ToSet(ofo) :
          Reach(rq) < skb.pos /\ skb.pos <= Reach(rq) + RCV_WND]_vars

\* Wherever they wrap, a byte leaves the write queue only when the peer has it:
\* tcp_clean_rto_queue (tcp_input.c:73) never takes the wrapped end of a buffer
\* for an old number.
KeptUntilReceived ==
    wrote <= acked + Cardinality({j \in 1..Len(wq) : wq[j].dlen > 0})

\* The bytes of the stream whose numbers are in block b.
Covered(b) == {i \in 0..Bytes : \E k \in 0..Bytes :
                  /\ Number(irs, i) = Sum(b.left, k)
                  /\ \A j \in 0..k : Sum(b.left, j) # b.right}

\* The SACK blocks of an acknowledgment (tcp.c:453-484, tcp_output.c:65-90)
\* report bytes that the out-of-order queue holds and no other, and all of them
\* unless every block is in use.
SackTells ==
    sack # << >> =>
        LET told == UNION {Covered(sack[j]) : j \in 1..Len(sack)}
            held == UNION {ofo[j].pos..ofo[j].pos + ofo[j].dlen - 1 : j \in 1..Len(ofo)}
        IN  /\ Len(sack) <= SACKS
            /\ told \subseteq held
            /\ Len(sack) < SACKS => told = held

\* The connections that the plain comparisons serve: our SYN does not have the
\* number 0, none of our numbers wraps, and the peer's last number is a window
\* away from the wrap.
Fits ==
    /\ tcb.iss > 0
    /\ tcb.iss + 1 + (IF up THEN Bytes ELSE 0) < MOD
    /\ irs + 1 + (IF up THEN 0 ELSE Bytes) + RCV_WND < MOD

Complete ==
    IF up THEN wrote = Bytes /\ acked = Bytes /\ wq = << >>
    ELSE Reach(rq) = Bytes

\* On a connection that fits, everything is transferred and acknowledged in
\* the end.  (On others it need not be: a window that reaches over the wrap
\* refuses every segment, tcp_input.c:106-107; an acknowledgment over the wrap
\* is not taken, lines 319 and 330; the SYN with number 0 never leaves the
\* write queue, line 73, and holds up everything behind it.)
Transferred == Fits ~> Complete
=============================================================================
