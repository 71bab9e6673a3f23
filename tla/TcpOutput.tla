----------------------------- MODULE TcpOutput -----------------------------
(***************************************************************************)
(* src/tcp_output.c: queueing, transmitting and retransmitting segments.   *)
(* A packet that ip_output or ARP drops is a packet the network lost.      *)
(***************************************************************************)
EXTENDS TcpSock

MinOf(a, b) == IF a <= b THEN a ELSE b

\* tcp_transmit_skb for a buffer of the write queue: all but the SYN carry ACK.
tcp_transmit_skb(s, skb, seq) ==
    [s EXCEPT !.wire = @ \cup {[seq |-> seq, dlen |-> skb.dlen,
                                data |-> skb.data, syn |-> skb.syn,
                                fin |-> skb.fin, rst |-> FALSE,
                                ack |-> ~skb.syn]},
              !.acked = IF skb.syn THEN @ ELSE s.rcv_nxt]

\* The sequence space a transmission takes. end_seq stops before the FIN,
\* and the SYN is counted by tcp_connect.
Numbered(skb, seq) == [skb EXCEPT !.seq = seq, !.end_seq = seq + skb.dlen]

SeqAfter(skb, seq) == seq + skb.dlen + (IF skb.fin THEN 1 ELSE 0)

\* A transmission that is not counted as in flight.
QueueUncounted(s, skb) ==
    LET a == IF s.wq = << >> THEN tcp_rearm_rto_timer(s) ELSE s
    IN  IF a.inflight = 0
        THEN [tcp_transmit_skb(a, skb, a.snd_nxt) EXCEPT
                 !.snd_nxt = SeqAfter(skb, a.snd_nxt),
                 !.wq = Append(@, Numbered(skb, a.snd_nxt))]
        ELSE [a EXCEPT !.wq = Append(@, skb)]

\* Only one flight at a time: while something is in flight, new buffers wait
\* in the write queue.
tcp_queue_transmit_skb(s, skb) ==
    LET a == IF s.wq = << >> THEN tcp_rearm_rto_timer(s) ELSE s
    IN  IF a.inflight = 0
        THEN [tcp_transmit_skb(a, skb, a.snd_nxt) EXCEPT
                 !.inflight = @ + 1,
                 !.snd_nxt = SeqAfter(skb, a.snd_nxt),
                 !.wq = Append(@, Numbered(skb, a.snd_nxt))]
        ELSE [a EXCEPT !.wq = Append(@, skb)]

\* One iteration of tcp_send_next: the i-th buffer goes out at snd_nxt.
SendQueued(s, i) ==
    [tcp_transmit_skb(s, s.wq[i], s.snd_nxt) EXCEPT
        !.snd_nxt = SeqAfter(s.wq[i], s.snd_nxt),
        !.wq = [@ EXCEPT ![i] = Numbered(s.wq[i], s.snd_nxt)]]

\* tcp_send_next, for the amounts 1..3 its only caller asks for.
tcp_send_next(s, amount) ==
    LET a == SendQueued(s, 1)
        b == IF amount >= 2 THEN SendQueued(a, 2) ELSE a
    IN  IF amount >= 3 THEN SendQueued(b, 3) ELSE b

tcp_send_ack(s) ==
    IF s.state = "CLOSE" THEN s ELSE [s EXCEPT !.acked = s.rcv_nxt]

\* Refuses in the state tcp_synsent calls it in.
tcp_send_synack(s) ==
    IF s.state # "SYN_SENT" THEN s
    ELSE [s EXCEPT !.wire = @ \cup {[seq |-> s.snd_nxt, dlen |-> 0, data |-> 0,
                                     syn |-> TRUE, fin |-> FALSE,
                                     rst |-> FALSE, ack |-> TRUE]},
                   !.acked = s.rcv_nxt]

tcp_send_reset(s) ==
    [s EXCEPT !.snd_una = s.snd_nxt,
              !.wire = @ \cup {[seq |-> s.snd_nxt, dlen |-> 0, data |-> 0,
                                syn |-> FALSE, fin |-> FALSE,
                                rst |-> TRUE, ack |-> FALSE]}]

tcp_queue_fin(s) ==
    tcp_queue_transmit_skb(s, [seq |-> 0, end_seq |-> 0, dlen |-> 0, data |-> 0,
                               syn |-> FALSE, fin |-> TRUE])

tcp_abort(s) == tcp_done(tcp_send_reset(s))

\* The payload of len bytes from position pos on, cut into buffers of at most
\* SMSS bytes, is queued buffer by buffer; only the first can find the queue
\* empty or nothing in flight.
tcp_send(s, pos, len) ==
    LET n == (len + SMSS - 1) \div SMSS
        Skb(i) == [seq |-> 0, end_seq |-> 0,
                   dlen |-> MinOf(SMSS, len - (i - 1) * SMSS),
                   data |-> pos + (i - 1) * SMSS,
                   syn |-> FALSE, fin |-> FALSE]
        first == tcp_queue_transmit_skb(s, Skb(1))
    IN  tcp_rearm_user_timeout(
            [first EXCEPT !.wq = @ \o [i \in 1..(n - 1) |-> Skb(i + 1)]])

\* tcp_connect and the SYN of tcp_send_syn.
tcp_connect(s) ==
    LET a == [s EXCEPT !.snd_una = ISS, !.snd_nxt = ISS, !.rcv_nxt = 0,
                       !.state = "SYN_SENT"]
        b == tcp_queue_transmit_skb(a,
                 [seq |-> 0, end_seq |-> 0, dlen |-> 0, data |-> 0,
                  syn |-> TRUE, fin |-> FALSE])
    IN  [b EXCEPT !.snd_nxt = @ + 1]

----------------------------------------------------------------------------
(* Expired retransmission timers. Each handler first drops the pointer in  *)
(* tsk->retransmit, whichever timer it now points to.                      *)

tcp_connect_rto(t) ==
    LET s == tcp_release_rto_timer(t)
    IN  IF s.state # "SYN_SENT" THEN s
        ELSE IF s.backoff > TCP_CONN_RETRIES
        THEN tcp_done([s EXCEPT !.err = "ETIMEDOUT",
                                !.poll = @ \cup {"OUT", "ERR", "HUP"}])
        ELSE IF s.wq = << >> THEN s
        ELSE tcp_rearm_rto_timer(
                [tcp_transmit_skb(s, Head(s.wq), s.snd_una) EXCEPT
                    !.backoff = @ + 1])

\* Retransmits the oldest buffer at snd_nxt instead of snd_una.
RetransmitAtNext(t) ==
    LET s == tcp_release_rto_timer(t)
    IN  IF s.wq = << >> \/ s.rto > RTO_MAX THEN s
        ELSE [tcp_transmit_skb(s, Head(s.wq), s.snd_nxt) EXCEPT
                 !.rto = 2 * @, !.backoff = @ + 1, !.retransmit = timer_add("rto")]

tcp_retransmission_timeout(t) ==
    LET s == tcp_release_rto_timer(t)
        sent == tcp_transmit_skb(s, Head(s.wq), s.snd_una)
        again == [sent EXCEPT !.rto = 2 * @, !.backoff = @ + 1,
                              !.retransmit = timer_add("rto")]
    IN  IF s.wq = << >> THEN tcp_notify_user([s EXCEPT !.backoff = 0])
        ELSE IF s.rto > RTO_MAX
        THEN [tcp_done(sent) EXCEPT !.err = "ETIMEDOUT",
                                    !.poll = @ \cup {"OUT", "ERR", "HUP"}]
        ELSE IF Head(s.wq).fin THEN tcp_handle_fin_state(again)
        ELSE again

\* The delayed acknowledgment's handler.
tcp_send_delack(s) ==
    tcp_send_ack(tcp_release_delack_timer([s EXCEPT !.delacks = 0]))

=============================================================================
