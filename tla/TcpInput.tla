------------------------------ MODULE TcpInput ------------------------------
(***************************************************************************)
(* src/tcp_input.c and src/tcp_data.c: what an arriving segment does to    *)
(* the socket.  A segment th that arrives is a record with the fields of   *)
(* InSegment.                                                              *)
(***************************************************************************)
EXTENDS TcpOutput

InSegment == [seq : Nat, dlen : Nat, data : Nat, ack_seq : Nat,
              syn : BOOLEAN, fin : BOOLEAN, rst : BOOLEAN, ack : BOOLEAN,
              psh : BOOLEAN]

----------------------------------------------------------------------------
(* tcp_data.c *)

\* Where the scan of the out-of-order queue stops: at a buffer that starts at
\* the same sequence number, or at one the new buffer fits in front of. A
\* buffer it overlaps is passed over ("Could not join skbs").
tcp_data_insert_ordered(ofo, skb) ==
    LET stops == {j \in 1..Len(ofo) :
                    \/ ofo[j].seq = skb.seq
                    \/ /\ skb.seq < ofo[j].seq
                       /\ skb.seq + skb.dlen <= ofo[j].seq}
        n == Leading(Len(ofo), 1..Len(ofo) \ stops)
    IN  IF n = Len(ofo) THEN Append(ofo, skb)
        ELSE IF ofo[n + 1].seq = skb.seq THEN ofo
        ELSE SubSeq(ofo, 1, n) \o << skb >> \o SubSeq(ofo, n + 1, Len(ofo))

\* Buffers move to the receive queue and rcv_nxt stays.
ConsumeStale(s) ==
    LET n == Leading(Len(s.ofo), {j \in 1..Len(s.ofo) : s.ofo[j].seq = s.rcv_nxt})
    IN  [s EXCEPT !.rq = @ \o SubSeq(s.ofo, 1, n),
                  !.ofo = SubSeq(@, n + 1, Len(@))]

\* The head of the out-of-order queue moves to the receive queue while it
\* starts at rcv_nxt.
tcp_consume_ofo_queue(s) ==
    LET next == {j \in 1..Len(s.ofo) :
                    s.ofo[j].seq = IF j = 1 THEN s.rcv_nxt
                                   ELSE s.ofo[j-1].seq + s.ofo[j-1].dlen}
        n == Leading(Len(s.ofo), next)
    IN  IF n = 0 THEN s
        ELSE [s EXCEPT !.rcv_nxt = s.ofo[n].seq + s.ofo[n].dlen,
                       !.rq = @ \o SubSeq(s.ofo, 1, n),
                       !.ofo = SubSeq(@, n + 1, Len(@))]

\* Data queued without marking the socket readable.
DataQueueSilently(s, th) ==
    LET skb == [seq |-> th.seq, dlen |-> th.dlen, data |-> th.data,
                psh |-> th.psh]
    IN  IF th.seq = s.rcv_nxt
        THEN tcp_recv_notify(tcp_consume_ofo_queue(
                 [s EXCEPT !.rcv_nxt = @ + th.dlen, !.rq = Append(@, skb)]))
        ELSE tcp_send_ack([s EXCEPT !.ofo = tcp_data_insert_ordered(@, skb)])

tcp_data_queue(s, th) ==
    LET skb == [seq |-> th.seq, dlen |-> th.dlen, data |-> th.data,
                psh |-> th.psh]
    IN  IF th.seq = s.rcv_nxt
        THEN LET a == tcp_consume_ofo_queue(
                          [s EXCEPT !.rcv_nxt = @ + th.dlen,
                                    !.rq = Append(@, skb)])
             IN  tcp_recv_notify([a EXCEPT !.poll = @ \cup {"IN"}])
        ELSE tcp_send_ack([s EXCEPT !.ofo = tcp_data_insert_ordered(@, skb)])

----------------------------------------------------------------------------
(* tcp_input.c *)

\* Every ACK stops the retransmission timer.
CleanAndStop(s, una) ==
    LET n == Leading(Len(s.wq), {j \in 1..Len(s.wq) :
                                    s.wq[j].seq > 0 /\ s.wq[j].end_seq <= una})
    IN  tcp_stop_rto_timer([s EXCEPT !.wq = SubSeq(@, n + 1, Len(@)),
                                     !.inflight = IF @ > n THEN @ - n ELSE 0])

\* Takes the acknowledged buffers off the head of the write queue.
tcp_clean_rto_queue(s, una) ==
    LET acknowledged == {j \in 1..Len(s.wq) :
                            s.wq[j].seq > 0 /\ s.wq[j].end_seq <= una}
        n == Leading(Len(s.wq), acknowledged)
        a == [s EXCEPT !.wq = SubSeq(@, n + 1, Len(@)),
                       !.inflight = IF @ > n THEN @ - n ELSE 0]
    IN  IF a.wq = << >> \/ a.inflight = 0 THEN tcp_stop_rto_timer(a) ELSE a

tcp_verify_segment(s, th) ==
    s.rcv_nxt <= th.seq /\ th.seq <= s.rcv_nxt + RCV_WND

tcp_reset(s) ==
    tcp_done([s EXCEPT !.poll = {"OUT", "ERR", "HUP"},
                       !.err = IF s.state = "SYN_SENT" THEN "ECONNREFUSED"
                               ELSE IF s.state = "CLOSE_WAIT" THEN "EPIPE"
                               ELSE "ECONNRESET"])

\* A segment in SYN_SENT: an unacceptable ACK, a reset, or a SYN.
tcp_synsent(s, th) ==
    IF th.ack /\ (th.ack_seq <= ISS \/ th.ack_seq > s.snd_nxt) THEN s
    ELSE IF th.rst THEN tcp_reset(s)
    ELSE IF ~th.syn THEN s
    ELSE LET a == [s EXCEPT !.rcv_nxt = th.seq + 1]
             b == IF th.ack
                  THEN tcp_clean_rto_queue([a EXCEPT !.snd_una = th.ack_seq],
                                           th.ack_seq)
                  ELSE a
         IN  IF b.snd_una > ISS
             THEN sock_connected(tcp_rearm_user_timeout(tcp_send_ack(
                      [b EXCEPT !.state = "ESTABLISHED", !.snd_una = b.snd_nxt,
                                !.backoff = 0, !.rto = RTO_INIT])))
             ELSE tcp_send_synack([b EXCEPT !.state = "SYN_RECEIVED",
                                            !.snd_una = ISS])

TextStates == {"ESTABLISHED", "FIN_WAIT_1", "FIN_WAIT_2"}

\* Whether an ACK is examined at all: every synchronized state but TIME_WAIT.
AckStates == {"ESTABLISHED", "FIN_WAIT_1", "FIN_WAIT_2", "CLOSE_WAIT",
              "CLOSING", "LAST_ACK"}

\* Fifth check, first part: what the ACK acknowledges leaves the write queue.
\* r is the round-trip time a measurement would give.
ProcessAck(t, th, r) ==
    LET s == IF t.state = "SYN_RECEIVED"
             THEN [t EXCEPT !.state = "ESTABLISHED"] ELSE t
    IN  IF /\ s.state \in AckStates
           /\ s.snd_una < th.ack_seq /\ th.ack_seq <= s.snd_nxt
        THEN tcp_clean_rto_queue(tcp_rtt([s EXCEPT !.snd_una = th.ack_seq], r),
                                 th.ack_seq)
        ELSE s

\* An ACK that is old, or for something not sent, ends the processing.
AckUseless(s, th) ==
    /\ s.state \in AckStates
    /\ th.ack_seq < s.snd_una \/ th.ack_seq > s.snd_nxt

\* "If the write queue is empty, it means our FIN was acked", but for
\* LAST_ACK, where it ends the connection.
QueueEmptied(s, th) ==
    IF s.wq # << >> THEN s
    ELSE CASE s.state = "FIN_WAIT_1" -> [s EXCEPT !.state = "FIN_WAIT_2"]
           [] s.state = "CLOSING" -> [s EXCEPT !.state = "TIME_WAIT"]
           [] s.state = "TIME_WAIT" /\ s.rcv_nxt = th.seq ->
                  tcp_send_ack([s EXCEPT !.fin = TRUE])
           [] OTHER -> s

\* Seventh: the payload.
ProcessText(s, th) ==
    IF s.state \in TextStates /\ (th.psh \/ th.dlen > 0)
    THEN tcp_data_queue(s, th) ELSE s

\* A FIN that does not wake the reader.
FinUnnotified(s, th, expected) ==
    IF ~(th.fin /\ expected) THEN s
    ELSE [tcp_send_ack([s EXCEPT !.rcv_nxt = @ + 1, !.fin = TRUE])
             EXCEPT !.state = IF @ = "ESTABLISHED" THEN "CLOSE_WAIT" ELSE @]

\* Eighth: the FIN bit of an in-sequence segment.
ProcessFin(s, th, expected) ==
    IF ~(th.fin /\ expected) THEN s
    ELSE LET a == tcp_recv_notify(tcp_send_ack(
                      [s EXCEPT !.rcv_nxt = @ + 1, !.fin = TRUE,
                                !.poll = @ \cup {"IN"}]))
         IN  CASE s.state = "ESTABLISHED" -> [a EXCEPT !.state = "CLOSE_WAIT"]
               [] s.state = "FIN_WAIT_1" ->
                      IF s.wq = << >> THEN tcp_enter_time_wait(a)
                      ELSE [a EXCEPT !.state = "CLOSING"]
               [] s.state = "FIN_WAIT_2" -> tcp_enter_time_wait(a)
               [] OTHER -> a

\* Congestion control and delayed acknowledgments: the next flight, an ACK, or
\* an ACK later.
SendMoreOrAck(t, th, expected) ==
    LET s == tcp_stop_delack_timer(t)
        pending == MinOf(Len(s.wq), 3)
        big == th.dlen > DELACK_LEN
        s2 == IF big /\ ~th.psh THEN [s EXCEPT !.delacks = @ + 1] ELSE s
    IN  IF ~(t.state \in TextStates /\ expected) THEN t
        ELSE IF s.inflight = 0 /\ pending > 0
        THEN tcp_rearm_rto_timer([tcp_send_next(s, pending) EXCEPT
                                     !.inflight = @ + pending])
        ELSE IF th.psh \/ (big /\ s2.delacks > 1)
        THEN tcp_send_ack([s2 EXCEPT !.delacks = 0])
        ELSE IF th.dlen > 0 THEN [s2 EXCEPT !.delack = timer_add("delack")]
        ELSE s2

\* The rest of tcp_input_state, once the ACK has been processed and unless the
\* connection ended in LAST_ACK.
ProcessRest(s, th) ==
    LET a == QueueEmptied(s, th)
        expected == th.seq = a.rcv_nxt
    IN  SendMoreOrAck(ProcessFin(ProcessText(a, th), th, expected), th, expected)

=============================================================================
