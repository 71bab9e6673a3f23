-------------------------------- MODULE Tcp --------------------------------
(***************************************************************************)
(* One TCP connection of hf-ip from connect() to the release of the socket:*)
(* the application's calls, the core thread's segments, the timer thread   *)
(* and the handler threads it starts, against a peer and a network that    *)
(* may lose, repeat and reorder every segment.                             *)
(*                                                                         *)
(* Every step runs under the socket lock; only the reader holds it over    *)
(* several steps (app.pc = "copy").  A handler thread exists for a while   *)
(* (tsk.thread) before it gets the lock, and anything may happen between.  *)
(***************************************************************************)
EXTENDS TcpInput

CONSTANTS
    NonBlock,     \* whether O_NONBLOCK is set on the socket: a set of choices
    AppBytes,     \* bytes the application writes in all
    WriteSizes,   \* lengths it passes to write()
    ReadSizes,    \* lengths it passes to read()
    RttSamples,   \* timeouts a round-trip measurement may give; 0: negative, ignored
    Expirable,    \* kinds of timers that may expire in this run
    MaxThreads,   \* handler threads of one kind waiting at a time
    PeerModes,    \* what the remote end does with the connection attempt
    PeerBytes,    \* bytes the peer sends in all
    PeerCloses,   \* whether the peer sends a FIN after them
    PeerResets    \* whether the peer may reset the connection

ASSUME TcpRunConstants ==
    /\ NonBlock \subseteq BOOLEAN
    /\ PeerCloses \in BOOLEAN /\ PeerResets \in BOOLEAN
    /\ AppBytes \in Nat /\ PeerBytes \in Nat /\ MaxThreads \in Nat
    /\ WriteSizes \subseteq Nat \ {0}
    /\ ReadSizes \subseteq Nat \ {0}
    /\ RttSamples \subseteq Nat
    /\ Expirable \subseteq TimerKinds
    /\ PeerModes \subseteq {"listen", "refuse", "simopen"}

VARIABLES
    tsk,        \* the socket
    app,        \* the application thread and its current call
    wrote,      \* bytes accepted by write() so far
    delivered,  \* positions of the bytes read() has copied out, in order
    peer        \* the remote end

vars == << tsk, app, wrote, delivered, peer >>

\* pc: where the application is. "copy": in tcp_receive with the lock held;
\* "reading": asleep in tcp_receive; "freeing": between a failed connect()
\* and its socket_free.
AppPcs == {"start", "connecting", "freeing", "idle", "copy", "reading", "closed"}

Returns == {"none", "bytes", "eof", "EAGAIN", "error"}

AppType == [nonblock : BOOLEAN, pc : AppPcs, want : Nat, rlen : Nat, ret : Returns]

\* snd: bytes sent so far, plus one for the FIN; got: positions of the bytes
\* received in sequence; hist: the points (snd, rcv_nxt) the peer has been at;
\* rst: the sequence number of its reset, or 0.
PeerType == [mode : {"listen", "refuse", "simopen"}, snd : Nat, rcv_nxt : Nat,
             got : Seq(Nat), fin : BOOLEAN, rst : Nat,
             hist : SUBSET [snd : Nat, ack : Nat]]

TypeOK ==
    /\ tsk \in Tsk
    /\ app \in AppType
    /\ wrote \in Nat
    /\ delivered \in Seq(Nat)
    /\ peer \in PeerType

Init ==
    /\ tsk = NewSock
    /\ app \in [nonblock : NonBlock, pc : {"start"}, want : {0}, rlen : {0},
                ret : {"none"}]
    /\ wrote = 0
    /\ delivered = << >>
    /\ peer \in [mode : PeerModes, snd : {0}, rcv_nxt : {0}, got : {<< >>},
                 fin : {FALSE}, rst : {0}, hist : {{}}]

\* The socket exists and nobody holds its lock.
Unlocked == ~tsk.freed /\ app.pc # "copy"

----------------------------------------------------------------------------
(* The application's calls *)

\* _connect and inet_stream_connect: blocking calls sleep on sock->sleep.
Connect ==
    /\ app.pc = "start"
    /\ tsk' = [tcp_connect(tsk) EXCEPT
                  !.ss = "CONNECTING", !.err = "EINPROGRESS",
                  !.sleep = IF app.nonblock THEN "idle" ELSE "asleep"]
    /\ app' = [app EXCEPT !.pc = IF app.nonblock THEN "idle" ELSE "connecting"]
    /\ UNCHANGED << wrote, delivered, peer >>

\* The rest of inet_stream_connect after a wake-up: sock->state or sk->err
\* has changed by then, so its loop ends.
ConnectWoken ==
    /\ Unlocked /\ app.pc = "connecting" /\ tsk.sleep = "woken"
    /\ tsk' = [tsk EXCEPT !.sleep = "idle",
                          !.ss = IF tsk.err = "0" THEN "CONNECTED" ELSE @]
    /\ app' = [app EXCEPT
                  !.pc = IF tsk.err \in {"ETIMEDOUT", "ECONNREFUSED"}
                         THEN "freeing" ELSE "idle",
                  !.ret = IF tsk.err = "0" THEN @ ELSE "error"]
    /\ UNCHANGED << wrote, delivered, peer >>

\* _connect frees the socket of a refused or timed out connection.
ConnectFree ==
    /\ Unlocked /\ app.pc = "freeing"
    /\ tsk' = [tsk EXCEPT !.freed = TRUE]
    /\ app' = [app EXCEPT !.pc = "closed"]
    /\ UNCHANGED << wrote, delivered, peer >>

\* tcp_write, when it accepts the data.
Write(len) ==
    /\ Unlocked /\ app.pc = "idle"
    /\ wrote + len <= AppBytes
    /\ tsk.err = "0" /\ tsk.state \in {"ESTABLISHED", "CLOSE_WAIT"}
    /\ tsk' = tcp_send(tsk, wrote + 1, len)
    /\ wrote' = wrote + len
    /\ UNCHANGED << app, delivered, peer >>

\* The FIN reported before the bytes that precede it were read.
ReadAtEndEarly ==
    /\ Unlocked /\ app.pc = "idle" /\ tsk.state = "CLOSE_WAIT" /\ tsk.fin
    /\ app' = [app EXCEPT !.ret = "eof"]
    /\ tsk' = [tsk EXCEPT !.fin = FALSE]
    /\ UNCHANGED << wrote, delivered, peer >>

\* tcp_read without a call of tcp_receive: it answers from the state alone.
ReadAtEnd ==
    /\ Unlocked /\ app.pc = "idle"
    /\ \/ /\ tsk.state \in {"CLOSING", "LAST_ACK", "TIME_WAIT"}
          /\ app' = [app EXCEPT !.ret = IF tsk.err = "0" THEN "eof" ELSE "error"]
          /\ UNCHANGED tsk
       \/ /\ tsk.state = "CLOSE_WAIT" /\ tsk.rq = << >> /\ tsk.fin
          /\ app' = [app EXCEPT !.ret = "eof"]
          /\ tsk' = [tsk EXCEPT !.fin = FALSE]
    /\ UNCHANGED << wrote, delivered, peer >>

\* tcp_read that enters tcp_receive.
Read(len) ==
    /\ Unlocked /\ app.pc = "idle"
    /\ \/ tsk.state \in {"SYN_SENT", "SYN_RECEIVED"} \cup TextStates
       \/ tsk.state = "CLOSE_WAIT" /\ ~(tsk.rq = << >> /\ tsk.fin)
    /\ app' = [app EXCEPT !.pc = "copy", !.want = len, !.rlen = 0]
    /\ UNCHANGED << tsk, wrote, delivered, peer >>

\* Copies all the caller asked for out of a buffer that may hold less.
CopyPastEnd ==
    /\ app.pc = "copy" /\ tsk.rq # << >> /\ app.rlen < app.want
    /\ LET skb == Head(tsk.rq)
           n == app.want - app.rlen
       IN  /\ delivered' = delivered \o [i \in 1..n |-> skb.data + i - 1]
           /\ app' = [app EXCEPT !.rlen = @ + n]
           /\ tsk' = IF n = skb.dlen
                     THEN [tsk EXCEPT !.rq = Tail(@), !.psh = @ \/ skb.psh]
                     ELSE [tsk EXCEPT !.rq[1].dlen = @ - n,
                                      !.rq[1].data = @ + n]
    /\ UNCHANGED << wrote, peer >>

\* One iteration of tcp_data_dequeue.
CopySkb ==
    /\ app.pc = "copy" /\ tsk.rq # << >> /\ app.rlen < app.want
    /\ LET skb == Head(tsk.rq)
           n == MinOf(skb.dlen, app.want - app.rlen)
       IN  /\ delivered' = delivered \o [i \in 1..n |-> skb.data + i - 1]
           /\ app' = [app EXCEPT !.rlen = @ + n]
           /\ tsk' = IF n = skb.dlen
                     THEN [tsk EXCEPT !.rq = Tail(@), !.psh = @ \/ skb.psh]
                     ELSE [tsk EXCEPT !.rq[1].dlen = @ - n,
                                      !.rq[1].data = @ + n]
    /\ UNCHANGED << wrote, peer >>

\* The end of a tcp_data_dequeue and the rest of tcp_receive's loop: it
\* returns, or releases the lock and sleeps.
CopyDone ==
    /\ app.pc = "copy" /\ (tsk.rq = << >> \/ app.rlen = app.want)
    /\ LET s == IF tsk.rq = << >> /\ ~tsk.fin
                THEN [tsk EXCEPT !.poll = @ \ {"IN"}] ELSE tsk
           stop == tsk.psh \/ tsk.fin \/ app.rlen = app.want
       IN  \/ /\ stop \/ (app.nonblock /\ app.rlen > 0)
              /\ tsk' = tcp_rearm_user_timeout([s EXCEPT !.psh = FALSE])
              /\ app' = [app EXCEPT !.pc = "idle",
                                    !.ret = IF app.rlen = 0 THEN "eof" ELSE "bytes"]
           \/ /\ ~stop /\ app.nonblock /\ app.rlen = 0
              /\ tsk' = s
              /\ app' = [app EXCEPT !.pc = "idle", !.ret = "EAGAIN"]
           \/ /\ ~stop /\ ~app.nonblock
              /\ tsk' = [s EXCEPT !.recv_wait = "asleep"]
              /\ app' = [app EXCEPT !.pc = "reading"]
    /\ UNCHANGED << wrote, delivered, peer >>

\* A woken reader takes the lock again and goes round its loop.
ReadWoken ==
    /\ Unlocked /\ app.pc = "reading" /\ tsk.recv_wait = "woken"
    /\ tsk' = [tsk EXCEPT !.recv_wait = "idle"]
    /\ app' = [app EXCEPT !.pc = "copy"]
    /\ UNCHANGED << wrote, delivered, peer >>

\* tcp_close.
Close ==
    /\ Unlocked /\ app.pc = "idle"
    /\ tsk' = CASE tsk.state \in {"SYN_SENT", "SYN_RECEIVED"} -> tcp_done(tsk)
                [] tsk.state = "ESTABLISHED" ->
                       tcp_queue_fin([tsk EXCEPT !.state = "FIN_WAIT_1"])
                [] tsk.state = "CLOSE_WAIT" -> tcp_queue_fin(tsk)
                [] OTHER -> [tsk EXCEPT !.err = "EBADF"]
    /\ app' = [app EXCEPT !.pc = "closed"]
    /\ UNCHANGED << wrote, delivered, peer >>

----------------------------------------------------------------------------
(* Timers: timers_tick starts a thread for an expired timer, and the thread *)
(* runs the handler once it has the socket lock.                            *)

\* An expired timer the socket points to.
Expire(slot) ==
    /\ tsk[slot].kind \in Expirable /\ ~tsk[slot].fired
    /\ tsk.thread[tsk[slot].kind] < MaxThreads
    /\ tsk' = [tsk EXCEPT ![slot].fired = TRUE,
                          !.thread[tsk[slot].kind] = @ + 1]
    /\ UNCHANGED << app, wrote, delivered, peer >>

\* An expired timer nobody points to any more. socket_garbage_collect comes
\* 10 seconds after socket_delete: threads that waited for the socket lock
\* have had it by then.
ExpireUnowned(kind) ==
    /\ kind \in Expirable /\ tsk.armed[kind] > 0
    /\ kind = "gc" => /\ "woken" \notin {tsk.sleep, tsk.recv_wait}
                      /\ app.pc # "freeing"
                      /\ \A k \in TimerKinds : tsk.thread[k] = 0
    /\ tsk.thread[kind] < MaxThreads
    /\ tsk' = [tsk EXCEPT !.armed[kind] = @ - 1, !.thread[kind] = @ + 1]
    /\ UNCHANGED << app, wrote, delivered, peer >>

\* What the handlers of the linger timer do before ending the connection.
CancelLinger(s) == [s EXCEPT !.linger = NoTimer]

Handler(kind, s) ==
    CASE kind = "conn" -> tcp_connect_rto(s)
      [] kind = "rto" -> tcp_retransmission_timeout(s)
      [] kind = "delack" -> tcp_send_delack(s)
      [] kind = "user" -> tcp_abort(CancelLinger(s))
      [] kind = "2msl" -> tcp_done(CancelLinger(s))
      [] kind = "gc" -> [s EXCEPT !.freed = TRUE]

RunHandler(kind) ==
    /\ Unlocked /\ tsk.thread[kind] > 0
    /\ tsk' = Handler(kind, [tsk EXCEPT !.thread[kind] = @ - 1])
    /\ UNCHANGED << app, wrote, delivered, peer >>

----------------------------------------------------------------------------
(* The remote end: a TCP that follows the standard, seen through the        *)
(* segments it may have on the wire.                                        *)

PeerEstablished == tsk.acked > IRS

\* The peer takes a segment of ours: the SYN, or in-sequence data and FIN.
PeerReceive(seg) ==
    /\ peer.rst = 0
    /\ \/ /\ seg.syn /\ peer.rcv_nxt = 0
          /\ peer' = [peer EXCEPT !.rcv_nxt = seg.seq + 1,
                                  !.hist = {[snd |-> 0, ack |-> seg.seq + 1]}]
       \/ /\ ~seg.syn /\ ~seg.rst /\ peer.rcv_nxt > 0 /\ ~peer.fin
          /\ LET end == seg.seq + seg.dlen + (IF seg.fin THEN 1 ELSE 0)
                 skip == peer.rcv_nxt - seg.seq
                 new == [i \in 1..(seg.dlen - skip) |-> seg.data + skip + i - 1]
             IN  /\ seg.seq <= peer.rcv_nxt /\ peer.rcv_nxt < end
                 /\ peer' = [peer EXCEPT
                                !.rcv_nxt = end,
                                !.got = @ \o new,
                                !.fin = seg.fin,
                                !.hist = @ \cup {[snd |-> peer.snd, ack |-> end]}]
    /\ UNCHANGED << tsk, app, wrote, delivered >>

\* The peer sends one more byte, or its FIN.
PeerSend ==
    /\ PeerEstablished /\ peer.mode # "refuse" /\ peer.rst = 0
    /\ peer.snd < PeerBytes + (IF PeerCloses THEN 1 ELSE 0)
    /\ peer' = [peer EXCEPT !.snd = @ + 1,
                            !.hist = @ \cup {[snd |-> peer.snd + 1,
                                              ack |-> peer.rcv_nxt]}]
    /\ UNCHANGED << tsk, app, wrote, delivered >>

PeerReset ==
    /\ PeerResets /\ PeerEstablished /\ peer.rst = 0
    /\ peer' = [peer EXCEPT !.rst = IRS + 1 + peer.snd]
    /\ UNCHANGED << tsk, app, wrote, delivered >>

NoFlags == [seq |-> 0, dlen |-> 0, data |-> 0, ack_seq |-> 0, syn |-> FALSE,
            fin |-> FALSE, rst |-> FALSE, ack |-> FALSE, psh |-> FALSE]

Handshake ==
    (IF peer.mode = "simopen" THEN {[NoFlags EXCEPT !.syn = TRUE, !.seq = IRS]}
     ELSE {})
    \cup
    (IF peer.rcv_nxt = 0 THEN {}
     ELSE IF peer.mode = "refuse"
     THEN {[NoFlags EXCEPT !.rst = TRUE, !.ack = TRUE, !.ack_seq = ISS + 1]}
     ELSE {[NoFlags EXCEPT !.syn = TRUE, !.seq = IRS, !.ack = TRUE,
                           !.ack_seq = ISS + 1]})

\* Data segments: any run of bytes lo+1..hi sent by then, with the ACK of any
\* time it could be (re)transmitted at.
PeerData(p) ==
    {[NoFlags EXCEPT !.seq = IRS + 1 + x[1], !.data = x[1] + 1,
                     !.dlen = x[2] - x[1], !.ack = TRUE, !.ack_seq = p.ack,
                     !.psh = x[3]] :
        x \in {y \in (0..PeerBytes) \X (0..PeerBytes) \X BOOLEAN :
                 y[1] < y[2] /\ y[2] <= p.snd}}

\* The FIN, alone or with the last bytes.
PeerFin(p) ==
    IF p.snd <= PeerBytes THEN {}
    ELSE {[NoFlags EXCEPT !.seq = IRS + 1 + lo, !.data = lo + 1,
                          !.dlen = PeerBytes - lo, !.ack = TRUE,
                          !.ack_seq = p.ack, !.fin = TRUE] :
             lo \in 0..PeerBytes}

PeerAck(p) ==
    {[NoFlags EXCEPT !.seq = IRS + 1 + p.snd, !.ack = TRUE, !.ack_seq = p.ack]}

Resets ==
    IF peer.rst = 0 THEN {} ELSE {[NoFlags EXCEPT !.rst = TRUE, !.seq = peer.rst]}

\* Every segment of the peer that may arrive now: sent once, and possibly late
\* or again.
InFlight ==
    Handshake \cup Resets
    \cup (IF peer.mode = "refuse" THEN {}
          ELSE UNION {PeerData(p) \cup PeerFin(p) \cup PeerAck(p) :
                         p \in peer.hist})

----------------------------------------------------------------------------
(* tcp_in and tcp_input_state: one segment arrives on the core thread.  A    *)
(* segment with a SYN, without an ACK, or with a useless ACK is dropped and  *)
(* changes nothing.                                                          *)

Arrives ==
    /\ Unlocked /\ tsk.state # "CLOSE"
    /\ UNCHANGED << app, wrote, delivered, peer >>

RcvSynSent(th) ==
    /\ Arrives /\ tsk.state = "SYN_SENT"
    /\ tsk' = tcp_synsent(tsk, th)

RcvUnacceptable(th) ==
    /\ Arrives /\ tsk.state # "SYN_SENT"
    /\ ~tcp_verify_segment(tsk, th) /\ ~th.rst
    /\ tsk' = tcp_send_ack(tsk)

RcvReset(th) ==
    /\ Arrives /\ tsk.state # "SYN_SENT"
    /\ tcp_verify_segment(tsk, th) /\ th.rst
    /\ tsk' = tcp_recv_notify(tcp_enter_time_wait(tsk))

RcvSegment(th, r) ==
    /\ Arrives /\ tsk.state # "SYN_SENT"
    /\ tcp_verify_segment(tsk, th) /\ ~th.rst /\ ~th.syn /\ th.ack
    /\ tsk.state = "SYN_RECEIVED" =>
          tsk.snd_una <= th.ack_seq /\ th.ack_seq < tsk.snd_nxt
    /\ ~AckUseless(tsk, th)
    /\ LET s == ProcessAck(tsk, th, r)
       IN  tsk' = IF s.state = "LAST_ACK" /\ s.wq = << >> THEN tcp_done(s)
                  ELSE ProcessRest(s, th)

----------------------------------------------------------------------------

AppNext ==
    \/ Connect \/ ConnectWoken \/ ConnectFree
    \/ \E len \in WriteSizes : Write(len)
    \/ ReadAtEnd \/ \E len \in ReadSizes : Read(len)
    \/ CopySkb \/ CopyDone \/ ReadWoken
    \/ Close

TimerNext ==
    \/ \E slot \in {"retransmit", "delack", "linger"} : Expire(slot)
    \/ \E kind \in TimerKinds : ExpireUnowned(kind) \/ RunHandler(kind)

PeerNext ==
    \/ \E seg \in tsk.wire : PeerReceive(seg)
    \/ PeerSend \/ PeerReset

CoreNext ==
    \E th \in InFlight :
        \/ RcvSynSent(th) \/ RcvUnacceptable(th) \/ RcvReset(th)
        \/ \E r \in RttSamples : RcvSegment(th, r)

Next == AppNext \/ TimerNext \/ PeerNext \/ CoreNext

Spec == Init /\ [][Next]_vars

----------------------------------------------------------------------------
(* Fairness: the timer thread looks at every timer at every tick, a thread  *)
(* that waits for the socket lock gets it, and a thread that holds it goes  *)
(* on.  Nothing is assumed of the network, the peer or the application's    *)
(* next call.                                                               *)

Fairness ==
    /\ \A slot \in {"retransmit", "delack", "linger"} : WF_vars(Expire(slot))
    /\ \A kind \in TimerKinds :
          SF_vars(ExpireUnowned(kind)) /\ WF_vars(RunHandler(kind))
    /\ WF_vars(ConnectWoken) /\ WF_vars(ConnectFree)
    /\ WF_vars(CopySkb) /\ WF_vars(CopyDone) /\ WF_vars(ReadWoken)

FairSpec == Spec /\ Fairness

----------------------------------------------------------------------------
(* Properties *)

\* socket_delete has been called: the socket will be garbage collected.
Collecting == tsk.armed["gc"] + tsk.thread["gc"] > 0

\* The application reads the peer's bytes in the peer's order, none missing
\* and none twice, whatever is lost, repeated, reordered or cut differently on
\* retransmission (tcp_data_queue, tcp_consume_ofo_queue, tcp_data_dequeue).
InOrder == \A i \in 1..Len(delivered) : delivered[i] = i

\* tsk->inflight counts exactly the buffers of the write queue that have been
\* transmitted (tcp_queue_transmit_skb, tcp_send_next, tcp_clean_rto_queue).
InflightCount ==
    tsk.inflight = Cardinality({i \in 1..Len(tsk.wq) : tsk.wq[i].seq > 0})

\* As long as something we sent is unacknowledged, some retransmission timer
\* is running or its handler is about to run, even when late handlers have
\* dropped the pointer to it; the connection's end excepted. doc/05.md: "when a
\* data segment is sent and the RTO timer is not running, activate it".
UnackedTimed ==
    tsk.inflight > 0 /\ ~Collecting /\ tsk.state # "TIME_WAIT" /\ ~tsk.freed =>
        LET kind == IF tsk.state = "SYN_SENT" THEN "conn" ELSE "rto"
        IN  \/ tsk.retransmit.kind = kind
            \/ tsk.armed[kind] + tsk.thread[kind] > 0

\* From establishment to garbage collection a user timeout or a time-wait
\* timer guards the connection, so that none is left behind for ever.
Guarded ==
    tsk.state \notin {"CLOSE", "SYN_SENT"} /\ ~Collecting /\ ~tsk.freed =>
        \/ tsk.linger.kind # "none"
        \/ tsk.thread["user"] + tsk.thread["2msl"] > 0

\* poll() reports readable data whenever the receive queue has some, and no
\* readable data once everything was read and no FIN has come.
PollTellsTruth ==
    /\ tsk.rq # << >> => "IN" \in tsk.poll
    /\ "IN" \in tsk.poll =>
          \/ tsk.rq # << >> \/ app.pc = "copy"
          \/ tsk.rcv_nxt = IRS + PeerBytes + 2

\* No wake-up of a reader is lost between its look at the queue and its sleep
\* (tcp_input.c:513-539 against recv_notify): a read() that sleeps, and that
\* nobody has woken, has no data and no FIN to return with.
NoLostWakeup ==
    app.pc = "reading" /\ tsk.recv_wait = "asleep" => tsk.rq = << >> /\ ~tsk.fin

\* The state changes of RFC 793's diagram that this stack implements, with
\* CLOSING also for a socket given up by tcp_done, and a reset taken to
\* TIME_WAIT.
StateChanges ==
    {"CLOSE"} \X {"SYN_SENT"}
    \cup {"SYN_SENT"} \X {"SYN_RECEIVED", "ESTABLISHED", "CLOSING"}
    \cup {"SYN_RECEIVED"} \X {"ESTABLISHED", "CLOSE_WAIT", "TIME_WAIT", "CLOSING"}
    \cup {"ESTABLISHED"} \X {"FIN_WAIT_1", "CLOSE_WAIT", "TIME_WAIT", "CLOSING"}
    \cup {"FIN_WAIT_1"} \X {"FIN_WAIT_2", "CLOSING", "TIME_WAIT"}
    \cup {"FIN_WAIT_2"} \X {"TIME_WAIT", "CLOSING"}
    \cup {"CLOSE_WAIT"} \X {"LAST_ACK", "TIME_WAIT", "CLOSING"}
    \cup {"LAST_ACK"} \X {"CLOSING", "TIME_WAIT"}
    \cup {"CLOSING"} \X {"TIME_WAIT"}
    \cup {"TIME_WAIT"} \X {"CLOSING"}

\* No step takes the connection along an edge that is not in the diagram.
FollowsDiagram ==
    [][tsk.state # tsk'.state => << tsk.state, tsk'.state >> \in StateChanges]_vars

\* A blocking connect() returns: established, refused or timed out.
ConnectReturns == app.pc = "connecting" ~> app.pc # "connecting"

\* A closed socket is released in the end, even if the peer never answers.
ClosedIsFreed == app.pc = "closed" ~> tsk.freed

----------------------------------------------------------------------------
(* What the repository's comments and documents say, and the code does not  *)
(* do: refuted by a run of its own.                                         *)

\* "Queue this until all preceding SENDs have been segmentized, then form a FIN
\* segment and send it" (tcp_close): no byte is still unsent when the FIN is.
FinAfterData ==
    (\E seg \in tsk.wire : seg.fin) =>
        \A i \in 1..Len(tsk.wq) : tsk.wq[i].seq > 0

=============================================================================
