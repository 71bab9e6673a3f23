------------------------------ MODULE TcpSock ------------------------------
(***************************************************************************)
(* The state of one TCP socket of hf-ip (struct tcp_sock, its struct sock  *)
(* and the struct socket that owns it) and the operations of src/tcp.c,    *)
(* src/socket.c and src/sock.c on it that the input and output paths share.*)
(*                                                                         *)
(* An operation of the code that runs under the socket lock is an operator *)
(* from the socket's record to the socket's record: the handlers of module *)
(* Tcp compose them in the order of the calls in the code.                 *)
(*                                                                         *)
(* Sequence numbers are naturals: a connection here does not cross 2^32.   *)
(***************************************************************************)
EXTENDS Naturals, Sequences, FiniteSets

CONSTANTS
    ISS,              \* our initial send sequence number (generate_iss)
    IRS,              \* the peer's initial sequence number
    SMSS,             \* tsk->smss, the largest payload of a segment we send
    RCV_WND,          \* tcb->rcv_wnd, never changed after tcp_connect
    DELACK_LEN,       \* payloads longer than this count for every-other ACKs
    TCP_CONN_RETRIES, \* include/tcp.h
    RTO_INIT,         \* tsk->rto on establishment (1000 ms)
    RTO_MAX           \* above it an expired RTO ends the connection (60000 ms)

ASSUME TcpConstants ==
    /\ ISS \in Nat \ {0}
    /\ IRS \in Nat
    /\ SMSS \in Nat \ {0}
    /\ RCV_WND \in Nat \ {0}
    /\ DELACK_LEN \in Nat
    /\ TCP_CONN_RETRIES \in Nat
    /\ RTO_INIT \in Nat \ {0}
    /\ RTO_MAX \in Nat

----------------------------------------------------------------------------
(* Types *)

TcpStates == {"SYN_SENT", "SYN_RECEIVED", "ESTABLISHED", "FIN_WAIT_1",
              "FIN_WAIT_2", "CLOSE", "CLOSE_WAIT", "CLOSING", "LAST_ACK",
              "TIME_WAIT"}

SocketStates == {"UNCONNECTED", "CONNECTING", "CONNECTED", "DISCONNECTING"}

Errors == {"0", "EINPROGRESS", "ECONNREFUSED", "ECONNRESET", "EPIPE", "ETIMEDOUT",
           "EBADF"}

\* What a timer calls on expiry: tcp_connect_rto, tcp_retransmission_timeout,
\* tcp_send_delack, tcp_user_timeout, tcp_linger, socket_garbage_collect.
TimerKinds == {"conn", "rto", "delack", "user", "2msl", "gc"}

\* A timer the socket holds a pointer to. "fired": timers_tick has already
\* started the handler's thread for it.
TimerSlot == [kind : TimerKinds \cup {"none"}, fired : BOOLEAN]

NoTimer == [kind |-> "none", fired |-> FALSE]

\* A buffer of the write queue. seq and end_seq are 0 until it is first sent;
\* data is the position of its first byte in what the application wrote.
WriteSkb == [seq : Nat, end_seq : Nat, dlen : Nat, data : Nat,
             syn : BOOLEAN, fin : BOOLEAN]

\* A received buffer; data is the position of its next unread byte in the
\* peer's stream.
ReadSkb == [seq : Nat, dlen : Nat, data : Nat, psh : BOOLEAN]

\* What we put on the wire and a peer acts on.
Segment == [seq : Nat, dlen : Nat, data : Nat, syn : BOOLEAN, fin : BOOLEAN,
            rst : BOOLEAN, ack : BOOLEAN]

\* A waiter on a struct wait_lock.
WaitStates == {"idle", "asleep", "woken"}

PollEvents == {"IN", "OUT", "ERR", "HUP"}

Tsk == [state : TcpStates, ss : SocketStates, err : Errors,
        poll : SUBSET PollEvents,
        snd_una : Nat, snd_nxt : Nat, rcv_nxt : Nat,
        inflight : Nat, backoff : Nat, rto : Nat, delacks : Nat,
        wq : Seq(WriteSkb), rq : Seq(ReadSkb), ofo : Seq(ReadSkb),
        fin : BOOLEAN, psh : BOOLEAN,
        retransmit : TimerSlot, delack : TimerSlot, linger : TimerSlot,
        armed : [TimerKinds -> Nat], thread : [TimerKinds -> Nat],
        sleep : WaitStates, recv_wait : WaitStates,
        freed : BOOLEAN,
        wire : SUBSET Segment, acked : Nat]
(***************************************************************************)
(* armed[k]:  timers of kind k on the timer list that no pointer of the    *)
(*            socket leads to (timer_oneshot, or released before expiry);  *)
(* thread[k]: handler threads of kind k started and still waiting for the  *)
(*            socket lock;                                                 *)
(* wire:      every segment ever transmitted that takes sequence space,    *)
(*            and resets: the network may lose, repeat and reorder them;   *)
(* acked:     the latest acknowledgment number put on the wire.            *)
(***************************************************************************)

\* tcp_alloc_sock, alloc_socket and sock_init_data.
NewSock ==
    [state |-> "CLOSE", ss |-> "UNCONNECTED", err |-> "0", poll |-> {},
     snd_una |-> 0, snd_nxt |-> 0, rcv_nxt |-> 0,
     inflight |-> 0, backoff |-> 0, rto |-> 0, delacks |-> 0,
     wq |-> << >>, rq |-> << >>, ofo |-> << >>,
     fin |-> FALSE, psh |-> FALSE,
     retransmit |-> NoTimer, delack |-> NoTimer, linger |-> NoTimer,
     armed |-> [k \in TimerKinds |-> 0], thread |-> [k \in TimerKinds |-> 0],
     sleep |-> "idle", recv_wait |-> "idle", freed |-> FALSE,
     wire |-> {}, acked |-> 0]

\* How many of the buffers 1..n a loop "while the head is one of S" takes off
\* a queue, S a set of their indices.
Leading(n, S) ==
    CHOOSE k \in 0..n : 1..k \subseteq S /\ (k = n \/ k + 1 \notin S)

----------------------------------------------------------------------------
(* Timers held by the socket *)

timer_add(kind) == [kind |-> kind, fired |-> FALSE]

\* timer_release drops a pointer and leaves the timer running.
timer_release(armed, slot) ==
    IF slot.kind = "none" \/ slot.fired THEN armed
    ELSE [armed EXCEPT ![slot.kind] = @ + 1]

tcp_release_rto_timer(s) ==
    [s EXCEPT !.armed = timer_release(s.armed, s.retransmit),
              !.retransmit = NoTimer]

tcp_release_delack_timer(s) ==
    [s EXCEPT !.armed = timer_release(s.armed, s.delack),
              !.delack = NoTimer]

tcp_stop_rto_timer(s) == [s EXCEPT !.retransmit = NoTimer, !.backoff = 0]

tcp_stop_delack_timer(s) == [s EXCEPT !.delack = NoTimer]

tcp_clear_timers(s) ==
    [s EXCEPT !.retransmit = NoTimer, !.backoff = 0,
              !.delack = NoTimer, !.linger = NoTimer]

tcp_rearm_rto_timer(s) ==
    [tcp_release_rto_timer(s) EXCEPT
        !.retransmit = timer_add(IF s.state = "SYN_SENT" THEN "conn" ELSE "rto")]

tcp_rearm_user_timeout(s) ==
    IF s.state = "TIME_WAIT" THEN s ELSE [s EXCEPT !.linger = timer_add("user")]

\* TIME_WAIT without its timer.
TimeWaitUntimed(s) == [tcp_clear_timers(s) EXCEPT !.state = "TIME_WAIT"]

tcp_enter_time_wait(s) ==
    [tcp_clear_timers(s) EXCEPT !.state = "TIME_WAIT",
                                !.linger = timer_add("2msl")]

\* A round-trip measurement replaces the timeout by r unless the segment was
\* retransmitted, nothing is being timed or the measurement is negative (r = 0).
tcp_rtt(s, r) ==
    IF s.backoff > 0 \/ s.retransmit.kind = "none" \/ r = 0 THEN s
    ELSE [s EXCEPT !.rto = r]

----------------------------------------------------------------------------
(* Waking the application, ending the connection *)

wait_wakeup(w) == IF w = "asleep" THEN "woken" ELSE w

tcp_recv_notify(s) == [s EXCEPT !.recv_wait = wait_wakeup(@)]

tcp_notify_user(s) ==
    IF s.state = "CLOSE_WAIT" THEN [s EXCEPT !.sleep = wait_wakeup(@)] ELSE s

sock_connected(s) ==
    [s EXCEPT !.ss = "CONNECTED", !.err = "0", !.poll = {"OUT"},
              !.sleep = wait_wakeup(@)]

\* A socket marked for deletion whose garbage collector is never armed.
DeleteUncollected(s) ==
    IF s.ss = "DISCONNECTING" THEN s ELSE [s EXCEPT !.ss = "DISCONNECTING"]

\* The garbage collector is a one-shot timer that nobody points to.
socket_delete(s) ==
    IF s.ss = "DISCONNECTING" THEN s
    ELSE [s EXCEPT !.ss = "DISCONNECTING",
                   !.armed = [s.armed EXCEPT !["gc"] = @ + 1]]

\* Freeing the queues without waking the thread in connect().
FreeSilently(s) == [tcp_clear_timers(s) EXCEPT !.ofo = << >>]

tcp_free(s) ==
    [tcp_clear_timers(s) EXCEPT !.ofo = << >>, !.sleep = wait_wakeup(@)]

tcp_done(s) == socket_delete(tcp_free([s EXCEPT !.state = "CLOSING"]))

\* The two sides of the close mixed up.
FinStateSwapped(s) ==
    IF s.state = "CLOSE_WAIT" THEN [s EXCEPT !.state = "FIN_WAIT_1"]
    ELSE IF s.state = "ESTABLISHED" THEN [s EXCEPT !.state = "LAST_ACK"]
    ELSE s

tcp_handle_fin_state(s) ==
    IF s.state = "CLOSE_WAIT" THEN [s EXCEPT !.state = "LAST_ACK"]
    ELSE IF s.state = "ESTABLISHED" THEN [s EXCEPT !.state = "FIN_WAIT_1"]
    ELSE s

=============================================================================
