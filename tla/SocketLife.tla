----------------------------- MODULE SocketLife -----------------------------
(***************************************************************************)
(* The life of the sockets of src/socket.c: the list and its lock (slock), *)
(* the reference count and the lock of each struct socket, the struct sock *)
(* it owns, the wait queue a blocking connect() sleeps on (include/wait.h) *)
(* and the garbage collector, among the threads that use them: the IPC     *)
(* thread of each socket, other IPC threads that poll it, the core thread, *)
(* the threads of expired timers and the main thread at exit.              *)
(*                                                                         *)
(* A step is what a thread does without waiting for a lock.  What TCP does *)
(* under the socket lock is reduced to what ends, wakes or times the       *)
(* connection; module Tcp has the rest.                                    *)
(***************************************************************************)
EXTENDS Naturals, FiniteSets

CONSTANTS
    Socks,     \* addresses of struct sockets
    Pollers,   \* further IPC threads, which call poll() on these sockets
    NoThread

ASSUME SocketLifeConstants ==
    /\ IsFiniteSet(Socks) /\ Socks # {} /\ IsFiniteSet(Pollers)

Ipc(s) == << "ipc", s >>
Core == << "core", NoThread >>
Main == << "main", NoThread >>

\* rto: tcp_connect_rto and tcp_retransmission_timeout; linger: tcp_linger and
\* tcp_user_timeout; gc: socket_garbage_collect.
TimerThreads == {"rto", "linger", "gc"} \X Socks

Callers == {Ipc(s) : s \in Socks} \cup ({"poll"} \X Pollers)

Threads == Callers \cup TimerThreads \cup {Core, Main}

ASSUME NoThreadApart == NoThread \notin Threads

VARIABLES
    so,        \* the sockets
    slock,     \* the writer that holds the lock of the list
    pc, tgt,   \* of each thread: where it is, and the socket it works on
    op,        \* of each thread: the call it is in
    spurious,  \* threads woken from wait_sleep without a wait_wakeup
    uaf,       \* uses by timer handlers of a struct sock after it was freed
    exiting    \* the process has been told to stop

vars == << so, slock, pc, tgt, op, spurious, uaf, exiting >>

----------------------------------------------------------------------------
(* Types *)

Memory == {"none", "live", "freed"}

\* OPEN: connected, not closed by us; FINSENT: closed by us; CLOSING: given up
\* by tcp_done.
TcpPhases == {"CLOSE", "SYN_SENT", "OPEN", "FINSENT", "TIME_WAIT", "CLOSING"}

\* mem, sk: struct socket and the struct sock it owns; by: who freed sk; frees:
\* how often. lock, m: holders of sock->lock and sock->sleep.lock; asleep,
\* rasleep: threads in wait_sleep on sock->sleep and on sk->recv_wait. rto,
\* linger: the timers tsk->retransmit and tsk->linger; stray: a retransmission
\* timer nobody points to; queued: the write queue is not empty; gc: pending
\* one-shot timers of the collector. doubled: finished waits of connect().
\* untracked: tcp_done could not cancel one of its timers; aborted: by
\* abort_sockets; reconnected: connect() was called after tcp_done.
Socket ==
    [mem : Memory, sk : Memory, by : {"none", "connect", "gc"}, frees : Nat,
     listed : BOOLEAN, refcnt : Nat, doubled : Nat,
     lock : Threads \cup {NoThread}, m : Threads \cup {NoThread},
     asleep : SUBSET Threads, rasleep : SUBSET Threads,
     ss : {"UNCONNECTED", "CONNECTING", "CONNECTED", "DISCONNECTING"},
     tcp : TcpPhases,
     err : {"0", "EINPROGRESS", "ECONNREFUSED", "ETIMEDOUT", "other"},
     rto : {"none", "conn", "rto", "fired"}, linger : {"none", "armed", "fired"},
     stray : BOOLEAN, queued : BOOLEAN, gc : Nat, untracked : BOOLEAN,
     aborted : BOOLEAN, reconnected : BOOLEAN]

Unallocated ==
    [mem |-> "none", sk |-> "none", by |-> "none", frees |-> 0, listed |-> FALSE,
     refcnt |-> 0, doubled |-> 0, lock |-> NoThread, m |-> NoThread,
     asleep |-> {}, rasleep |-> {}, ss |-> "UNCONNECTED", tcp |-> "CLOSE",
     err |-> "0", rto |-> "none", linger |-> "none", stray |-> FALSE,
     queued |-> FALSE, gc |-> 0, untracked |-> FALSE, aborted |-> FALSE,
     reconnected |-> FALSE]

Pcs == {"idle", "found", "in", "out", "outfree", "wake", "done", "lockm", "check",
        "towait", "asleep", "woken", "reacquire", "rasleep", "rwoken", "rin",
        "free1", "free2", "free3", "free4", "exited"}

Ops == {"none", "connect", "close", "read", "write", "poll", "query", "segment", "conn",
        "rto", "linger", "gc", "abort"}

TypeOK ==
    /\ so \in [Socks -> Socket]
    /\ slock \in Threads \cup {NoThread}
    /\ pc \in [Threads -> Pcs]
    /\ tgt \in [Threads -> Socks \cup {NoThread}]
    /\ op \in [Threads -> Ops]
    /\ spurious \subseteq Threads
    /\ uaf \subseteq [by : {"connect", "gc"}, untracked : BOOLEAN]
    /\ exiting \in BOOLEAN

Init ==
    /\ so = [s \in Socks |-> Unallocated]
    /\ slock = NoThread
    /\ pc = [t \in Threads |-> "idle"]
    /\ tgt = [t \in Threads |-> NoThread]
    /\ op = [t \in Threads |-> "none"]
    /\ spurious = {} /\ uaf = {} /\ exiting = FALSE

----------------------------------------------------------------------------
(* Operations on a socket, by the names they have in the code *)

alloc_socket == [Unallocated EXCEPT !.mem = "live", !.refcnt = 1]

\* Taking the lock without counting the reference.
AcquireUncounted(r, t) == [r EXCEPT !.lock = t]

socket_wr_acquire(r, t) == [r EXCEPT !.lock = t, !.refcnt = @ + 1]

\* A release that drops the socket's own reference too.
ReleaseTwice(r) == [r EXCEPT !.lock = NoThread, !.refcnt = @ - 2]

socket_release(r) ==
    [r EXCEPT !.lock = NoThread, !.refcnt = @ - 1,
              !.mem = IF r.refcnt = 1 THEN "freed" ELSE @]

\* A timer is started, perhaps on a socket that was already given up.
Started(r) == [r EXCEPT !.untracked = @ \/ r.ss = "DISCONNECTING"]

\* The linger timer is left out.
ClearRtoOnly(r) == [r EXCEPT !.rto = "none"]

tcp_clear_timers(r) == [r EXCEPT !.rto = "none", !.linger = "none"]

tcp_rearm_user_timeout(r) ==
    IF r.tcp = "TIME_WAIT" THEN r ELSE Started([r EXCEPT !.linger = "armed"])

tcp_enter_time_wait(r) ==
    Started([tcp_clear_timers(r) EXCEPT !.tcp = "TIME_WAIT", !.linger = "armed"])

\* Forgets the timer; a handler that was overtaken by a call that started the
\* timer anew leaves it running.
tcp_release_rto_timer(r) ==
    LET running == r.rto \in {"conn", "rto"}
    IN  [r EXCEPT !.stray = @ \/ running, !.untracked = @ \/ running, !.rto = "none"]

tcp_rearm_rto_timer(r) ==
    Started([tcp_release_rto_timer(r) EXCEPT
                !.rto = IF r.tcp = "SYN_SENT" THEN "conn" ELSE "rto"])

\* The timer is started if the queue was empty.
tcp_queue_transmit_skb(r) ==
    [(IF r.queued THEN r ELSE tcp_rearm_rto_timer(r)) EXCEPT !.queued = TRUE]

\* tcp_clean_rto_queue, and what tcp_input_state sends next: nothing was
\* acknowledged, or everything, or the rest of the queue is timed anew.
Acked(r) ==
    LET stopped == [r EXCEPT !.rto = "none"]
    IN  {r} \cup IF r.queued THEN {[stopped EXCEPT !.queued = FALSE],
                                  tcp_rearm_rto_timer(stopped)} ELSE {}

\* tcp_done up to the wait_wakeup in tcp_free.
tcp_done(r) == [tcp_clear_timers(r) EXCEPT !.tcp = "CLOSING"]

\* A deletion that starts no collector.
DeleteUncollected(r) == [r EXCEPT !.ss = "DISCONNECTING"]

socket_delete(r) ==
    IF r.ss = "DISCONNECTING" THEN r
    ELSE [r EXCEPT !.ss = "DISCONNECTING", !.gc = @ + 1]

----------------------------------------------------------------------------
(* Steps *)

\* Thread t goes to p with its socket changed to r.
Step(t, r, p) ==
    /\ so' = [so EXCEPT ![tgt[t]] = r]
    /\ pc' = [pc EXCEPT ![t] = p]

\* The same, and the threads of W wake up and go to q.
StepWaking(t, r, p, W, q) ==
    /\ so' = [so EXCEPT ![tgt[t]] = r]
    /\ pc' = [u \in Threads |-> IF u = t THEN p ELSE IF u \in W THEN q ELSE pc[u]]

Same == UNCHANGED << slock, tgt, op, spurious, uaf, exiting >>

Sock(t) == so[tgt[t]]

\* The thread ends what it was doing.
Leave(t) ==
    /\ tgt' = [tgt EXCEPT ![t] = NoThread]
    /\ op' = [op EXCEPT ![t] = "none"]
    /\ UNCHANGED << slock, spurious, uaf, exiting >>

\* _socket: the new socket is in the list when its number is returned.
Create(s) ==
    /\ pc[Ipc(s)] = "idle" /\ so[s].mem = "none" /\ slock = NoThread
    /\ so' = [so EXCEPT ![s] = [alloc_socket EXCEPT !.sk = "live", !.listed = TRUE]]
    /\ Same /\ UNCHANGED pc

Begin(t, o, s) ==
    /\ pc' = [pc EXCEPT ![t] = "found"]
    /\ tgt' = [tgt EXCEPT ![t] = s]
    /\ op' = [op EXCEPT ![t] = o]
    /\ UNCHANGED << slock, spurious, uaf, exiting >>

\* A call finds its socket (get_socket). The library sends the calls on one
\* socket through one connection, but polls through any of them. Calls that
\* start once the process is told to stop are left out.
Call(t, o, s) ==
    /\ pc[t] = "idle" /\ ~exiting /\ slock = NoThread /\ so[s].listed
    /\ o = "poll" \/ t = Ipc(s)
    /\ Begin(t, o, s) /\ UNCHANGED so

\* tcp_in finds the socket of a segment (inet_lookup).
Segment(s) ==
    /\ pc[Core] = "idle" /\ ~exiting /\ slock = NoThread /\ so[s].listed
    /\ Begin(Core, "segment", s) /\ UNCHANGED so

Acquire(t) ==
    /\ pc[t] \in {"found", "rwoken", "reacquire"} /\ op[t] # "gc"
    /\ Sock(t).lock = NoThread
    /\ Step(t, socket_wr_acquire(Sock(t), t),
            CASE pc[t] = "found" -> "in"
              [] pc[t] = "rwoken" -> "rin"
              [] pc[t] = "reacquire" -> "check")
    /\ Same

Release(t) ==
    /\ pc[t] = "out"
    /\ Step(t, socket_release(Sock(t)), IF op[t] = "close" THEN "exited" ELSE "idle")
    /\ Leave(t)

\* The thread holds the lock of a socket whose struct sock is gone.
TouchFreed(t) ==
    /\ pc[t] \in {"in", "rin", "check"} /\ Sock(t).sk = "freed"
    /\ uaf' = IF t \in TimerThreads
              THEN uaf \cup {[by |-> Sock(t).by, untracked |-> Sock(t).untracked]}
              ELSE uaf
    /\ Step(t, [Sock(t) EXCEPT !.m = IF @ = t THEN NoThread ELSE @], "out")
    /\ UNCHANGED << slock, tgt, op, spurious, exiting >>

Inside(t, o) == pc[t] = "in" /\ op[t] = o /\ Sock(t).sk = "live" /\ Same

----------------------------------------------------------------------------
(* Waiting and waking *)

\* wait_wakeup on sock->sleep: after sock_connected, in tcp_notify_user, and in
\* tcp_free, after which tcp_done goes on with socket_delete.
Wake(t) ==
    /\ pc[t] \in {"wake", "done"} /\ t # Main /\ Sock(t).m = NoThread
    /\ LET r == [Sock(t) EXCEPT !.asleep = {}]
       IN  StepWaking(t, IF pc[t] = "done" THEN socket_delete(r) ELSE r, "out",
                      Sock(t).asleep, "woken")
    /\ Same

LockSleep(t) ==
    /\ pc[t] \in {"lockm", "woken"} /\ Sock(t).m = NoThread
    /\ Step(t, [Sock(t) EXCEPT !.m = t],
            IF pc[t] = "lockm" THEN "check" ELSE "reacquire")
    /\ Same

\* The loop of inet_stream_connect, with both locks held: go to sleep, or
\* leave it and take the socket lock, which the thread has, once more.
Check(t) ==
    /\ pc[t] = "check" /\ Sock(t).sk = "live"
    /\ LET r == Sock(t)
           left == [r EXCEPT !.m = NoThread, !.refcnt = @ + 1, !.doubled = @ + 1]
       IN  IF r.ss = "CONNECTING" /\ r.err = "EINPROGRESS"
           THEN Step(t, socket_release(r), "towait")
           ELSE IF r.err \in {"ETIMEDOUT", "ECONNREFUSED"} THEN Step(t, left, "outfree")
           ELSE Step(t, [left EXCEPT !.ss = IF r.err = "0" THEN "CONNECTED" ELSE @], "out")
    /\ spurious' = spurious \ {t}
    /\ UNCHANGED << slock, tgt, op, uaf, exiting >>

\* pthread_cond_wait gives up sleep.lock.
WaitSleep(t) ==
    /\ pc[t] = "towait"
    /\ Step(t, [Sock(t) EXCEPT !.m = NoThread, !.asleep = @ \cup {t}], "asleep")
    /\ Same

\* pthread_cond_wait may return without a signal.
WakeSpuriously(t) ==
    /\ pc[t] = "asleep"
    /\ Step(t, [Sock(t) EXCEPT !.asleep = @ \ {t}], "woken")
    /\ spurious' = spurious \cup {t}
    /\ UNCHANGED << slock, tgt, op, uaf, exiting >>

----------------------------------------------------------------------------
(* The application's calls, with the lock held *)

\* inet_stream_connect up to its loop, blocking or not.
ConnectIn(t) ==
    /\ Inside(t, "connect")
    /\ LET r == Sock(t)
           c == tcp_queue_transmit_skb([r EXCEPT !.tcp = "SYN_SENT", !.ss = "CONNECTING",
                                                 !.err = "EINPROGRESS"])
       IN  IF r.ss = "UNCONNECTED" THEN \E p \in {"lockm", "out"} : Step(t, c, p)
           ELSE IF r.ss = "DISCONNECTING"
           THEN Step(t, [r EXCEPT !.err = "other", !.reconnected = TRUE], "outfree")
           ELSE Step(t, [r EXCEPT !.err = "other"], "out")

\* tcp_close.
CloseIn(t) ==
    /\ Inside(t, "close")
    /\ LET r == Sock(t)
       IN  CASE r.tcp = "SYN_SENT" -> Step(t, tcp_done(r), "done")
             [] r.tcp = "OPEN" ->
                    Step(t, tcp_queue_transmit_skb([r EXCEPT !.tcp = "FINSENT"]), "out")
             [] OTHER -> Step(t, [r EXCEPT !.err = "other"], "out")

\* tcp_write.
WriteIn(t) ==
    /\ Inside(t, "write")
    /\ LET r == Sock(t)
       IN  IF r.tcp = "OPEN" /\ r.err = "0"
           THEN Step(t, tcp_rearm_user_timeout(tcp_queue_transmit_skb(r)), "out")
           ELSE Step(t, r, "out")

\* tcp_receive returns, or releases the lock and sleeps on sk->recv_wait.
Receive(t) ==
    LET r == Sock(t)
    IN  \/ Step(t, tcp_rearm_user_timeout(r), "out")
        \/ Step(t, socket_release([r EXCEPT !.rasleep = @ \cup {t}]), "rasleep")

ReadIn(t) ==
    /\ Inside(t, "read")
    /\ IF Sock(t).tcp \in {"SYN_SENT", "OPEN"} THEN Receive(t)
       ELSE Step(t, Sock(t), "out")

ReadAgain(t) ==
    /\ pc[t] = "rin" /\ Sock(t).sk = "live" /\ Receive(t) /\ Same

\* _poll reads sk->poll_events.
PollIn(t) == Inside(t, "poll") /\ Step(t, Sock(t), "out")

\* _fcntl, _getsockopt, _getpeername and _getsockname. The flags that F_SETFL
\* changes decide whether connect() and read() block: both always may.
QueryIn(t) == Inside(t, "query") /\ Step(t, Sock(t), "out")

----------------------------------------------------------------------------
(* The core thread: tcp_input_state, as far as it wakes, times or ends *)

Notify(t, r) == StepWaking(t, [r EXCEPT !.rasleep = {}], "out", r.rasleep, "rwoken")

SegmentIn ==
    /\ Inside(Core, "segment")
    /\ LET r == Sock(Core)
       IN  \/ Step(Core, r, "out")
           \/ /\ r.tcp = "SYN_SENT"
              /\ \/ Step(Core, tcp_rearm_user_timeout(
                                 [r EXCEPT !.tcp = "OPEN", !.rto = "none", !.queued = FALSE,
                                           !.ss = "CONNECTED", !.err = "0"]), "wake")
                 \/ Step(Core, tcp_done([r EXCEPT !.err = "ECONNREFUSED"]), "done")
           \/ /\ r.tcp \in {"OPEN", "FINSENT"}
              /\ \E q \in Acked(r) : Step(Core, q, "out") \/ Notify(Core, q)
           \/ r.tcp = "FINSENT" /\ Step(Core, tcp_done(r), "done")
           \/ /\ r.tcp \in {"FINSENT", "CLOSING"}
              /\ \E q \in Acked(r) :
                     ~q.queued /\ Step(Core, [q EXCEPT !.tcp = "TIME_WAIT"], "out")
           \/ /\ r.tcp \in {"OPEN", "FINSENT", "TIME_WAIT", "CLOSING"}
              /\ Notify(Core, tcp_enter_time_wait(r))

----------------------------------------------------------------------------
(* Timers *)

\* No thread is in the middle of something on the socket.
Quiet(s) ==
    \A t \in Threads : tgt[t] = s => pc[t] \in {"idle", "asleep", "rasleep", "exited"}

\* timers_tick starts a thread for tsk->retransmit or for a released timer.
ExpireRto(s) ==
    /\ ~exiting /\ pc[<< "rto", s >>] = "idle"
    /\ \/ /\ so[s].rto \in {"conn", "rto"}
          /\ so' = [so EXCEPT ![s].rto = "fired"]
          /\ Begin(<< "rto", s >>, so[s].rto, s)
       \/ /\ so[s].stray
          /\ so' = [so EXCEPT ![s].stray = FALSE]
          /\ Begin(<< "rto", s >>, "rto", s)

\* The linger timers (minutes) and the collector's (ten seconds) are long: the
\* threads that were running when they were started have gone on by then.
ExpireLinger(s) ==
    /\ ~exiting /\ Quiet(s) /\ so[s].linger = "armed"
    /\ so' = [so EXCEPT ![s].linger = "fired"]
    /\ Begin(<< "linger", s >>, "linger", s)

ExpireGc(s) ==
    /\ ~exiting /\ Quiet(s) /\ so[s].gc > 0
    /\ so' = [so EXCEPT ![s].gc = @ - 1]
    /\ Begin(<< "gc", s >>, "gc", s)

\* The handler does not test the state of the connection again.
ConnRtoUntested(t) ==
    /\ Inside(t, "conn")
    /\ LET r == tcp_release_rto_timer(Sock(t))
       IN  \/ Step(t, tcp_rearm_rto_timer(r), "out")
           \/ Step(t, tcp_done([r EXCEPT !.err = "ETIMEDOUT"]), "done")

\* tcp_connect_rto: send the SYN again or give up.
ConnRtoIn(t) ==
    /\ Inside(t, "conn")
    /\ LET r == tcp_release_rto_timer(Sock(t))
       IN  IF r.tcp # "SYN_SENT" THEN Step(t, r, "out")
           ELSE \/ Step(t, tcp_rearm_rto_timer(r), "out")
                \/ Step(t, tcp_done([r EXCEPT !.err = "ETIMEDOUT"]), "done")

\* tcp_retransmission_timeout: the queue is empty (and in CLOSE_WAIT the user
\* is notified), or its head is sent again, or the connection is given up. The
\* queue outlives tcp_done.
RtoIn(t) ==
    /\ Inside(t, "rto")
    /\ LET r == tcp_release_rto_timer(Sock(t))
       IN  IF r.queued THEN Step(t, tcp_rearm_rto_timer(r), "out")
                            \/ Step(t, tcp_done(r), "done")
           ELSE Step(t, r, "out") \/ (r.tcp = "OPEN" /\ Step(t, r, "wake"))

\* tcp_linger and tcp_user_timeout.
LingerIn(t) ==
    /\ Inside(t, "linger")
    /\ Step(t, tcp_done([Sock(t) EXCEPT !.linger = "none"]), "done")

----------------------------------------------------------------------------
(* Freeing: socket_garbage_collect, and _connect after a failed attempt *)

\* The collector does not look the socket up again.
CollectUnfound(t) ==
    /\ pc[t] = "found" /\ op[t] = "gc" /\ slock = NoThread
    /\ pc' = [pc EXCEPT ![t] = "free1"] /\ Same
    /\ UNCHANGED so

socket_garbage_collect(t) ==
    /\ pc[t] = "found" /\ op[t] = "gc" /\ slock = NoThread
    /\ \/ Sock(t).listed /\ pc' = [pc EXCEPT ![t] = "free1"] /\ Same
       \/ ~Sock(t).listed /\ pc' = [pc EXCEPT ![t] = "idle"] /\ Leave(t)
    /\ UNCHANGED so

ConnectFailed(t) ==
    /\ pc[t] = "outfree"
    /\ Step(t, socket_release(Sock(t)), "free1")
    /\ Same

\* socket_free: the lock of the list, then the socket's; out of the list; the
\* struct sock is freed; the wait queue is woken and destroyed.
FreeLock(t) ==
    /\ pc[t] = "free1" /\ slock = NoThread
    /\ slock' = t
    /\ pc' = [pc EXCEPT ![t] = "free2"]
    /\ UNCHANGED << so, tgt, op, spurious, uaf, exiting >>

FreeUnlist(t) ==
    /\ pc[t] = "free2" /\ Sock(t).lock = NoThread
    /\ Step(t, [socket_wr_acquire(Sock(t), t) EXCEPT !.listed = FALSE], "free3")
    /\ slock' = NoThread
    /\ UNCHANGED << tgt, op, spurious, uaf, exiting >>

FreeSock(t) ==
    /\ pc[t] = "free3"
    /\ Step(t, [Sock(t) EXCEPT !.sk = "freed", !.frees = @ + 1,
                               !.by = IF op[t] = "gc" THEN "gc" ELSE "connect"], "free4")
    /\ Same

FreeWait(t) ==
    /\ pc[t] = "free4" /\ Sock(t).m = NoThread
    /\ StepWaking(t, [Sock(t) EXCEPT !.asleep = {}], "out", Sock(t).asleep, "woken")
    /\ Same

----------------------------------------------------------------------------
(* The end of the process: the core, timer and listener threads are cancelled *)
(* and joined, main aborts every socket in the list without any lock, and ends *)
(* the process. Other threads go on until then.                               *)

Unaborted == {s \in Socks : so[s].listed /\ ~so[s].aborted}

abort_sockets(s) ==
    /\ pc[Main] = "idle" /\ pc[Core] = "idle" /\ s \in Unaborted
    /\ exiting' = TRUE
    /\ so' = [so EXCEPT ![s] = [tcp_done(@) EXCEPT !.aborted = TRUE]]
    /\ pc' = [pc EXCEPT ![Main] = "done"]
    /\ tgt' = [tgt EXCEPT ![Main] = s]
    /\ op' = [op EXCEPT ![Main] = "abort"]
    /\ UNCHANGED << slock, spurious, uaf >>

AbortWake ==
    /\ pc[Main] = "done" /\ Sock(Main).m = NoThread
    /\ so' = [so EXCEPT ![tgt[Main]] = socket_delete([@ EXCEPT !.asleep = {}])]
    /\ pc' = [t \in Threads |->
                IF Unaborted = {} THEN "exited"
                ELSE IF t = Main THEN "idle"
                ELSE IF t \in Sock(Main).asleep THEN "woken" ELSE pc[t]]
    /\ Leave(Main)

----------------------------------------------------------------------------

CallNext ==
    \E s \in Socks, t \in Callers :
        \E o \in {"connect", "close", "read", "write", "poll", "query"} : Call(t, o, s)

ThreadStep(t) ==
    \/ Acquire(t) \/ Release(t) \/ TouchFreed(t)
    \/ Wake(t) \/ LockSleep(t) \/ Check(t) \/ WaitSleep(t)
    \/ ConnectIn(t) \/ CloseIn(t) \/ WriteIn(t) \/ ReadIn(t) \/ ReadAgain(t)
    \/ PollIn(t) \/ QueryIn(t)
    \/ ConnRtoIn(t) \/ RtoIn(t) \/ LingerIn(t)
    \/ socket_garbage_collect(t) \/ ConnectFailed(t)
    \/ FreeLock(t) \/ FreeUnlist(t) \/ FreeSock(t) \/ FreeWait(t)

Next ==
    \/ CallNext
    \/ \E t \in Threads : ThreadStep(t) \/ WakeSpuriously(t)
    \/ SegmentIn
    \/ \E s \in Socks : \/ Create(s) \/ Segment(s) \/ abort_sockets(s)
                        \/ ExpireRto(s) \/ ExpireLinger(s) \/ ExpireGc(s)
    \/ AbortWake

Spec == Init /\ [][Next]_vars

\* timers_tick goes on until the exit: a collector whose time comes again and
\* again is started.
Fairness == \A s \in Socks : SF_vars(ExpireGc(s))

FairSpec == Spec /\ Fairness

----------------------------------------------------------------------------
(* Properties *)

\* The thread whose lock t waits for, if any.
WaitsFor(t) ==
    CASE pc[t] = "free2" -> Sock(t).lock
      [] pc[t] \in {"found", "rwoken", "reacquire"} /\ op[t] # "gc" -> Sock(t).lock
      [] pc[t] \in {"lockm", "woken", "wake", "done", "free4"} -> Sock(t).m
      [] pc[t] = "free1" \/ (pc[t] = "found" /\ op[t] = "gc") -> slock
      [] OTHER -> NoThread

\* Threads that wait for one another in a circle.
Waiting == {t \in Threads : WaitsFor(t) # NoThread}
Circles == {S \in SUBSET Waiting : S # {} /\ \A t \in S : WaitsFor(t) \in S}

\* No threads wait for each other's locks for ever, except after a spurious
\* wake-up: connect() then holds sleep.lock and waits for the socket lock,
\* whose holder may be waiting for sleep.lock in wait_wakeup. At exit main
\* wakes sleepers without the socket lock, to the same effect.
NoDeadlock ==
    \A S \in Circles : S \cap spurious # {} \/ exiting

\* The reference count is one for the socket, one for the thread that has the
\* lock, and one for every connect() that has waited: it never reaches 0, so a
\* thread that found a socket always locks memory that is there.
RefcntExact ==
    \A s \in Socks : so[s].mem # "none" =>
        so[s].refcnt = 1 + so[s].doubled + (IF so[s].lock = NoThread THEN 0 ELSE 1)

\* The struct sock is freed once, though a failed connect() and the collector
\* may both set out to free it, and it is in the list only while it lives. The
\* exception is a connect() on a socket that was already given up: it frees the
\* socket again if the collector has found it and not yet taken it off the list.
FreedOnce ==
    \A s \in Socks : /\ so[s].frees <= 1 \/ so[s].reconnected
                     /\ so[s].listed => so[s].sk = "live"

\* A timer that tcp_done cancels never finds its struct sock freed, however
\* calls, segments, wake-ups and expiries interleave. Those that do were started
\* after tcp_done (a reset in CLOSING, a late retransmission, a late reader) or
\* released while they ran, or their thread was already waiting for the lock
\* when a failed connect() freed the struct sock at once.
FreedUses ==
    \A u \in uaf :
        u.untracked \/ u.by = "connect"

\* A socket that was given up, by whatever thread and however often, is taken
\* off the list and its struct sock freed, unless the process ends, provided the
\* threads that work on it come to rest again and again.
Collected ==
    \A s \in Socks : []<>Quiet(s) =>
        (so[s].ss = "DISCONNECTING" ~> so[s].sk = "freed" \/ exiting)

=============================================================================
