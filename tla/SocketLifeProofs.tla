-------------------------- MODULE SocketLifeProofs --------------------------
(***************************************************************************)
(* Module SocketLife for any number of sockets and of polling threads.     *)
(*                                                                         *)
(* Part 1: types, who holds the lock of a socket, and the reference count. *)
(***************************************************************************)
EXTENDS SocketLife, TLAPS

Rto(s) == << "rto", s >>
Linger(s) == << "linger", s >>
Gc(s) == << "gc", s >>

----------------------------------------------------------------------------
(* The first inductive invariant *)

\* The places of a thread that has the lock of its socket (main has none), of a
\* thread that does nothing, and of the calls that sleep or free.
Holding == {"in", "out", "outfree", "wake", "done", "lockm", "check", "rin",
            "free3", "free4"}
Resting == {"idle", "exited"}
ConnPlaces == {"lockm", "check", "towait", "asleep", "woken", "reacquire"}
ReadPlaces == {"rasleep", "rwoken", "rin"}
FreePlaces == {"free1", "free2", "free3", "free4"}
IpcOps == {"connect", "close", "read", "write", "query"}
TimerOps == {"conn", "rto", "linger"}

\* A socket by itself: its type; the reference count is exact; it is never
\* freed itself, and has no state before alloc_socket; who freed its struct
\* sock is known.
GoodSock(r) ==
    /\ r \in Socket
    /\ r.mem # "none" =>
          r.refcnt = 1 + r.doubled + (IF r.lock = NoThread THEN 0 ELSE 1)
    /\ r.mem = "live" \/ r = Unallocated
    /\ r.sk = "freed" => r.by \in {"connect", "gc"}

\* Which thread may be in which call on which socket, and at which place of it.
Role(t, x, o, p) ==
    /\ o \in IpcOps => t = Ipc(x)
    /\ o = "poll" => t \in Callers
    /\ o = "segment" => t = Core
    /\ o \in {"conn", "rto"} => t = Rto(x)
    /\ o = "linger" => t = Linger(x)
    /\ o = "gc" => t = Gc(x)
    /\ o = "abort" => t = Main
    /\ p \in ConnPlaces \cup {"outfree"} => o = "connect"
    /\ p \in ReadPlaces => o = "read"
    /\ p \in FreePlaces => o \in {"connect", "gc"}
    /\ p = "wake" => o \in {"segment", "rto"}
    /\ o = "gc" => p \in FreePlaces \cup {"found", "out", "exited"}
    /\ o \in TimerOps => p \in {"found", "in", "out", "wake", "done", "exited"}

\* A thread and the socket it works on.
Targets ==
    \A t \in Threads : pc[t] \notin Resting =>
        tgt[t] \in Socks /\ so[tgt[t]].mem = "live" /\ op[t] # "none"

HoldsLock ==
    \A t \in Threads : t # Main /\ pc[t] \in Holding => so[tgt[t]].lock = t

\* Only threads that sleep are counted as sleepers, each on its own socket.
Sleepers ==
    \A s \in Socks :
        /\ \A t \in so[s].asleep :
              tgt[t] = s /\ op[t] = "connect" /\ pc[t] \in {"asleep", "exited"}
        /\ \A t \in so[s].rasleep :
              tgt[t] = s /\ op[t] = "read" /\ pc[t] \in {"rasleep", "exited"}

Roles == \A t \in Threads : Role(t, tgt[t], op[t], pc[t])

Typed ==
    /\ so \in [Socks -> Socket] /\ \A s \in Socks : GoodSock(so[s])
    /\ slock \in Threads \cup {NoThread}
    /\ pc \in [Threads -> Pcs]
    /\ tgt \in [Threads -> Socks \cup {NoThread}]
    /\ op \in [Threads -> Ops]
    /\ spurious \subseteq Threads
    /\ uaf \subseteq [by : {"connect", "gc"}, untracked : BOOLEAN]
    /\ exiting \in BOOLEAN

LifeInv ==
    /\ Typed /\ Targets /\ HoldsLock /\ Sleepers /\ Roles
    /\ pc[Main] \in {"idle", "done", "exited"}

----------------------------------------------------------------------------
(* Threads *)

\* The kinds of threads are apart, and so are the threads of two sockets.
LEMMA ThreadsApart ==
    /\ Main \in Threads /\ Core \in Threads /\ Core # Main
    /\ Main \notin Callers /\ Main \notin TimerThreads
    /\ Core \notin Callers /\ Core \notin TimerThreads
    /\ Callers \cap TimerThreads = {}
    /\ \A s \in Socks :
          /\ Ipc(s) \in Callers /\ Ipc(s) \in Threads
          /\ Rto(s) \in TimerThreads /\ Linger(s) \in TimerThreads /\ Gc(s) \in TimerThreads
          /\ Rto(s) \in Threads /\ Linger(s) \in Threads /\ Gc(s) \in Threads
          /\ Rto(s) # Linger(s) /\ Rto(s) # Gc(s) /\ Linger(s) # Gc(s)
    /\ \A s, x : /\ Ipc(s) = Ipc(x) => s = x
                 /\ Rto(s) = Rto(x) => s = x
                 /\ Linger(s) = Linger(x) => s = x
                 /\ Gc(s) = Gc(x) => s = x
                 /\ Ipc(s) # Main /\ Ipc(s) # Core
                 /\ Rto(s) # Main /\ Rto(s) # Core /\ Rto(s) # Ipc(x)
                 /\ Linger(s) # Main /\ Linger(s) # Core /\ Linger(s) # Ipc(x)
                 /\ Gc(s) # Main /\ Gc(s) # Core /\ Gc(s) # Ipc(x)
                 /\ Rto(s) # Linger(x) /\ Rto(s) # Gc(x) /\ Linger(s) # Gc(x)
    /\ \A t \in TimerThreads : \E s \in Socks : t \in {Rto(s), Linger(s), Gc(s)}
    /\ TimerThreads \subseteq Threads /\ Callers \subseteq Threads
  BY DEF Threads, Callers, TimerThreads, Ipc, Core, Main, Rto, Linger, Gc

----------------------------------------------------------------------------
(* What TCP does to a socket *)

\* Nothing that concerns its memory, its locks, its sleepers or the collector.
SameLife(r, q) ==
    /\ q.mem = r.mem /\ q.sk = r.sk /\ q.by = r.by /\ q.frees = r.frees
    /\ q.listed = r.listed /\ q.refcnt = r.refcnt /\ q.doubled = r.doubled
    /\ q.lock = r.lock /\ q.m = r.m
    /\ q.asleep = r.asleep /\ q.rasleep = r.rasleep /\ q.gc = r.gc

\* Nor its state: only its timers.
SameState(r, q) ==
    /\ SameLife(r, q) /\ q.ss = r.ss /\ q.tcp = r.tcp /\ q.err = r.err
    /\ q.queued = r.queued /\ q.aborted = r.aborted /\ q.reconnected = r.reconnected

\* tcp_clear_timers.
LEMMA ClearTimersEffect ==
    ASSUME NEW r \in Socket
    PROVE  /\ tcp_clear_timers(r) \in Socket /\ SameState(r, tcp_clear_timers(r))
           /\ tcp_clear_timers(r).rto = "none" /\ tcp_clear_timers(r).linger = "none"
           /\ tcp_clear_timers(r).stray = r.stray
           /\ tcp_clear_timers(r).untracked = r.untracked
<1> DEFINE q == tcp_clear_timers(r)
<1>1. q \in Socket
  BY Zenon DEF tcp_clear_timers, Socket
<1>2. /\ SameState(r, q) /\ q.rto = "none" /\ q.linger = "none"
      /\ q.stray = r.stray /\ q.untracked = r.untracked
  BY DEF tcp_clear_timers, Socket, SameState, SameLife
<1> QED
  BY <1>1, <1>2

\* Starting a timer after tcp_done is remembered.
LEMMA StartedEffect ==
    ASSUME NEW r \in Socket
    PROVE  /\ Started(r) \in Socket /\ SameState(r, Started(r))
           /\ Started(r).rto = r.rto /\ Started(r).linger = r.linger
           /\ Started(r).stray = r.stray
           /\ r.ss = "DISCONNECTING" => Started(r).untracked
           /\ r.ss # "DISCONNECTING" => Started(r).untracked = r.untracked
           /\ r.untracked => Started(r).untracked
<1> DEFINE u == r.untracked \/ r.ss = "DISCONNECTING"
           q == [r EXCEPT !.untracked = u]
<1>1. Started(r) = q
  BY DEF Started
<1>2. /\ u \in BOOLEAN /\ (r.untracked => u) /\ (r.ss = "DISCONNECTING" => u)
      /\ (r.ss # "DISCONNECTING" => u = r.untracked)
  BY DEF Socket
<1> HIDE DEF u
<1>3. q \in Socket
  BY <1>2 DEF Socket
<1>4. /\ SameState(r, q) /\ q.untracked = u
      /\ q.rto = r.rto /\ q.linger = r.linger /\ q.stray = r.stray
  BY DEF Socket, SameState, SameLife
<1> QED
  BY <1>1, <1>2, <1>3, <1>4

\* tcp_release_rto_timer.
LEMMA ReleaseRtoEffect ==
    ASSUME NEW r \in Socket
    PROVE  LET q == tcp_release_rto_timer(r)
           IN  /\ q \in Socket /\ SameState(r, q)
               /\ q.rto = "none" /\ q.linger = r.linger
               /\ r.rto \notin {"conn", "rto"} =>
                     q.stray = r.stray /\ q.untracked = r.untracked
               /\ r.rto \in {"conn", "rto"} => q.stray /\ q.untracked
               /\ r.stray => q.stray
               /\ r.untracked => q.untracked
<1> DEFINE running == r.rto \in {"conn", "rto"}
           a == r.stray \/ running
           b == r.untracked \/ running
           q == [r EXCEPT !.stray = a, !.untracked = b, !.rto = "none"]
<1>1. tcp_release_rto_timer(r) = q
  BY DEF tcp_release_rto_timer
<1>2. /\ a \in BOOLEAN /\ b \in BOOLEAN /\ (r.stray => a) /\ (r.untracked => b)
      /\ (running => a /\ b) /\ (~running => a = r.stray /\ b = r.untracked)
  BY DEF Socket
<1> HIDE DEF a, b
<1>3. q \in Socket
  BY <1>2, Zenon DEF Socket
<1>4. /\ SameState(r, q) /\ q.untracked = b /\ q.stray = a
      /\ q.rto = "none" /\ q.linger = r.linger
  BY DEF Socket, SameState, SameLife
<1> QED
  BY <1>1, <1>2, <1>3, <1>4

\* The timers of a socket after r became q: a timer started or released is
\* remembered, and one that is not running is not set running untold.
TimersKept(r, q) ==
    /\ r.untracked => q.untracked
    /\ q.stray => r.stray \/ q.untracked
    /\ r.ss = "DISCONNECTING" /\ q.ss = "DISCONNECTING" /\ ~q.untracked =>
          /\ q.rto \in {"conn", "rto"} => r.rto \in {"conn", "rto"}
          /\ q.linger = "armed" => r.linger = "armed"

\* tcp_rearm_user_timeout.
LEMMA RearmUserEffect ==
    ASSUME NEW r \in Socket
    PROVE  LET q == tcp_rearm_user_timeout(r)
           IN  /\ q \in Socket /\ SameState(r, q) /\ TimersKept(r, q)
               /\ q.rto = r.rto /\ q.stray = r.stray
<1>1. CASE r.tcp = "TIME_WAIT"
  BY <1>1 DEF tcp_rearm_user_timeout, SameState, SameLife, TimersKept
<1>2. CASE r.tcp # "TIME_WAIT"
  <2> DEFINE a == [r EXCEPT !.linger = "armed"]
  <2>1. a \in Socket
    BY DEF Socket
  <2>2. /\ SameState(r, a) /\ a.rto = r.rto /\ a.stray = r.stray
        /\ a.untracked = r.untracked
    BY DEF Socket, SameState, SameLife
  <2>3. tcp_rearm_user_timeout(r) = Started(a)
    BY <1>2 DEF tcp_rearm_user_timeout
  <2> HIDE DEF a
  <2> QED
    BY <2>1, <2>2, <2>3, StartedEffect DEF SameState, SameLife, TimersKept
<1> QED
  BY <1>1, <1>2

\* The state and the timer that tcp_enter_time_wait sets.
LEMMA TimeWaitTyped ==
    ASSUME NEW c \in Socket
    PROVE  [c EXCEPT !.tcp = "TIME_WAIT", !.linger = "armed"] \in Socket
<1>1. "TIME_WAIT" \in TcpPhases
  BY DEF TcpPhases
<1> QED
  BY <1>1 DEF Socket

\* tcp_enter_time_wait.
LEMMA TimeWaitEffect ==
    ASSUME NEW r \in Socket
    PROVE  LET q == tcp_enter_time_wait(r)
           IN  /\ q \in Socket /\ SameLife(r, q) /\ TimersKept(r, q)
               /\ q.tcp = "TIME_WAIT" /\ q.rto = "none" /\ q.stray = r.stray
               /\ q.ss = r.ss /\ q.err = r.err /\ q.queued = r.queued
               /\ q.reconnected = r.reconnected
<1> DEFINE c == tcp_clear_timers(r)
           a == [c EXCEPT !.tcp = "TIME_WAIT", !.linger = "armed"]
<1>1. /\ c \in Socket /\ SameState(r, c) /\ c.rto = "none"
      /\ c.stray = r.stray /\ c.untracked = r.untracked
  BY ClearTimersEffect
<1>2. tcp_enter_time_wait(r) = Started(a)
  BY DEF tcp_enter_time_wait
<1> HIDE DEF c
<1>3. a \in Socket
  BY <1>1, TimeWaitTyped
<1>4. /\ SameLife(c, a) /\ a.rto = c.rto /\ a.stray = c.stray /\ a.tcp = "TIME_WAIT"
      /\ a.untracked = c.untracked /\ a.ss = c.ss /\ a.err = c.err
      /\ a.queued = c.queued /\ a.reconnected = c.reconnected
  BY <1>1 DEF Socket, SameLife
<1> HIDE DEF a
<1> QED
  BY <1>1, <1>2, <1>3, <1>4, StartedEffect DEF SameState, SameLife, TimersKept

\* tcp_rearm_rto_timer.
LEMMA RearmRtoEffect ==
    ASSUME NEW r \in Socket
    PROVE  LET q == tcp_rearm_rto_timer(r)
           IN  /\ q \in Socket /\ SameState(r, q) /\ TimersKept(r, q)
               /\ q.linger = r.linger
               /\ q.rto = IF r.tcp = "SYN_SENT" THEN "conn" ELSE "rto"
               /\ r.rto \notin {"conn", "rto"} => q.stray = r.stray
<1> DEFINE c == tcp_release_rto_timer(r)
           k == IF r.tcp = "SYN_SENT" THEN "conn" ELSE "rto"
           a == [c EXCEPT !.rto = k]
<1>1. /\ c \in Socket /\ SameState(r, c) /\ c.rto = "none" /\ c.linger = r.linger
      /\ r.rto \notin {"conn", "rto"} => c.stray = r.stray /\ c.untracked = r.untracked
      /\ r.rto \in {"conn", "rto"} => c.stray /\ c.untracked
      /\ r.untracked => c.untracked
  BY ReleaseRtoEffect
<1>2. tcp_rearm_rto_timer(r) = Started(a)
  BY DEF tcp_rearm_rto_timer
<1> HIDE DEF c
<1>3. k \in {"conn", "rto"}
  OBVIOUS
<1> HIDE DEF k
<1>4. a \in Socket
  BY <1>1, <1>3 DEF Socket
<1>5. /\ SameState(c, a) /\ a.rto = k /\ a.stray = c.stray /\ a.linger = c.linger
      /\ a.untracked = c.untracked
  BY <1>1 DEF Socket, SameState, SameLife
<1> HIDE DEF a
<1>6. LET q == Started(a)
      IN  /\ q \in Socket /\ SameState(r, q) /\ TimersKept(r, q)
          /\ q.linger = r.linger /\ q.rto = k
          /\ r.rto \notin {"conn", "rto"} => q.stray = r.stray
  BY <1>1, <1>4, <1>5, StartedEffect DEF SameState, SameLife, TimersKept
<1> QED
  BY <1>2, <1>6 DEF k

\* tcp_queue_transmit_skb.
LEMMA QueueTransmitEffect ==
    ASSUME NEW r \in Socket
    PROVE  LET q == tcp_queue_transmit_skb(r)
           IN  /\ q \in Socket /\ SameLife(r, q) /\ TimersKept(r, q)
               /\ q.ss = r.ss /\ q.tcp = r.tcp /\ q.err = r.err
               /\ q.reconnected = r.reconnected
               /\ q.linger = r.linger
               /\ ~r.queued => q.rto = IF r.tcp = "SYN_SENT" THEN "conn" ELSE "rto"
               /\ r.rto \notin {"conn", "rto"} => q.stray = r.stray
<1> DEFINE a == IF r.queued THEN r ELSE tcp_rearm_rto_timer(r)
           q == [a EXCEPT !.queued = TRUE]
<1>1. /\ a \in Socket /\ SameState(r, a) /\ TimersKept(r, a) /\ a.linger = r.linger
      /\ ~r.queued => a.rto = IF r.tcp = "SYN_SENT" THEN "conn" ELSE "rto"
      /\ r.rto \notin {"conn", "rto"} => a.stray = r.stray
  BY RearmRtoEffect DEF SameState, SameLife, TimersKept
<1>2. tcp_queue_transmit_skb(r) = q
  BY DEF tcp_queue_transmit_skb
<1> HIDE DEF a
<1>3. q \in Socket
  BY <1>1 DEF Socket
<1>4. /\ SameLife(a, q) /\ q.rto = a.rto /\ q.stray = a.stray /\ q.linger = a.linger
      /\ q.untracked = a.untracked /\ q.ss = a.ss /\ q.err = a.err
      /\ q.tcp = a.tcp /\ q.reconnected = a.reconnected
  BY <1>1 DEF Socket, SameLife
<1> HIDE DEF q
<1> QED
  BY <1>1, <1>2, <1>3, <1>4 DEF SameState, SameLife, TimersKept

\* What an acknowledgment may make of a socket.
LEMMA AckedEffect ==
    ASSUME NEW r \in Socket, NEW q \in Acked(r)
    PROVE  /\ q \in Socket /\ SameLife(r, q) /\ TimersKept(r, q)
           /\ q.ss = r.ss /\ q.tcp = r.tcp /\ q.err = r.err
           /\ q.reconnected = r.reconnected /\ q.linger = r.linger
           /\ q.stray = r.stray
           /\ ~r.queued => q = r
           /\ ~q.queued => q.rto = r.rto \/ q.rto = "none"
<1> DEFINE a == [r EXCEPT !.rto = "none"]
           b == [a EXCEPT !.queued = FALSE]
<1>1. a \in Socket
  BY DEF Socket
<1>2. /\ SameState(r, a) /\ a.rto = "none" /\ a.stray = r.stray /\ a.linger = r.linger
      /\ a.untracked = r.untracked
  BY DEF Socket, SameState, SameLife
<1>3. q = r \/ (r.queued /\ q = b) \/ (r.queued /\ q = tcp_rearm_rto_timer(a))
  BY DEF Acked
<1> HIDE DEF a
<1>4. b \in Socket
  BY <1>1 DEF Socket
<1>5. /\ SameLife(a, b) /\ b.rto = a.rto /\ b.stray = a.stray /\ b.linger = a.linger
      /\ b.untracked = a.untracked /\ b.ss = a.ss /\ b.err = a.err
      /\ b.tcp = a.tcp /\ b.reconnected = a.reconnected
  BY <1>1 DEF Socket, SameLife
<1> HIDE DEF b
<1>6. CASE q = r
  BY <1>6 DEF SameLife, TimersKept
<1>7. CASE r.queued /\ q = b
  BY <1>1, <1>2, <1>4, <1>5, <1>7 DEF SameState, SameLife, TimersKept
<1>8. CASE r.queued /\ q = tcp_rearm_rto_timer(a)
  <2>1. /\ q \in Socket /\ SameState(a, q) /\ TimersKept(a, q)
        /\ q.linger = a.linger /\ q.stray = a.stray
    BY <1>1, <1>2, <1>8, RearmRtoEffect
  <2>2. /\ SameLife(r, q) /\ q.ss = r.ss /\ q.tcp = r.tcp /\ q.err = r.err
        /\ q.reconnected = r.reconnected /\ q.queued
    BY <1>2, <1>8, <2>1 DEF SameState, SameLife
  <2>3. TimersKept(r, q)
    BY <1>2, <2>1 DEF SameState, TimersKept
  <2> QED
    BY <1>2, <1>8, <2>1, <2>2, <2>3
<1> QED
  BY <1>3, <1>6, <1>7, <1>8

\* tcp_done, up to its wake-up.
LEMMA DoneEffect ==
    ASSUME NEW r \in Socket
    PROVE  LET q == tcp_done(r)
           IN  /\ q \in Socket /\ SameLife(r, q)
               /\ q.tcp = "CLOSING" /\ q.rto = "none" /\ q.linger = "none"
               /\ q.stray = r.stray /\ q.untracked = r.untracked
               /\ q.ss = r.ss /\ q.err = r.err /\ q.queued = r.queued
               /\ q.reconnected = r.reconnected
<1> DEFINE c == tcp_clear_timers(r)
           q == [c EXCEPT !.tcp = "CLOSING"]
<1>1. /\ c \in Socket /\ SameState(r, c) /\ c.rto = "none" /\ c.linger = "none"
      /\ c.stray = r.stray /\ c.untracked = r.untracked
  BY ClearTimersEffect
<1>2. tcp_done(r) = q
  BY DEF tcp_done
<1> HIDE DEF c
<1>3. q \in Socket
  <2>1. "CLOSING" \in TcpPhases
    BY DEF TcpPhases
  <2> QED
    BY <1>1, <2>1 DEF Socket
<1>4. /\ SameLife(c, q) /\ q.rto = c.rto /\ q.stray = c.stray /\ q.tcp = "CLOSING"
      /\ q.linger = c.linger /\ q.untracked = c.untracked /\ q.ss = c.ss
      /\ q.err = c.err /\ q.queued = c.queued /\ q.reconnected = c.reconnected
  BY <1>1 DEF Socket, SameLife
<1> HIDE DEF q
<1> QED
  BY <1>1, <1>2, <1>3, <1>4 DEF SameState, SameLife

----------------------------------------------------------------------------
(* What the other operations do to a socket *)

\* All but the locks, the sleepers and the reference counts.
SameTcp(r, q) ==
    /\ q.mem = r.mem /\ q.sk = r.sk /\ q.by = r.by /\ q.frees = r.frees
    /\ q.listed = r.listed /\ q.gc = r.gc /\ q.ss = r.ss /\ q.tcp = r.tcp
    /\ q.err = r.err /\ q.rto = r.rto /\ q.linger = r.linger /\ q.stray = r.stray
    /\ q.queued = r.queued /\ q.untracked = r.untracked
    /\ q.reconnected = r.reconnected

\* What TCP does leaves a good socket good.
LEMMA SameLifeGood ==
    ASSUME NEW r, NEW q \in Socket, GoodSock(r), r.mem = "live", SameLife(r, q)
    PROVE  GoodSock(q) /\ q.mem = "live"
  BY DEF GoodSock, SameLife

\* socket_wr_acquire of a lock that is free.
LEMMA AcquireEffect ==
    ASSUME NEW r, GoodSock(r), r.mem = "live", r.lock = NoThread, NEW t \in Threads
    PROVE  LET q == socket_wr_acquire(r, t)
           IN  /\ GoodSock(q) /\ q.lock = t /\ SameTcp(r, q)
               /\ q.m = r.m /\ q.asleep = r.asleep /\ q.rasleep = r.rasleep
<1> DEFINE n == r.refcnt + 1
           q == [r EXCEPT !.lock = t, !.refcnt = n]
<1>1. socket_wr_acquire(r, t) = q
  BY DEF socket_wr_acquire
<1>2. n \in Nat /\ n = r.refcnt + 1 /\ r.refcnt = 1 + r.doubled
  BY DEF GoodSock, Socket
<1> HIDE DEF n
<1>3. q \in Socket
  BY <1>2, Zenon DEF GoodSock, Socket
<1>4. /\ q.lock = t /\ q.refcnt = n /\ q.doubled = r.doubled /\ SameTcp(r, q)
      /\ q.m = r.m /\ q.asleep = r.asleep /\ q.rasleep = r.rasleep
  BY DEF GoodSock, Socket, SameTcp
<1> HIDE DEF q
<1>5. r.doubled \in Nat /\ t # NoThread
  BY NoThreadApart DEF GoodSock, Socket
<1>6. q.refcnt = 1 + q.doubled + 1
  BY <1>2, <1>4, <1>5
<1>7. GoodSock(q)
  BY <1>3, <1>4, <1>5, <1>6 DEF GoodSock, SameTcp
<1> QED
  BY <1>1, <1>4, <1>7

\* socket_release by the holder: the count stays above 0.
LEMMA ReleaseEffect ==
    ASSUME NEW r, GoodSock(r), r.mem = "live", r.lock # NoThread
    PROVE  LET q == socket_release(r)
           IN  /\ GoodSock(q) /\ q.lock = NoThread /\ SameTcp(r, q)
               /\ q.m = r.m /\ q.asleep = r.asleep /\ q.rasleep = r.rasleep
<1> DEFINE n == r.refcnt - 1
           q == [r EXCEPT !.lock = NoThread, !.refcnt = n, !.mem = "live"]
<1>1. n \in Nat /\ n = 1 + r.doubled /\ r.refcnt # 1
  BY DEF GoodSock, Socket
<1>2. socket_release(r) = q
  BY <1>1 DEF socket_release
<1> HIDE DEF n
<1>3. q \in Socket
  BY <1>1 DEF GoodSock, Socket, Memory
<1>4. /\ q.lock = NoThread /\ q.refcnt = n /\ q.doubled = r.doubled /\ SameTcp(r, q)
      /\ q.m = r.m /\ q.asleep = r.asleep /\ q.rasleep = r.rasleep
  BY DEF GoodSock, Socket, SameTcp
<1> HIDE DEF q
<1>5. r.doubled \in Nat
  BY DEF GoodSock, Socket
<1>6. q.refcnt = 1 + q.doubled + 0
  BY <1>1, <1>4, <1>5
<1>7. GoodSock(q)
  BY <1>3, <1>4, <1>6 DEF GoodSock, SameTcp
<1> QED
  BY <1>2, <1>4, <1>7

\* sleep.lock is taken or given up.
LEMMA SleepLockEffect ==
    ASSUME NEW r, GoodSock(r), r.mem = "live", NEW h \in Threads \cup {NoThread}
    PROVE  LET q == [r EXCEPT !.m = h]
           IN  /\ GoodSock(q) /\ SameTcp(r, q) /\ q.lock = r.lock
               /\ q.m = h /\ q.asleep = r.asleep /\ q.rasleep = r.rasleep
<1> DEFINE q == [r EXCEPT !.m = h]
<1>1. q \in Socket
  BY DEF GoodSock, Socket
<1>2. /\ SameTcp(r, q) /\ q.lock = r.lock /\ q.refcnt = r.refcnt
      /\ q.doubled = r.doubled /\ q.m = h /\ q.asleep = r.asleep /\ q.rasleep = r.rasleep
  BY DEF GoodSock, Socket, SameTcp
<1> HIDE DEF q
<1>3. GoodSock(q)
  BY <1>1, <1>2 DEF GoodSock, SameTcp
<1> QED
  BY <1>2, <1>3 DEF q

\* Threads go to sleep on sock->sleep, or are woken.
LEMMA AsleepEffect ==
    ASSUME NEW r, GoodSock(r), r.mem = "live", NEW A \in SUBSET Threads
    PROVE  LET q == [r EXCEPT !.asleep = A]
           IN  /\ GoodSock(q) /\ SameTcp(r, q) /\ q.lock = r.lock
               /\ q.m = r.m /\ q.asleep = A /\ q.rasleep = r.rasleep
<1> DEFINE q == [r EXCEPT !.asleep = A]
<1>1. q \in Socket
  BY DEF GoodSock, Socket
<1>2. /\ SameTcp(r, q) /\ q.lock = r.lock /\ q.refcnt = r.refcnt
      /\ q.doubled = r.doubled /\ q.m = r.m /\ q.asleep = A /\ q.rasleep = r.rasleep
  BY DEF GoodSock, Socket, SameTcp
<1> HIDE DEF q
<1>3. GoodSock(q)
  BY <1>1, <1>2 DEF GoodSock, SameTcp
<1> QED
  BY <1>2, <1>3 DEF q

\* Threads go to sleep on sk->recv_wait, or are woken.
LEMMA RasleepEffect ==
    ASSUME NEW r, GoodSock(r), r.mem = "live", NEW B \in SUBSET Threads
    PROVE  LET q == [r EXCEPT !.rasleep = B]
           IN  /\ GoodSock(q) /\ SameTcp(r, q) /\ q.lock = r.lock
               /\ q.m = r.m /\ q.asleep = r.asleep /\ q.rasleep = B
<1> DEFINE q == [r EXCEPT !.rasleep = B]
<1>1. q \in Socket
  BY DEF GoodSock, Socket
<1>2. /\ SameTcp(r, q) /\ q.lock = r.lock /\ q.refcnt = r.refcnt
      /\ q.doubled = r.doubled /\ q.m = r.m /\ q.asleep = r.asleep /\ q.rasleep = B
  BY DEF GoodSock, Socket, SameTcp
<1> HIDE DEF q
<1>3. GoodSock(q)
  BY <1>1, <1>2 DEF GoodSock, SameTcp
<1> QED
  BY <1>2, <1>3 DEF q

----------------------------------------------------------------------------
(* Steps of threads *)

\* Thread t goes to p and its socket becomes q; whoever is no longer among the
\* sleepers has been woken.
Moved(t, q, p) ==
    /\ so' = [so EXCEPT ![tgt[t]] = q]
    /\ pc' \in [Threads -> Pcs] /\ pc'[t] = p
    /\ \A u \in Threads \ {t} :
          \/ pc'[u] = pc[u]
          \/ u \in Sock(t).asleep /\ u \notin q.asleep /\ pc'[u] = "woken"
          \/ u \in Sock(t).rasleep /\ u \notin q.rasleep /\ pc'[u] = "rwoken"

\* What the rest of the state has to keep.
RestTyped ==
    /\ slock' \in Threads \cup {NoThread} /\ spurious' \subseteq Threads
    /\ uaf' \subseteq [by : {"connect", "gc"}, untracked : BOOLEAN]
    /\ exiting' \in BOOLEAN

\* Thread t may leave its socket as q when it goes to p: it holds the lock where
\* it must, takes it from nobody, and sleeps where it says so.
MayLeave(t, q, p) ==
    /\ GoodSock(q) /\ q.mem = "live"
    /\ p \in Holding => q.lock = t
    /\ q.lock = Sock(t).lock \/ Sock(t).lock \in {NoThread, t}
    /\ q.asleep \subseteq Sock(t).asleep \cup {t}
    /\ t \in q.asleep => p = "asleep" /\ op[t] = "connect"
    /\ q.rasleep \subseteq Sock(t).rasleep \cup {t}
    /\ t \in q.rasleep => p = "rasleep" /\ op[t] = "read"

\* Such a step keeps the first invariant.
LEMMA MovedLife ==
    ASSUME LifeInv, NEW t \in Threads, t # Main, pc[t] \notin Resting,
           NEW q, NEW p \in Pcs \ Resting, Moved(t, q, p), MayLeave(t, q, p),
           Role(t, tgt[t], op[t], p), tgt' = tgt, op' = op, RestTyped
    PROVE  LifeInv'
<1> DEFINE s == tgt[t]
<1>1. s \in Socks /\ so[s].mem = "live" /\ Sock(t) = so[s]
  BY DEF LifeInv, Targets, Sock
<1>2. /\ so' \in [Socks -> Socket] /\ so'[s] = q
      /\ \A x \in Socks \ {s} : so'[x] = so[x]
  BY <1>1 DEF LifeInv, Typed, Moved, MayLeave, GoodSock
<1>3. Typed'
  BY <1>2 DEF LifeInv, Typed, RestTyped, Moved, MayLeave
<1>4. \A u \in Threads : pc'[u] \notin Resting => pc[u] \notin Resting \/ u \in so[s].asleep
                                                  \/ u \in so[s].rasleep
  BY <1>1 DEF Moved
<1>5. Targets'
  <2> SUFFICES ASSUME NEW u \in Threads, pc'[u] \notin Resting
               PROVE  tgt[u] \in Socks /\ so'[tgt[u]].mem = "live" /\ op[u] # "none"
    BY DEF Targets
  <2>1. tgt[u] \in Socks /\ so[tgt[u]].mem = "live" /\ op[u] # "none"
    BY <1>1, <1>4 DEF LifeInv, Targets, Sleepers
  <2> QED
    BY <1>2, <2>1 DEF MayLeave
<1>6. HoldsLock'
  <2> SUFFICES ASSUME NEW u \in Threads, u # Main, pc'[u] \in Holding
               PROVE  so'[tgt[u]].lock = u
    BY DEF HoldsLock
  <2>1. CASE u = t
    BY <1>2, <2>1 DEF Moved, MayLeave
  <2>2. CASE u # t
    <3>1. pc[u] \in Holding
      BY <2>2 DEF Moved, Holding
    <3>2. tgt[u] \in Socks /\ so[tgt[u]].lock = u
      BY <3>1 DEF LifeInv, HoldsLock, Targets, Holding, Resting
    <3>3. u # NoThread
      BY NoThreadApart
    <3> QED
      BY <1>1, <1>2, <2>2, <3>2, <3>3 DEF MayLeave
  <2> QED
    BY <2>1, <2>2
<1>7. Sleepers'
  <2> SUFFICES ASSUME NEW x \in Socks
               PROVE  /\ \A u \in so'[x].asleep :
                            tgt[u] = x /\ op[u] = "connect" /\ pc'[u] \in {"asleep", "exited"}
                      /\ \A u \in so'[x].rasleep :
                            tgt[u] = x /\ op[u] = "read" /\ pc'[u] \in {"rasleep", "exited"}
    BY DEF Sleepers
  <2>1. /\ \A u \in so[x].asleep :
              tgt[u] = x /\ op[u] = "connect" /\ pc[u] \in {"asleep", "exited"}
        /\ \A u \in so[x].rasleep :
              tgt[u] = x /\ op[u] = "read" /\ pc[u] \in {"rasleep", "exited"}
    BY DEF LifeInv, Sleepers
  <2>2. so[x].asleep \subseteq Threads /\ so[x].rasleep \subseteq Threads
    BY DEF LifeInv, Typed, Socket
  <2>3. CASE x = s
    <3>1. so'[x] = q
      BY <1>2, <2>3
    <3>2. ASSUME NEW u \in q.asleep
          PROVE  tgt[u] = x /\ op[u] = "connect" /\ pc'[u] \in {"asleep", "exited"}
      <4>1. CASE u = t
        BY <2>3, <3>2, <4>1 DEF Moved, MayLeave
      <4>2. CASE u # t
        <5>1. u \in so[x].asleep /\ u \in Threads
          BY <1>1, <2>2, <2>3, <3>2, <4>2 DEF MayLeave
        <5> QED
          BY <1>1, <2>1, <2>3, <3>2, <4>2, <5>1 DEF Moved
      <4> QED
        BY <4>1, <4>2
    <3>3. ASSUME NEW u \in q.rasleep
          PROVE  tgt[u] = x /\ op[u] = "read" /\ pc'[u] \in {"rasleep", "exited"}
      <4>1. CASE u = t
        BY <2>3, <3>3, <4>1 DEF Moved, MayLeave
      <4>2. CASE u # t
        <5>1. u \in so[x].rasleep /\ u \in Threads
          BY <1>1, <2>2, <2>3, <3>3, <4>2 DEF MayLeave
        <5> QED
          BY <1>1, <2>1, <2>3, <3>3, <4>2, <5>1 DEF Moved
      <4> QED
        BY <4>1, <4>2
    <3> QED
      BY <3>1, <3>2, <3>3
  <2>4. CASE x # s
    <3>1. so'[x] = so[x]
      BY <1>2, <2>4
    <3>2. \A u \in so[s].asleep \cup so[s].rasleep : tgt[u] = s
      BY <1>1 DEF LifeInv, Sleepers
    <3>3. \A u \in Threads : tgt[u] = x => pc'[u] = pc[u]
      BY <1>1, <2>4, <3>2 DEF Moved
    <3> QED
      BY <2>1, <2>2, <3>1, <3>3
  <2> QED
    BY <2>3, <2>4
<1>8. Roles'
  <2> SUFFICES ASSUME NEW u \in Threads PROVE Role(u, tgt[u], op[u], pc'[u])
    BY DEF Roles
  <2>1. Role(u, tgt[u], op[u], pc[u])
    BY DEF LifeInv, Roles
  <2>2. CASE u = t
    BY <2>2 DEF Moved
  <2>3. CASE u # t /\ pc'[u] # pc[u] /\ pc'[u] = "woken"
    <3>1. op[u] = "connect"
      BY <1>1, <2>3 DEF Moved, LifeInv, Sleepers
    <3> QED
      BY <2>1, <2>3, <3>1 DEF Role, ConnPlaces, ReadPlaces, FreePlaces, TimerOps, IpcOps
  <2>4. CASE u # t /\ pc'[u] # pc[u] /\ pc'[u] = "rwoken"
    <3>1. op[u] = "read"
      BY <1>1, <2>4 DEF Moved, LifeInv, Sleepers
    <3> QED
      BY <2>1, <2>4, <3>1 DEF Role, ConnPlaces, ReadPlaces, FreePlaces, TimerOps, IpcOps
  <2> QED
    BY <2>1, <2>2, <2>3, <2>4 DEF Moved
<1>9. pc'[Main] \in {"idle", "done", "exited"}
  <2>1. Main \notin so[s].asleep /\ Main \notin so[s].rasleep
    BY <1>1, ThreadsApart DEF LifeInv, Sleepers, Roles, Role, IpcOps
  <2> QED
    BY <1>1, <2>1, ThreadsApart DEF Moved, LifeInv
<1> QED
  BY <1>3, <1>5, <1>6, <1>7, <1>8, <1>9 DEF LifeInv

----------------------------------------------------------------------------
(* What a call, a segment or a timer handler does with the lock held *)

\* A thread in call o, at "in" or "rin", leaves socket r as q and goes to p.
Handled(o, r, q, p) ==
    /\ GoodSock(q)
    /\ q.mem = "live" /\ q.sk = r.sk /\ q.by = r.by /\ q.frees = r.frees
    /\ q.listed = r.listed /\ q.gc = r.gc /\ q.m = r.m /\ q.asleep = r.asleep
    /\ p \in {"out", "outfree", "wake", "done", "lockm", "rasleep"}
    /\ q.lock = IF p = "rasleep" THEN NoThread ELSE r.lock
    /\ TimersKept(r, q) /\ (r.reconnected => q.reconnected)
    /\ p = "done" => q.tcp = "CLOSING" /\ q.rto = "none" /\ q.linger = "none"
    /\ p = "wake" => q.tcp = "OPEN" /\ o \in {"segment", "rto"}
    /\ p = "outfree" => o = "connect" /\ q.reconnected
    /\ p = "rasleep" => o = "read"
    /\ p = "done" => o \in {"close", "segment"} \cup TimerOps
    /\ \/ q.ss = r.ss /\ (q.tcp = "SYN_SENT" => r.tcp = "SYN_SENT")
       \/ o = "connect" /\ r.ss = "UNCONNECTED" /\ q.ss = "CONNECTING"
       \/ o = "segment" /\ r.tcp = "SYN_SENT" /\ q.ss = "CONNECTED" /\ q.tcp = "OPEN"
    /\ p = "lockm" =>
          /\ o = "connect" /\ r.ss = "UNCONNECTED" /\ q.ss = "CONNECTING"
          /\ q.tcp = "SYN_SENT" /\ q.err = "EINPROGRESS" /\ q.linger = r.linger
          /\ ~r.queued => q.rto = "conn"
          /\ r.rto \notin {"conn", "rto"} => q.stray = r.stray

\* The timers and the queue are as they were.
SameTimers(r, q) ==
    /\ q.tcp = r.tcp /\ q.rto = r.rto /\ q.linger = r.linger /\ q.stray = r.stray
    /\ q.queued = r.queued

\* The state is as it was.
SamePhase(r, q) == q.ss = r.ss /\ q.tcp = r.tcp /\ q.err = r.err

\* In particular, a segment, tcp_connect_rto and what does nothing.
HandledBy(o, r, q, p) ==
    /\ Handled(o, r, q, p)
    /\ o \in {"poll", "query"} => SamePhase(r, q) /\ SameTimers(r, q) /\ p = "out"
    /\ r.tcp = "CLOSE" /\ q.ss = "UNCONNECTED" =>
          o \in TimerOps \cup {"read"} \/ SameTimers(r, q)
    /\ o = "conn" =>
          /\ q.linger = r.linger \/ p = "done"
          /\ r.rto \notin {"conn", "rto"} => q.stray = r.stray
          /\ q.ss = r.ss /\ q.queued = r.queued
          /\ \/ SamePhase(r, q) /\ p = "out" /\ r.tcp = "SYN_SENT" /\ q.rto = "conn"
             \/ SamePhase(r, q) /\ p = "out" /\ q.rto = "none"
             \/ r.tcp = "SYN_SENT" /\ p = "done" /\ q.err = "ETIMEDOUT"
    /\ o = "segment" =>
          /\ q.stray = r.stray
          /\ \/ SamePhase(r, q) /\ SameTimers(r, q) /\ p = "out"
             \/ /\ r.tcp = "SYN_SENT" /\ p = "wake" /\ q.ss = "CONNECTED"
                /\ q.err = "0" /\ ~q.queued /\ q.rto = "none"
             \/ /\ r.tcp = "SYN_SENT" /\ p = "done" /\ q.ss = r.ss
                /\ q.err = "ECONNREFUSED"
             \/ /\ r.tcp \in {"OPEN", "FINSENT"} /\ r.queued /\ p = "out"
                /\ SamePhase(r, q)
             \/ r.tcp = "FINSENT" /\ p = "done" /\ q.ss = r.ss
             \/ /\ r.tcp \in {"FINSENT", "CLOSING"} /\ p = "out" /\ ~q.queued
                /\ q.tcp = "TIME_WAIT" /\ q.ss = r.ss /\ q.err = r.err
                /\ q.rto \in {r.rto, "none"}
             \/ /\ r.tcp \in {"OPEN", "FINSENT", "TIME_WAIT", "CLOSING"} /\ p = "out"
                /\ q.tcp = "TIME_WAIT" /\ q.ss = r.ss /\ q.err = r.err
                /\ q.queued = r.queued /\ q.rto = "none"

\* A step of a handler, in this sense.
HandlerStep(t) ==
    /\ t # Main /\ pc[t] \in {"in", "rin"} /\ Sock(t).sk = "live" /\ Same
    /\ \E q, p : /\ Moved(t, q, p) /\ HandledBy(op[t], Sock(t), q, p)
                 /\ q.rasleep \subseteq Sock(t).rasleep \cup {t}
                 /\ t \in q.rasleep => p = "rasleep"
                 /\ pc[t] = "in" /\ op[t] = "read" /\ Sock(t).tcp = "CLOSE"
                       => SameTimers(Sock(t), q) /\ p = "out"

\* Step, in terms of Moved.
LEMMA StepMoved ==
    ASSUME LifeInv, NEW t \in Threads, NEW q, NEW p \in Pcs, Step(t, q, p)
    PROVE  Moved(t, q, p)
  BY DEF Step, Moved, LifeInv, Typed

\* A thread inside a call on a live socket.
LEMMA InsideFacts ==
    ASSUME LifeInv, NEW t \in Threads, pc[t] \in Holding, t # Main
    PROVE  /\ tgt[t] \in Socks /\ Sock(t) = so[tgt[t]] /\ GoodSock(Sock(t))
           /\ Sock(t) \in Socket /\ Sock(t).mem = "live" /\ Sock(t).lock = t
           /\ pc[t] \notin {"asleep", "rasleep"} 
           /\ t \notin Sock(t).asleep /\ t \notin Sock(t).rasleep
           /\ t # NoThread
<1>1. pc[t] \notin Resting /\ pc[t] \notin {"asleep", "rasleep", "exited"}
  BY DEF Holding, Resting
<1>2. tgt[t] \in Socks /\ Sock(t) = so[tgt[t]] /\ Sock(t).mem = "live" /\ Sock(t).lock = t
  BY <1>1 DEF LifeInv, Targets, HoldsLock, Sock
<1>3. GoodSock(Sock(t)) /\ Sock(t) \in Socket
  BY <1>2 DEF LifeInv, Typed, GoodSock
<1>4. t \notin Sock(t).asleep /\ t \notin Sock(t).rasleep
  BY <1>1, <1>2 DEF LifeInv, Sleepers
<1> QED
  BY <1>1, <1>2, <1>3, <1>4, NoThreadApart

\* What Inside says.
LEMMA InsideHolds ==
    ASSUME LifeInv, NEW t \in Threads, NEW o, Inside(t, o)
    PROVE  t # Main /\ pc[t] = "in" /\ pc[t] \in Holding /\ Sock(t).sk = "live"
           /\ op[t] = o /\ Same
  BY DEF Inside, LifeInv, Holding

\* A step that changes what TCP may change, and where the thread goes.
LEMMA HandlerStepBy ==
    ASSUME LifeInv, NEW t \in Threads, t # Main, pc[t] \in {"in", "rin"},
           Sock(t).sk = "live", Same,
           NEW q \in Socket, NEW p \in Pcs, Step(t, q, p), SameLife(Sock(t), q),
           HandledBy(op[t], Sock(t), q, p), p # "rasleep",
           pc[t] = "in" /\ op[t] = "read" /\ Sock(t).tcp = "CLOSE"
               => SameTimers(Sock(t), q) /\ p = "out"
    PROVE  HandlerStep(t)
<1>1. Moved(t, q, p)
  BY StepMoved
<1>2. q.rasleep = Sock(t).rasleep /\ t \notin Sock(t).rasleep
  BY InsideFacts DEF SameLife, Holding
<1> QED
  BY <1>1, <1>2 DEF HandlerStep

\* A socket changed as TCP may change it is handled, but for the state.
LEMMA HandledSame ==
    ASSUME NEW r, GoodSock(r), r.mem = "live", NEW q \in Socket, SameLife(r, q)
    PROVE  /\ GoodSock(q) /\ q.mem = "live" /\ q.sk = r.sk /\ q.by = r.by
           /\ q.frees = r.frees /\ q.listed = r.listed /\ q.gc = r.gc /\ q.m = r.m
           /\ q.asleep = r.asleep /\ q.lock = r.lock
  BY SameLifeGood DEF SameLife

\* A socket is not changed at all.
LEMMA HandledNot ==
    ASSUME NEW r, GoodSock(r), r.mem = "live", NEW o \in Ops \ {"conn"}
    PROVE  HandledBy(o, r, r, "out") /\ SameLife(r, r)
  BY DEF HandledBy, Handled, SamePhase, SameTimers, TimersKept, SameLife

\* poll(), fcntl() and the like change nothing.
LEMMA QueryStep ==
    ASSUME LifeInv, NEW t \in Threads, PollIn(t) \/ QueryIn(t)
    PROVE  HandlerStep(t)
<1>1. /\ t # Main /\ pc[t] = "in" /\ pc[t] \in Holding /\ Sock(t).sk = "live" /\ Same
      /\ op[t] \in {"poll", "query"} /\ Step(t, Sock(t), "out")
  BY InsideHolds DEF PollIn, QueryIn
<1>2. GoodSock(Sock(t)) /\ Sock(t) \in Socket /\ Sock(t).mem = "live"
  BY <1>1, InsideFacts
<1>3. HandledBy(op[t], Sock(t), Sock(t), "out") /\ SameLife(Sock(t), Sock(t))
  BY <1>1, <1>2, HandledNot DEF Ops
<1> QED
  BY <1>1, <1>2, <1>3, HandlerStepBy DEF Pcs

\* connect(): a first attempt is sent, a socket given up is freed again, and
\* otherwise an error is returned.
LEMMA ConnectStep ==
    ASSUME LifeInv, NEW t \in Threads, ConnectIn(t)
    PROVE  HandlerStep(t)
<1> DEFINE r == Sock(t)
           a == [r EXCEPT !.tcp = "SYN_SENT", !.ss = "CONNECTING", !.err = "EINPROGRESS"]
           c == tcp_queue_transmit_skb(a)
           d == [r EXCEPT !.err = "other", !.reconnected = TRUE]
           e == [r EXCEPT !.err = "other"]
<1>1. /\ t # Main /\ pc[t] = "in" /\ pc[t] \in Holding /\ r.sk = "live" /\ Same
      /\ op[t] = "connect"
  BY InsideHolds DEF ConnectIn
<1>2. GoodSock(r) /\ r \in Socket /\ r.mem = "live"
  BY <1>1, InsideFacts
<1>3. \/ r.ss = "UNCONNECTED" /\ \E p \in {"lockm", "out"} : Step(t, c, p)
      \/ r.ss = "DISCONNECTING" /\ Step(t, d, "outfree")
      \/ r.ss \notin {"UNCONNECTED", "DISCONNECTING"} /\ Step(t, e, "out")
  BY DEF ConnectIn
<1> HIDE DEF r
<1>4. CASE r.ss = "UNCONNECTED" /\ \E p \in {"lockm", "out"} : Step(t, c, p)
  <2>1. PICK p \in {"lockm", "out"} : Step(t, c, p)
    BY <1>4
  <2>2. a \in Socket
    <3>1. "SYN_SENT" \in TcpPhases
      BY DEF TcpPhases
    <3> QED
      BY <1>2, <3>1, Zenon DEF Socket
  <2>3. /\ SameLife(r, a) /\ a.tcp = "SYN_SENT" /\ a.ss = "CONNECTING"
        /\ a.err = "EINPROGRESS" /\ a.linger = r.linger /\ a.rto = r.rto
        /\ a.stray = r.stray /\ a.untracked = r.untracked /\ a.queued = r.queued
        /\ a.reconnected = r.reconnected
    BY <1>2 DEF Socket, SameLife
  <2> HIDE DEF a
  <2>4. /\ c \in Socket /\ SameLife(a, c) /\ TimersKept(a, c)
        /\ c.ss = a.ss /\ c.tcp = a.tcp /\ c.err = a.err
        /\ c.reconnected = a.reconnected /\ c.linger = a.linger
        /\ ~a.queued => c.rto = IF a.tcp = "SYN_SENT" THEN "conn" ELSE "rto"
        /\ a.rto \notin {"conn", "rto"} => c.stray = a.stray
    BY <2>2, QueueTransmitEffect
  <2> HIDE DEF c
  <2>5. SameLife(r, c)
    BY <2>3, <2>4 DEF SameLife
  <2>6. TimersKept(r, c)
    BY <1>4, <2>3, <2>4 DEF TimersKept
  <2>7. Handled("connect", r, c, p)
    BY <1>2, <1>4, <2>3, <2>4, <2>5, <2>6, HandledSame DEF Handled
  <2>8. HandledBy("connect", r, c, p)
    BY <2>3, <2>4, <2>7 DEF HandledBy
  <2> QED
    BY <1>1, <2>1, <2>4, <2>5, <2>8, HandlerStepBy DEF Pcs, r
<1>5. CASE r.ss = "DISCONNECTING" /\ Step(t, d, "outfree")
  <2>1. d \in Socket
    BY <1>2, Zenon DEF Socket
  <2>2. /\ SameLife(r, d) /\ SameTimers(r, d) /\ d.ss = r.ss /\ d.reconnected
        /\ d.untracked = r.untracked
    BY <1>2 DEF Socket, SameLife, SameTimers
  <2> HIDE DEF d
  <2>3. HandledBy("connect", r, d, "outfree")
    BY <1>2, <1>5, <2>1, <2>2, HandledSame DEF HandledBy, Handled, TimersKept, SameTimers, TimerOps
  <2> QED
    BY <1>1, <1>5, <2>1, <2>2, <2>3, HandlerStepBy DEF Pcs, r
<1>6. CASE r.ss \notin {"UNCONNECTED", "DISCONNECTING"} /\ Step(t, e, "out")
  <2>1. e \in Socket
    BY <1>2, Zenon DEF Socket
  <2>2. /\ SameLife(r, e) /\ SameTimers(r, e) /\ e.ss = r.ss
        /\ e.reconnected = r.reconnected /\ e.untracked = r.untracked
    BY <1>2 DEF Socket, SameLife, SameTimers
  <2> HIDE DEF e
  <2>3. HandledBy("connect", r, e, "out")
    BY <1>2, <1>6, <2>1, <2>2, HandledSame DEF HandledBy, Handled, TimersKept, SameTimers
  <2> QED
    BY <1>1, <1>6, <2>1, <2>2, <2>3, HandlerStepBy DEF Pcs, r
<1> QED
  BY <1>3, <1>4, <1>5, <1>6

\* close().
LEMMA CloseStep ==
    ASSUME LifeInv, NEW t \in Threads, CloseIn(t)
    PROVE  HandlerStep(t)
<1> DEFINE r == Sock(t)
           a == [r EXCEPT !.tcp = "FINSENT"]
           c == tcp_queue_transmit_skb(a)
           d == tcp_done(r)
           e == [r EXCEPT !.err = "other"]
<1>1. /\ t # Main /\ pc[t] = "in" /\ pc[t] \in Holding /\ r.sk = "live" /\ Same
      /\ op[t] = "close"
  BY InsideHolds DEF CloseIn
<1>2. GoodSock(r) /\ r \in Socket /\ r.mem = "live"
  BY <1>1, InsideFacts
<1>3. \/ r.tcp = "SYN_SENT" /\ Step(t, d, "done")
      \/ r.tcp = "OPEN" /\ Step(t, c, "out")
      \/ Step(t, e, "out")
  BY DEF CloseIn
<1> HIDE DEF r
<1>4. CASE r.tcp = "OPEN" /\ Step(t, c, "out")
  <2>2. a \in Socket
    <3>1. "FINSENT" \in TcpPhases
      BY DEF TcpPhases
    <3> QED
      BY <1>2, <3>1, Zenon DEF Socket
  <2>3. /\ SameLife(r, a) /\ a.tcp = "FINSENT" /\ a.ss = r.ss
        /\ a.linger = r.linger /\ a.rto = r.rto
        /\ a.stray = r.stray /\ a.untracked = r.untracked /\ a.queued = r.queued
        /\ a.reconnected = r.reconnected
    BY <1>2 DEF Socket, SameLife
  <2> HIDE DEF a
  <2>4. /\ c \in Socket /\ SameLife(a, c) /\ TimersKept(a, c)
        /\ c.ss = a.ss /\ c.tcp = a.tcp /\ c.err = a.err
        /\ c.reconnected = a.reconnected
    BY <2>2, QueueTransmitEffect
  <2> HIDE DEF c
  <2>5. SameLife(r, c)
    BY <2>3, <2>4 DEF SameLife
  <2>6. TimersKept(r, c)
    BY <2>3, <2>4 DEF TimersKept
  <2>7. HandledBy("close", r, c, "out")
    BY <1>2, <1>4, <2>3, <2>4, <2>5, <2>6, HandledSame DEF HandledBy, Handled
  <2> QED
    BY <1>1, <1>4, <2>4, <2>5, <2>7, HandlerStepBy DEF Pcs, r
<1>5. CASE r.tcp = "SYN_SENT" /\ Step(t, d, "done")
  <2>1. /\ d \in Socket /\ SameLife(r, d)
        /\ d.tcp = "CLOSING" /\ d.rto = "none" /\ d.linger = "none"
        /\ d.stray = r.stray /\ d.untracked = r.untracked
        /\ d.ss = r.ss /\ d.reconnected = r.reconnected
    BY <1>2, DoneEffect
  <2> HIDE DEF d
  <2>2. HandledBy("close", r, d, "done")
    BY <1>2, <1>5, <2>1, HandledSame DEF HandledBy, Handled, TimersKept
  <2> QED
    BY <1>1, <1>5, <2>1, <2>2, HandlerStepBy DEF Pcs, r
<1>6. CASE Step(t, e, "out")
  <2>1. e \in Socket
    BY <1>2, Zenon DEF Socket
  <2>2. /\ SameLife(r, e) /\ SameTimers(r, e) /\ e.ss = r.ss
        /\ e.reconnected = r.reconnected /\ e.untracked = r.untracked
    BY <1>2 DEF Socket, SameLife, SameTimers
  <2> HIDE DEF e
  <2>3. HandledBy("close", r, e, "out")
    BY <1>2, <1>6, <2>1, <2>2, HandledSame DEF HandledBy, Handled, TimersKept, SameTimers
  <2> QED
    BY <1>1, <1>6, <2>1, <2>2, <2>3, HandlerStepBy DEF Pcs, r
<1> QED
  BY <1>3, <1>4, <1>5, <1>6

\* write().
LEMMA WriteStep ==
    ASSUME LifeInv, NEW t \in Threads, WriteIn(t)
    PROVE  HandlerStep(t)
<1> DEFINE r == Sock(t)
           c == tcp_queue_transmit_skb(r)
           d == tcp_rearm_user_timeout(c)
<1>1. /\ t # Main /\ pc[t] = "in" /\ pc[t] \in Holding /\ r.sk = "live" /\ Same
      /\ op[t] = "write"
  BY InsideHolds DEF WriteIn
<1>2. GoodSock(r) /\ r \in Socket /\ r.mem = "live"
  BY <1>1, InsideFacts
<1>3. (r.tcp = "OPEN" /\ Step(t, d, "out")) \/ Step(t, r, "out")
  BY DEF WriteIn
<1> HIDE DEF r
<1>4. CASE r.tcp = "OPEN" /\ Step(t, d, "out")
  <2>1. /\ c \in Socket /\ SameLife(r, c) /\ TimersKept(r, c)
        /\ c.ss = r.ss /\ c.tcp = r.tcp /\ c.reconnected = r.reconnected
    BY <1>2, QueueTransmitEffect
  <2> HIDE DEF c
  <2>2. d \in Socket /\ SameState(c, d) /\ TimersKept(c, d)
    BY <2>1, RearmUserEffect
  <2> HIDE DEF d
  <2>3. /\ SameLife(r, d) /\ d.ss = r.ss /\ d.tcp = r.tcp
        /\ d.reconnected = r.reconnected
    BY <2>1, <2>2 DEF SameState, SameLife
  <2>4. TimersKept(r, d)
    BY <2>1, <2>2 DEF TimersKept
  <2>5. HandledBy("write", r, d, "out")
    BY <1>2, <1>4, <2>2, <2>3, <2>4, HandledSame DEF HandledBy, Handled
  <2> QED
    BY <1>1, <1>4, <2>2, <2>3, <2>5, HandlerStepBy DEF Pcs, r
<1>5. CASE Step(t, r, "out")
  <2>1. HandledBy("write", r, r, "out") /\ SameLife(r, r)
    BY <1>2, HandledNot DEF Ops
  <2> QED
    BY <1>1, <1>2, <1>5, <2>1, HandlerStepBy DEF Pcs, r
<1> QED
  BY <1>3, <1>4, <1>5

\* read(), at once or after a wake-up: what is there is returned, or the thread
\* gives up the lock and sleeps.
LEMMA ReceiveStep ==
    ASSUME LifeInv, NEW t \in Threads, t # Main, pc[t] \in {"in", "rin"},
           Sock(t).sk = "live", Same, op[t] = "read", Receive(t),
           pc[t] = "rin" \/ Sock(t).tcp # "CLOSE"
    PROVE  HandlerStep(t)
<1> DEFINE r == Sock(t)
           d == tcp_rearm_user_timeout(r)
           b == r.rasleep \cup {t}
           a == [r EXCEPT !.rasleep = b]
           q == socket_release(a)
<1>1. pc[t] \in Holding
  BY DEF Holding
<1>2. /\ GoodSock(r) /\ r \in Socket /\ r.mem = "live" /\ r.lock = t /\ t # NoThread
      /\ t \notin r.asleep /\ t \notin r.rasleep
  BY <1>1, InsideFacts
<1>3. Step(t, d, "out") \/ Step(t, q, "rasleep")
  BY DEF Receive
<1> HIDE DEF r
<1>4. CASE Step(t, d, "out")
  <2>1. d \in Socket /\ SameState(r, d) /\ TimersKept(r, d)
    BY <1>2, RearmUserEffect
  <2> HIDE DEF d
  <2>2. SameLife(r, d) /\ HandledBy("read", r, d, "out")
    BY <1>2, <2>1, HandledSame DEF HandledBy, Handled, SameState
  <2> QED
    BY <1>4, <2>1, <2>2, HandlerStepBy DEF Pcs, r
<1>5. CASE Step(t, q, "rasleep")
  <2>1. b \in SUBSET Threads /\ b = r.rasleep \cup {t}
    BY <1>2 DEF Socket
  <2> HIDE DEF b
  <2>2. /\ GoodSock(a) /\ SameTcp(r, a) /\ a.lock = r.lock /\ a.m = r.m
        /\ a.asleep = r.asleep /\ a.rasleep = b
    BY <1>2, <2>1, RasleepEffect
  <2> HIDE DEF a
  <2>3. /\ GoodSock(q) /\ q.lock = NoThread /\ SameTcp(a, q)
        /\ q.m = a.m /\ q.asleep = a.asleep /\ q.rasleep = a.rasleep
    BY <1>2, <2>2, ReleaseEffect DEF SameTcp
  <2> HIDE DEF q
  <2>4. SameTcp(r, q)
    BY <2>2, <2>3 DEF SameTcp
  <2>5. HandledBy("read", r, q, "rasleep")
    BY <1>2, <2>2, <2>3, <2>4 DEF HandledBy, Handled, SameTcp, TimersKept
  <2>6. Moved(t, q, "rasleep")
    BY <1>5, StepMoved DEF Pcs
  <2>7. q.rasleep \subseteq r.rasleep \cup {t}
    BY <2>1, <2>2, <2>3
  <2> QED
    BY <2>4, <2>5, <2>6, <2>7 DEF HandlerStep, SameTcp, SameTimers, r
<1> QED
  BY <1>3, <1>4, <1>5

\* read().
LEMMA ReadStep ==
    ASSUME LifeInv, NEW t \in Threads, ReadIn(t) \/ ReadAgain(t)
    PROVE  HandlerStep(t)
<1>1. CASE ReadIn(t)
  <2>1. /\ t # Main /\ pc[t] = "in" /\ pc[t] \in Holding /\ Sock(t).sk = "live" /\ Same
        /\ op[t] = "read"
    BY <1>1, InsideHolds DEF ReadIn
  <2>2. CASE Sock(t).tcp \in {"SYN_SENT", "OPEN"}
    BY <1>1, <2>1, <2>2, ReceiveStep DEF ReadIn
  <2>3. CASE Sock(t).tcp \notin {"SYN_SENT", "OPEN"}
    <3>1. Step(t, Sock(t), "out")
      BY <1>1, <2>3 DEF ReadIn
    <3>2. GoodSock(Sock(t)) /\ Sock(t) \in Socket /\ Sock(t).mem = "live"
      BY <2>1, InsideFacts
    <3>3. HandledBy("read", Sock(t), Sock(t), "out") /\ SameLife(Sock(t), Sock(t))
      BY <3>2, HandledNot DEF Ops
    <3> QED
      BY <2>1, <3>1, <3>2, <3>3, HandlerStepBy DEF Pcs, SameTimers
  <2> QED
    BY <2>2, <2>3
<1>2. CASE ReadAgain(t)
  <2>1. pc[t] = "rin" /\ Sock(t).sk = "live" /\ Receive(t) /\ Same
    BY <1>2 DEF ReadAgain
  <2>2. op[t] = "read" /\ t # Main
    BY <2>1 DEF LifeInv, Roles, Role, ReadPlaces
  <2> QED
    BY <2>1, <2>2, ReceiveStep
<1> QED
  BY <1>1, <1>2

\* tcp_connect_rto.
LEMMA ConnRtoStep ==
    ASSUME LifeInv, NEW t \in Threads, ConnRtoIn(t)
    PROVE  HandlerStep(t)
<1> DEFINE r == Sock(t)
           c == tcp_release_rto_timer(r)
           d == tcp_rearm_rto_timer(c)
           e == [c EXCEPT !.err = "ETIMEDOUT"]
           f == tcp_done(e)
<1>1. /\ t # Main /\ pc[t] = "in" /\ pc[t] \in Holding /\ r.sk = "live" /\ Same
      /\ op[t] = "conn"
  BY InsideHolds DEF ConnRtoIn
<1>2. GoodSock(r) /\ r \in Socket /\ r.mem = "live"
  BY <1>1, InsideFacts
<1>3. \/ Step(t, c, "out")
      \/ c.tcp = "SYN_SENT" /\ Step(t, d, "out")
      \/ c.tcp = "SYN_SENT" /\ Step(t, f, "done")
  BY DEF ConnRtoIn
<1>4. /\ c \in Socket /\ SameState(r, c) /\ c.rto = "none" /\ c.linger = r.linger
      /\ r.rto \notin {"conn", "rto"} => c.stray = r.stray /\ c.untracked = r.untracked
      /\ r.rto \in {"conn", "rto"} => c.stray /\ c.untracked
      /\ r.untracked => c.untracked
  BY <1>2, ReleaseRtoEffect
<1> HIDE DEF r, c
<1>5. TimersKept(r, c) /\ SameLife(r, c)
  BY <1>4 DEF TimersKept, SameState
<1>6. CASE Step(t, c, "out")
  <2>1. HandledBy("conn", r, c, "out")
    BY <1>2, <1>4, <1>5, HandledSame DEF HandledBy, Handled, SameState, SamePhase, TimerOps
  <2> QED
    BY <1>1, <1>4, <1>5, <1>6, <2>1, HandlerStepBy DEF Pcs, r
<1>7. CASE c.tcp = "SYN_SENT" /\ Step(t, d, "out")
  <2>1. /\ d \in Socket /\ SameState(c, d) /\ TimersKept(c, d)
        /\ d.linger = c.linger /\ d.rto = "conn" /\ d.stray = c.stray
    BY <1>4, <1>7, RearmRtoEffect
  <2> HIDE DEF d
  <2>2. SameState(r, d) /\ SameLife(r, d)
    BY <1>4, <2>1 DEF SameState, SameLife
  <2>3. TimersKept(r, d)
    BY <1>4, <1>5, <2>1 DEF TimersKept, SameState
  <2>4. HandledBy("conn", r, d, "out")
    BY <1>2, <1>4, <1>7, <2>1, <2>2, <2>3, HandledSame
       DEF HandledBy, Handled, SameState, SamePhase, TimerOps
  <2> QED
    BY <1>1, <1>7, <2>1, <2>2, <2>4, HandlerStepBy DEF Pcs, r
<1>8. CASE c.tcp = "SYN_SENT" /\ Step(t, f, "done")
  <2>1. e \in Socket
    BY <1>4, Zenon DEF Socket
  <2>2. /\ SameLife(c, e) /\ SameTimers(c, e) /\ e.ss = c.ss /\ e.err = "ETIMEDOUT"
        /\ e.reconnected = c.reconnected /\ e.untracked = c.untracked
    BY <1>4 DEF Socket, SameLife, SameTimers
  <2> HIDE DEF e
  <2>3. /\ f \in Socket /\ SameLife(e, f)
        /\ f.tcp = "CLOSING" /\ f.rto = "none" /\ f.linger = "none"
        /\ f.stray = e.stray /\ f.untracked = e.untracked
        /\ f.ss = e.ss /\ f.err = e.err /\ f.queued = e.queued
        /\ f.reconnected = e.reconnected
    BY <2>1, DoneEffect
  <2> HIDE DEF f
  <2>4. /\ SameLife(r, f) /\ f.ss = r.ss /\ f.reconnected = r.reconnected
        /\ f.queued = r.queued /\ r.tcp = "SYN_SENT" /\ f.err = "ETIMEDOUT"
        /\ f.stray = c.stray /\ f.untracked = c.untracked
    BY <1>4, <1>8, <2>2, <2>3 DEF SameState, SameLife, SameTimers
  <2>5. TimersKept(r, f)
    BY <1>5, <2>3, <2>4 DEF TimersKept
  <2>6. HandledBy("conn", r, f, "done")
    BY <1>2, <1>4, <2>3, <2>4, <2>5, HandledSame DEF HandledBy, Handled, TimerOps
  <2> QED
    BY <1>1, <1>8, <2>3, <2>4, <2>6, HandlerStepBy DEF Pcs, r
<1> QED
  BY <1>3, <1>6, <1>7, <1>8

\* tcp_retransmission_timeout.
LEMMA RtoStep ==
    ASSUME LifeInv, NEW t \in Threads, RtoIn(t)
    PROVE  HandlerStep(t)
<1> DEFINE r == Sock(t)
           c == tcp_release_rto_timer(r)
           d == tcp_rearm_rto_timer(c)
           f == tcp_done(c)
<1>1. /\ t # Main /\ pc[t] = "in" /\ pc[t] \in Holding /\ r.sk = "live" /\ Same
      /\ op[t] = "rto"
  BY InsideHolds DEF RtoIn
<1>2. GoodSock(r) /\ r \in Socket /\ r.mem = "live"
  BY <1>1, InsideFacts
<1>3. \/ Step(t, c, "out") \/ (c.tcp = "OPEN" /\ Step(t, c, "wake"))
      \/ Step(t, d, "out") \/ Step(t, f, "done")
  BY DEF RtoIn
<1>4. /\ c \in Socket /\ SameState(r, c) /\ c.rto = "none" /\ c.linger = r.linger
      /\ r.rto \notin {"conn", "rto"} => c.stray = r.stray /\ c.untracked = r.untracked
      /\ r.rto \in {"conn", "rto"} => c.stray /\ c.untracked
      /\ r.untracked => c.untracked
  BY <1>2, ReleaseRtoEffect
<1> HIDE DEF r, c
<1>5. TimersKept(r, c) /\ SameLife(r, c)
  BY <1>4 DEF TimersKept, SameState
<1>6. CASE Step(t, c, "out")
  <2>1. HandledBy("rto", r, c, "out")
    BY <1>2, <1>4, <1>5, HandledSame DEF HandledBy, Handled, SameState, TimerOps
  <2> QED
    BY <1>1, <1>4, <1>5, <1>6, <2>1, HandlerStepBy DEF Pcs, r
<1>7. CASE c.tcp = "OPEN" /\ Step(t, c, "wake")
  <2>1. HandledBy("rto", r, c, "wake")
    BY <1>2, <1>4, <1>5, <1>7, HandledSame DEF HandledBy, Handled, SameState, TimerOps
  <2> QED
    BY <1>1, <1>4, <1>5, <1>7, <2>1, HandlerStepBy DEF Pcs, r
<1>8. CASE Step(t, d, "out")
  <2>1. d \in Socket /\ SameState(c, d) /\ TimersKept(c, d)
    BY <1>4, RearmRtoEffect
  <2> HIDE DEF d
  <2>2. SameState(r, d) /\ SameLife(r, d)
    BY <1>4, <2>1 DEF SameState, SameLife
  <2>3. TimersKept(r, d)
    BY <1>4, <1>5, <2>1 DEF TimersKept, SameState
  <2>4. HandledBy("rto", r, d, "out")
    BY <1>2, <2>1, <2>2, <2>3, HandledSame DEF HandledBy, Handled, SameState, TimerOps
  <2> QED
    BY <1>1, <1>8, <2>1, <2>2, <2>4, HandlerStepBy DEF Pcs, r
<1>9. CASE Step(t, f, "done")
  <2>1. /\ f \in Socket /\ SameLife(c, f)
        /\ f.tcp = "CLOSING" /\ f.rto = "none" /\ f.linger = "none"
        /\ f.stray = c.stray /\ f.untracked = c.untracked
        /\ f.ss = c.ss /\ f.reconnected = c.reconnected
    BY <1>4, DoneEffect
  <2> HIDE DEF f
  <2>2. SameLife(r, f) /\ f.ss = r.ss /\ f.reconnected = r.reconnected
    BY <1>4, <2>1 DEF SameState, SameLife
  <2>3. TimersKept(r, f)
    BY <1>5, <2>1 DEF TimersKept
  <2>4. HandledBy("rto", r, f, "done")
    BY <1>2, <2>1, <2>2, <2>3, HandledSame DEF HandledBy, Handled, TimerOps
  <2> QED
    BY <1>1, <1>9, <2>1, <2>2, <2>4, HandlerStepBy DEF Pcs, r
<1> QED
  BY <1>3, <1>6, <1>7, <1>8, <1>9

\* tcp_linger and tcp_user_timeout.
LEMMA LingerStep ==
    ASSUME LifeInv, NEW t \in Threads, LingerIn(t)
    PROVE  HandlerStep(t)
<1> DEFINE r == Sock(t)
           c == [r EXCEPT !.linger = "none"]
           f == tcp_done(c)
<1>1. /\ t # Main /\ pc[t] = "in" /\ pc[t] \in Holding /\ r.sk = "live" /\ Same
      /\ op[t] = "linger" /\ Step(t, f, "done")
  BY InsideHolds DEF LingerIn
<1>2. GoodSock(r) /\ r \in Socket /\ r.mem = "live"
  BY <1>1, InsideFacts
<1> HIDE DEF r
<1>3. c \in Socket
  BY <1>2, Zenon DEF Socket
<1>4. /\ SameState(r, c) /\ c.stray = r.stray /\ c.untracked = r.untracked
  BY <1>2 DEF Socket, SameState, SameLife
<1> HIDE DEF c
<1>5. /\ f \in Socket /\ SameLife(c, f)
      /\ f.tcp = "CLOSING" /\ f.rto = "none" /\ f.linger = "none"
      /\ f.stray = c.stray /\ f.untracked = c.untracked
      /\ f.ss = c.ss /\ f.reconnected = c.reconnected
  BY <1>3, DoneEffect
<1> HIDE DEF f
<1>6. SameLife(r, f) /\ f.ss = r.ss /\ f.reconnected = r.reconnected
  BY <1>4, <1>5 DEF SameState, SameLife
<1>7. TimersKept(r, f)
  BY <1>4, <1>5 DEF TimersKept
<1>8. HandledBy("linger", r, f, "done")
  BY <1>2, <1>5, <1>6, <1>7, HandledSame DEF HandledBy, Handled, TimerOps
<1> QED
  BY <1>1, <1>5, <1>6, <1>8, HandlerStepBy DEF Pcs, r

\* A segment that also wakes the readers.
LEMMA NotifyStep ==
    ASSUME LifeInv, Inside(Core, "segment"), NEW q \in Socket, Notify(Core, q),
           SameLife(Sock(Core), q), HandledBy("segment", Sock(Core), q, "out")
    PROVE  HandlerStep(Core)
<1> DEFINE r == Sock(Core)
           n == [q EXCEPT !.rasleep = {}]
<1>1. /\ Core \in Threads /\ Core # Main /\ pc[Core] = "in" /\ pc[Core] \in Holding
      /\ r.sk = "live" /\ op[Core] = "segment" /\ Same
  BY InsideHolds, ThreadsApart
<1>2. /\ GoodSock(r) /\ r \in Socket /\ r.mem = "live" /\ Core \notin r.rasleep
  BY <1>1, InsideFacts
<1>3. GoodSock(q) /\ q.mem = "live" /\ q.rasleep = r.rasleep
  BY <1>2, HandledSame DEF SameLife
<1>4. /\ GoodSock(n) /\ SameTcp(q, n) /\ n.lock = q.lock
      /\ n.m = q.m /\ n.asleep = q.asleep /\ n.rasleep = {}
  BY <1>3, RasleepEffect
<1>5. StepWaking(Core, n, "out", q.rasleep, "rwoken")
  BY DEF Notify
<1>6. Moved(Core, n, "out")
  BY <1>1, <1>3, <1>4, <1>5 DEF StepWaking, Moved, LifeInv, Typed, Pcs
<1> HIDE DEF r, n
<1>7. HandledBy("segment", r, q, "out")
  BY DEF r
<1>8. Handled("segment", r, n, "out")
  BY <1>3, <1>4, <1>7 DEF HandledBy, Handled, SameTcp, TimersKept
<1>9. HandledBy("segment", r, n, "out")
  BY <1>4, <1>7, <1>8 DEF HandledBy, SameTcp, SamePhase, SameTimers
<1> QED
  BY <1>1, <1>4, <1>6, <1>9 DEF HandlerStep, r

\* tcp_input_state.
LEMMA SegmentStep ==
    ASSUME LifeInv, SegmentIn
    PROVE  HandlerStep(Core)
<1> DEFINE r == Sock(Core)
           a == [r EXCEPT !.tcp = "OPEN", !.rto = "none", !.queued = FALSE,
                          !.ss = "CONNECTED", !.err = "0"]
           b == tcp_rearm_user_timeout(a)
           c == [r EXCEPT !.err = "ECONNREFUSED"]
           d == tcp_done(c)
           e == tcp_done(r)
           f == tcp_enter_time_wait(r)
<1>1. /\ Core \in Threads /\ Core # Main /\ pc[Core] = "in" /\ pc[Core] \in Holding
      /\ r.sk = "live" /\ op[Core] = "segment" /\ Same /\ Inside(Core, "segment")
  BY InsideHolds, ThreadsApart DEF SegmentIn
<1>2. GoodSock(r) /\ r \in Socket /\ r.mem = "live"
  BY <1>1, InsideFacts
<1>3. \/ Step(Core, r, "out")
      \/ r.tcp = "SYN_SENT" /\ Step(Core, b, "wake")
      \/ r.tcp = "SYN_SENT" /\ Step(Core, d, "done")
      \/ r.tcp \in {"OPEN", "FINSENT"} /\ \E q \in Acked(r) : Step(Core, q, "out") \/ Notify(Core, q)
      \/ r.tcp = "FINSENT" /\ Step(Core, e, "done")
      \/ r.tcp \in {"FINSENT", "CLOSING"} /\
            \E q \in Acked(r) : ~q.queued /\ Step(Core, [q EXCEPT !.tcp = "TIME_WAIT"], "out")
      \/ r.tcp \in {"OPEN", "FINSENT", "TIME_WAIT", "CLOSING"} /\ Notify(Core, f)
  BY DEF SegmentIn
<1> HIDE DEF r
<1>4. CASE Step(Core, r, "out")
  <2>1. HandledBy("segment", r, r, "out") /\ SameLife(r, r)
    BY <1>2, HandledNot DEF Ops
  <2> QED
    BY <1>1, <1>2, <1>4, <2>1, HandlerStepBy DEF Pcs, r
<1>5. CASE r.tcp = "SYN_SENT" /\ Step(Core, b, "wake")
  <2>1. a \in Socket
    <3>1. "OPEN" \in TcpPhases
      BY DEF TcpPhases
    <3> QED
      BY <1>2, <3>1, Zenon DEF Socket
  <2>2. /\ SameLife(r, a) /\ a.tcp = "OPEN" /\ a.rto = "none" /\ ~a.queued
        /\ a.ss = "CONNECTED" /\ a.err = "0" /\ a.stray = r.stray
        /\ a.untracked = r.untracked /\ a.reconnected = r.reconnected
        /\ a.linger = r.linger
    BY <1>2 DEF Socket, SameLife
  <2> HIDE DEF a
  <2>3. /\ b \in Socket /\ SameState(a, b) /\ TimersKept(a, b)
        /\ b.rto = a.rto /\ b.stray = a.stray
    BY <2>1, RearmUserEffect
  <2> HIDE DEF b
  <2>5. /\ SameLife(r, b) /\ b.tcp = "OPEN" /\ b.ss = "CONNECTED" /\ b.err = "0"
        /\ ~b.queued /\ b.reconnected = r.reconnected
    BY <2>2, <2>3 DEF SameState, SameLife
  <2>6. TimersKept(r, b)
    BY <2>2, <2>3, <2>5 DEF TimersKept
  <2>7. HandledBy("segment", r, b, "wake")
    BY <1>2, <1>5, <2>2, <2>3, <2>5, <2>6, HandledSame DEF HandledBy, Handled
  <2> QED
    BY <1>1, <1>5, <2>3, <2>5, <2>7, HandlerStepBy DEF Pcs, r
<1>6. CASE r.tcp = "SYN_SENT" /\ Step(Core, d, "done")
  <2>1. c \in Socket
    BY <1>2, Zenon DEF Socket
  <2>2. /\ SameLife(r, c) /\ c.err = "ECONNREFUSED" /\ c.ss = r.ss
        /\ c.stray = r.stray /\ c.untracked = r.untracked
        /\ c.reconnected = r.reconnected
    BY <1>2 DEF Socket, SameLife
  <2> HIDE DEF c
  <2>3. /\ d \in Socket /\ SameLife(c, d)
        /\ d.tcp = "CLOSING" /\ d.rto = "none" /\ d.linger = "none"
        /\ d.stray = c.stray /\ d.untracked = c.untracked
        /\ d.ss = c.ss /\ d.err = c.err /\ d.reconnected = c.reconnected
    BY <2>1, DoneEffect
  <2> HIDE DEF d
  <2>4. SameLife(r, d)
    BY <2>2, <2>3 DEF SameLife
  <2>5. HandledBy("segment", r, d, "done")
    BY <1>2, <1>6, <2>2, <2>3, <2>4, HandledSame DEF HandledBy, Handled, TimersKept
  <2> QED
    BY <1>1, <1>6, <2>3, <2>4, <2>5, HandlerStepBy DEF Pcs, r
<1>7. CASE r.tcp \in {"OPEN", "FINSENT"} /\ \E q \in Acked(r) : Step(Core, q, "out") \/ Notify(Core, q)
  <2>1. PICK q \in Acked(r) : Step(Core, q, "out") \/ Notify(Core, q)
    BY <1>7
  <2>2. /\ q \in Socket /\ SameLife(r, q) /\ TimersKept(r, q)
        /\ q.ss = r.ss /\ q.tcp = r.tcp /\ q.err = r.err
        /\ q.reconnected = r.reconnected /\ q.linger = r.linger
        /\ q.stray = r.stray /\ (~r.queued => q = r)
    BY <1>2, AckedEffect
  <2>3. Handled("segment", r, q, "out")
    BY <1>2, <1>7, <2>2, HandledSame DEF Handled
  <2>4. HandledBy("segment", r, q, "out")
    BY <1>2, <1>7, <2>2, <2>3 DEF HandledBy, SamePhase, SameTimers, Socket
  <2> QED
    BY <1>1, <2>1, <2>2, <2>4, HandlerStepBy, NotifyStep DEF Pcs, r
<1>8. CASE r.tcp = "FINSENT" /\ Step(Core, e, "done")
  <2>1. /\ e \in Socket /\ SameLife(r, e)
        /\ e.tcp = "CLOSING" /\ e.rto = "none" /\ e.linger = "none"
        /\ e.stray = r.stray /\ e.untracked = r.untracked
        /\ e.ss = r.ss /\ e.reconnected = r.reconnected
    BY <1>2, DoneEffect
  <2> HIDE DEF e
  <2>2. HandledBy("segment", r, e, "done")
    BY <1>2, <1>8, <2>1, HandledSame DEF HandledBy, Handled, TimersKept
  <2> QED
    BY <1>1, <1>8, <2>1, <2>2, HandlerStepBy DEF Pcs, r
<1>9. CASE r.tcp \in {"FINSENT", "CLOSING"} /\
            \E q \in Acked(r) : ~q.queued /\ Step(Core, [q EXCEPT !.tcp = "TIME_WAIT"], "out")
  <2>1. PICK q \in Acked(r) : ~q.queued /\ Step(Core, [q EXCEPT !.tcp = "TIME_WAIT"], "out")
    BY <1>9
  <2> DEFINE n == [q EXCEPT !.tcp = "TIME_WAIT"]
  <2>2. /\ q \in Socket /\ SameLife(r, q) /\ TimersKept(r, q)
        /\ q.ss = r.ss /\ q.tcp = r.tcp /\ q.err = r.err
        /\ q.reconnected = r.reconnected /\ q.linger = r.linger
        /\ q.stray = r.stray /\ (q.rto = r.rto \/ q.rto = "none")
    BY <1>2, <2>1, AckedEffect
  <2>3. n \in Socket
    <3>1. "TIME_WAIT" \in TcpPhases
      BY DEF TcpPhases
    <3> QED
      BY <2>2, <3>1, Zenon DEF Socket
  <2>4. /\ SameLife(q, n) /\ n.tcp = "TIME_WAIT" /\ n.ss = q.ss /\ n.err = q.err
        /\ n.reconnected = q.reconnected /\ n.linger = q.linger /\ n.stray = q.stray
        /\ n.rto = q.rto /\ n.queued = q.queued /\ n.untracked = q.untracked
    BY <2>2 DEF Socket, SameLife
  <2>5. Step(Core, n, "out") /\ ~n.queued
    BY <2>1, <2>4
  <2> HIDE DEF n
  <2>6. SameLife(r, n)
    BY <2>2, <2>4 DEF SameLife
  <2>7. TimersKept(r, n)
    BY <2>2, <2>4 DEF TimersKept
  <2>8. HandledBy("segment", r, n, "out")
    BY <1>2, <1>9, <2>2, <2>3, <2>4, <2>5, <2>6, <2>7, HandledSame DEF HandledBy, Handled
  <2> QED
    BY <1>1, <2>3, <2>5, <2>6, <2>8, HandlerStepBy DEF Pcs, r
<1>10. CASE r.tcp \in {"OPEN", "FINSENT", "TIME_WAIT", "CLOSING"} /\ Notify(Core, f)
  <2>1. /\ f \in Socket /\ SameLife(r, f) /\ TimersKept(r, f)
        /\ f.tcp = "TIME_WAIT" /\ f.rto = "none" /\ f.stray = r.stray
        /\ f.ss = r.ss /\ f.err = r.err /\ f.queued = r.queued
        /\ f.reconnected = r.reconnected
    BY <1>2, TimeWaitEffect
  <2> HIDE DEF f
  <2>2. HandledBy("segment", r, f, "out")
    BY <1>2, <1>10, <2>1, HandledSame DEF HandledBy, Handled
  <2> QED
    BY <1>1, <1>10, <2>1, <2>2, NotifyStep DEF r
<1> QED
  BY <1>3, <1>4, <1>5, <1>6, <1>7, <1>8, <1>9, <1>10

\* Whatever a handler does keeps the first invariant.
LEMMA HandlerLife ==
    ASSUME LifeInv, NEW t \in Threads, HandlerStep(t)
    PROVE  LifeInv'
<1>1. PICK q, p : /\ Moved(t, q, p) /\ HandledBy(op[t], Sock(t), q, p)
                  /\ q.rasleep \subseteq Sock(t).rasleep \cup {t}
                  /\ t \in q.rasleep => p = "rasleep"
  BY DEF HandlerStep
<1>2. /\ t # Main /\ pc[t] \in {"in", "rin"} /\ Same /\ pc[t] \in Holding
      /\ pc[t] \notin Resting
  BY DEF HandlerStep, Holding, Resting
<1>3. /\ Sock(t).lock = t /\ t # NoThread /\ t \notin Sock(t).asleep
      /\ t \notin Sock(t).rasleep
  BY <1>2, InsideFacts
<1>4. Role(t, tgt[t], op[t], pc[t])
  BY DEF LifeInv, Roles
<1>5. Handled(op[t], Sock(t), q, p)
  BY <1>1 DEF HandledBy
<1>6. MayLeave(t, q, p)
  BY <1>1, <1>3, <1>5 DEF MayLeave, Handled, Holding
<1>7. op[t] # "gc"
  BY <1>2, <1>4 DEF Role, FreePlaces
<1>8. op[t] \in TimerOps => p \in {"out", "wake", "done"}
  BY <1>5 DEF Handled, TimerOps
<1>9. Role(t, tgt[t], op[t], p)
  BY <1>4, <1>5, <1>7, <1>8 DEF Role, Handled, ConnPlaces, ReadPlaces, FreePlaces
<1>10. p \in Pcs \ Resting
  BY <1>5 DEF Handled, Pcs, Resting
<1>11. tgt' = tgt /\ op' = op /\ RestTyped
  BY <1>2 DEF Same, RestTyped, LifeInv, Typed
<1> QED
  BY <1>1, <1>2, <1>6, <1>9, <1>10, <1>11, MovedLife

----------------------------------------------------------------------------
(* Locking, waiting, waking and freeing *)

\* A thread that is somewhere has a live socket, and is not main unless it is
\* about to wake the sleepers at exit.
LEMMA BusyFacts ==
    ASSUME LifeInv, NEW t \in Threads, pc[t] \notin Resting
    PROVE  /\ tgt[t] \in Socks /\ Sock(t) = so[tgt[t]] /\ GoodSock(Sock(t))
           /\ Sock(t) \in Socket /\ Sock(t).mem = "live" /\ op[t] # "none"
           /\ t = Main => pc[t] = "done"
           /\ Role(t, tgt[t], op[t], pc[t]) /\ t # NoThread
           /\ t \in Sock(t).asleep => pc[t] = "asleep" /\ op[t] = "connect"
           /\ t \in Sock(t).rasleep => pc[t] = "rasleep" /\ op[t] = "read"
<1>1. /\ tgt[t] \in Socks /\ Sock(t) = so[tgt[t]] /\ Sock(t).mem = "live"
      /\ op[t] # "none"
  BY DEF LifeInv, Targets, Sock
<1>2. GoodSock(Sock(t)) /\ Sock(t) \in Socket
  BY <1>1 DEF LifeInv, Typed, GoodSock
<1>3. /\ t \in Sock(t).asleep => pc[t] = "asleep" /\ op[t] = "connect"
      /\ t \in Sock(t).rasleep => pc[t] = "rasleep" /\ op[t] = "read"
  BY <1>1 DEF LifeInv, Sleepers, Resting
<1>4. (t = Main => pc[t] = "done") /\ Role(t, tgt[t], op[t], pc[t])
  BY DEF LifeInv, Roles, Resting
<1> QED
  BY <1>1, <1>2, <1>3, <1>4, NoThreadApart

\* The place a thread goes to when it has got the lock it waited for.
Entered(p) == CASE p = "found" -> "in" [] p = "rwoken" -> "rin" [] p = "reacquire" -> "check"

\* Taking the lock.
LEMMA AcquireFacts ==
    ASSUME LifeInv, NEW t \in Threads, Acquire(t)
    PROVE  LET q == socket_wr_acquire(Sock(t), t)
               p == Entered(pc[t])
           IN  /\ t # Main /\ pc[t] \in {"found", "rwoken", "reacquire"} /\ op[t] # "gc"
               /\ Sock(t).lock = NoThread /\ pc[t] \notin Resting
               /\ Moved(t, q, p) /\ MayLeave(t, q, p) /\ Role(t, tgt[t], op[t], p)
               /\ p \in {"in", "rin", "check"} /\ Same
               /\ SameTcp(Sock(t), q) /\ q.m = Sock(t).m /\ q.asleep = Sock(t).asleep
               /\ q.rasleep = Sock(t).rasleep /\ q.lock = t
<1> DEFINE q == socket_wr_acquire(Sock(t), t)
           p == Entered(pc[t])
<1>1. /\ pc[t] \in {"found", "rwoken", "reacquire"} /\ op[t] # "gc" /\ Same
      /\ Sock(t).lock = NoThread /\ Step(t, q, p) /\ pc[t] \notin Resting
  BY DEF Acquire, Entered, Resting
<1>2. p \in {"in", "rin", "check"} /\ (pc[t] = "found" => p = "in")
      /\ (pc[t] = "rwoken" => p = "rin") /\ (pc[t] = "reacquire" => p = "check")
  BY <1>1 DEF Entered
<1>3. /\ GoodSock(q) /\ q.lock = t /\ SameTcp(Sock(t), q) /\ q.m = Sock(t).m
      /\ q.asleep = Sock(t).asleep /\ q.rasleep = Sock(t).rasleep
  BY <1>1, BusyFacts, AcquireEffect
<1> HIDE DEF q, p
<1>4. Moved(t, q, p)
  BY <1>1, <1>2, StepMoved DEF Pcs
<1>5. MayLeave(t, q, p)
  BY <1>1, <1>3, BusyFacts DEF MayLeave, SameTcp
<1>6. Role(t, tgt[t], op[t], p)
  BY <1>1, <1>2, BusyFacts DEF Role, ConnPlaces, ReadPlaces, FreePlaces, TimerOps
<1> QED
  BY <1>1, <1>2, <1>3, <1>4, <1>5, <1>6, BusyFacts DEF q, p

\* Touching a struct sock that is gone.
LEMMA TouchFacts ==
    ASSUME LifeInv, NEW t \in Threads, TouchFreed(t)
    PROVE  LET h == IF Sock(t).m = t THEN NoThread ELSE Sock(t).m
               q == [Sock(t) EXCEPT !.m = h]
           IN  /\ t # Main /\ pc[t] \in {"in", "rin", "check"} /\ Sock(t).sk = "freed"
               /\ Moved(t, q, "out") /\ MayLeave(t, q, "out")
               /\ Role(t, tgt[t], op[t], "out")
               /\ UNCHANGED << slock, tgt, op, spurious, exiting >> /\ RestTyped
               /\ SameTcp(Sock(t), q) /\ q.m = h /\ q.asleep = Sock(t).asleep
               /\ q.rasleep = Sock(t).rasleep /\ q.lock = t
<1> DEFINE r == Sock(t)
           h == IF r.m = t THEN NoThread ELSE r.m
           q == [r EXCEPT !.m = h]
<1>1. /\ pc[t] \in {"in", "rin", "check"} /\ r.sk = "freed" /\ Step(t, q, "out")
      /\ UNCHANGED << slock, tgt, op, spurious, exiting >>
      /\ uaf' \subseteq uaf \cup {[by |-> r.by, untracked |-> r.untracked]}
  BY DEF TouchFreed
<1>2. /\ pc[t] \in Holding /\ pc[t] \notin Resting /\ t # Main
  BY <1>1 DEF Holding, Resting, LifeInv
<1>3. /\ GoodSock(r) /\ r \in Socket /\ r.mem = "live" /\ r.lock = t
      /\ t \notin r.asleep /\ t \notin r.rasleep
  BY <1>2, InsideFacts
<1>4. h \in Threads \cup {NoThread}
  BY <1>3 DEF Socket
<1>5. /\ GoodSock(q) /\ SameTcp(r, q) /\ q.lock = r.lock
      /\ q.m = h /\ q.asleep = r.asleep /\ q.rasleep = r.rasleep
  BY <1>3, <1>4, SleepLockEffect
<1>6. r.by \in {"connect", "gc"} /\ r.untracked \in BOOLEAN
  BY <1>1, <1>3 DEF GoodSock, Socket
<1>7. RestTyped
  BY <1>1, <1>6 DEF RestTyped, LifeInv, Typed
<1>8. Moved(t, q, "out")
  BY <1>1, StepMoved DEF Pcs
<1> HIDE DEF q, h
<1>9. MayLeave(t, q, "out")
  BY <1>3, <1>5 DEF MayLeave, SameTcp
<1>10. Role(t, tgt[t], op[t], "out")
  BY <1>1, <1>2, BusyFacts DEF Role, ConnPlaces, ReadPlaces, FreePlaces, TimerOps
<1> QED
  BY <1>1, <1>2, <1>3, <1>5, <1>7, <1>8, <1>9, <1>10 DEF q, h

\* socket_delete: the collector is started once.
LEMMA DeleteEffect ==
    ASSUME NEW r, GoodSock(r), r.mem = "live"
    PROVE  LET q == socket_delete(r)
           IN  /\ GoodSock(q) /\ q.mem = "live" /\ q.ss = "DISCONNECTING"
               /\ r.ss = "DISCONNECTING" => q.gc = r.gc
               /\ q.sk = r.sk /\ q.by = r.by /\ q.frees = r.frees /\ q.listed = r.listed
               /\ q.lock = r.lock /\ q.m = r.m /\ q.asleep = r.asleep
               /\ q.rasleep = r.rasleep /\ q.tcp = r.tcp /\ q.err = r.err
               /\ q.rto = r.rto /\ q.linger = r.linger /\ q.stray = r.stray
               /\ q.queued = r.queued /\ q.untracked = r.untracked
               /\ q.reconnected = r.reconnected
<1>1. CASE r.ss = "DISCONNECTING"
  BY <1>1 DEF socket_delete
<1>2. CASE r.ss # "DISCONNECTING"
  <2> DEFINE n == r.gc + 1
             q == [r EXCEPT !.ss = "DISCONNECTING", !.gc = n]
  <2>1. n \in Nat
    BY DEF GoodSock, Socket
  <2>2. socket_delete(r) = q
    BY <1>2 DEF socket_delete
  <2> HIDE DEF n
  <2>3. q \in Socket
    BY <2>1, Zenon DEF GoodSock, Socket
  <2>4. /\ q.mem = r.mem /\ q.ss = "DISCONNECTING"
        /\ q.sk = r.sk /\ q.by = r.by /\ q.frees = r.frees /\ q.listed = r.listed
        /\ q.lock = r.lock /\ q.m = r.m /\ q.asleep = r.asleep
        /\ q.rasleep = r.rasleep /\ q.tcp = r.tcp /\ q.err = r.err
        /\ q.rto = r.rto /\ q.linger = r.linger /\ q.stray = r.stray
        /\ q.queued = r.queued /\ q.untracked = r.untracked
        /\ q.reconnected = r.reconnected
        /\ q.refcnt = r.refcnt /\ q.doubled = r.doubled
    BY DEF GoodSock, Socket
  <2> HIDE DEF q
  <2> QED
    BY <1>2, <2>2, <2>3, <2>4 DEF GoodSock
<1> QED
  BY <1>1, <1>2

\* Waking those that sleep in connect(), and going on with socket_delete.
LEMMA WakeFacts ==
    ASSUME LifeInv, NEW t \in Threads, Wake(t)
    PROVE  LET a == [Sock(t) EXCEPT !.asleep = {}]
               q == IF pc[t] = "done" THEN socket_delete(a) ELSE a
           IN  /\ t # Main /\ pc[t] \in {"wake", "done"} /\ Sock(t).m = NoThread
               /\ Moved(t, q, "out") /\ MayLeave(t, q, "out")
               /\ Role(t, tgt[t], op[t], "out") /\ Same
               /\ \A u \in Sock(t).asleep : pc'[u] = "woken"
               /\ pc[t] = "done" => q.ss = "DISCONNECTING"
               /\ pc[t] = "wake" => q.ss = Sock(t).ss /\ q.gc = Sock(t).gc
               /\ Sock(t).ss = "DISCONNECTING" => q.gc = Sock(t).gc
               /\ q.sk = Sock(t).sk /\ q.by = Sock(t).by /\ q.frees = Sock(t).frees
               /\ q.listed = Sock(t).listed
               /\ q.lock = t /\ q.m = NoThread /\ q.asleep = {}
               /\ q.rasleep = Sock(t).rasleep /\ q.tcp = Sock(t).tcp
               /\ q.err = Sock(t).err /\ q.rto = Sock(t).rto
               /\ q.linger = Sock(t).linger /\ q.stray = Sock(t).stray
               /\ q.queued = Sock(t).queued /\ q.untracked = Sock(t).untracked
               /\ q.reconnected = Sock(t).reconnected
<1> DEFINE r == Sock(t)
           a == [r EXCEPT !.asleep = {}]
           q == IF pc[t] = "done" THEN socket_delete(a) ELSE a
<1>1. /\ pc[t] \in {"wake", "done"} /\ t # Main /\ r.m = NoThread /\ Same
      /\ StepWaking(t, q, "out", r.asleep, "woken")
  BY DEF Wake
<1>2. pc[t] \in Holding /\ pc[t] \notin Resting
  BY <1>1 DEF Holding, Resting
<1>3. /\ GoodSock(r) /\ r \in Socket /\ r.mem = "live" /\ r.lock = t
      /\ t \notin r.asleep /\ t \notin r.rasleep /\ r.asleep \subseteq Threads
  BY <1>1, <1>2, InsideFacts DEF Socket
<1>4. /\ GoodSock(a) /\ SameTcp(r, a) /\ a.lock = r.lock
      /\ a.m = r.m /\ a.asleep = {} /\ a.rasleep = r.rasleep
  BY <1>3, AsleepEffect
<1> HIDE DEF a
<1>5. /\ GoodSock(q) /\ q.mem = "live"
      /\ pc[t] = "done" => q.ss = "DISCONNECTING"
      /\ pc[t] = "wake" => q.ss = r.ss /\ q.gc = r.gc
      /\ r.ss = "DISCONNECTING" => q.gc = r.gc
      /\ q.sk = r.sk /\ q.by = r.by /\ q.frees = r.frees /\ q.listed = r.listed
      /\ q.lock = t /\ q.m = NoThread /\ q.asleep = {}
      /\ q.rasleep = r.rasleep /\ q.tcp = r.tcp /\ q.err = r.err
      /\ q.rto = r.rto /\ q.linger = r.linger /\ q.stray = r.stray
      /\ q.queued = r.queued /\ q.untracked = r.untracked
      /\ q.reconnected = r.reconnected
  <2>1. CASE pc[t] = "done"
    BY <1>1, <1>3, <1>4, <2>1, DeleteEffect DEF SameTcp
  <2>2. CASE pc[t] = "wake"
    BY <1>1, <1>3, <1>4, <2>2 DEF SameTcp
  <2> QED
    BY <1>1, <2>1, <2>2
<1> HIDE DEF q
<1>6. /\ Moved(t, q, "out") /\ \A u \in r.asleep : pc'[u] = "woken"
  BY <1>1, <1>3, <1>5 DEF StepWaking, Moved, LifeInv, Typed, Pcs
<1>7. MayLeave(t, q, "out")
  BY <1>3, <1>5 DEF MayLeave
<1>8. Role(t, tgt[t], op[t], "out")
  BY <1>1, <1>2, BusyFacts DEF Role, ConnPlaces, ReadPlaces, FreePlaces, TimerOps
<1> QED
  BY <1>1, <1>5, <1>6, <1>7, <1>8 DEF q, a

\* Taking sleep.lock, with the socket lock or without.
LEMMA LockSleepFacts ==
    ASSUME LifeInv, NEW t \in Threads, LockSleep(t)
    PROVE  LET q == [Sock(t) EXCEPT !.m = t]
               p == IF pc[t] = "lockm" THEN "check" ELSE "reacquire"
           IN  /\ t # Main /\ pc[t] \in {"lockm", "woken"} /\ Sock(t).m = NoThread
               /\ Moved(t, q, p) /\ MayLeave(t, q, p) /\ Role(t, tgt[t], op[t], p) /\ Same
               /\ SameTcp(Sock(t), q) /\ q.m = t /\ q.asleep = Sock(t).asleep
               /\ q.rasleep = Sock(t).rasleep /\ q.lock = Sock(t).lock
<1> DEFINE r == Sock(t)
           q == [r EXCEPT !.m = t]
           p == IF pc[t] = "lockm" THEN "check" ELSE "reacquire"
<1>1. /\ pc[t] \in {"lockm", "woken"} /\ r.m = NoThread /\ Step(t, q, p) /\ Same
      /\ p \in {"check", "reacquire"} /\ (p = "check" => pc[t] = "lockm")
  BY DEF LockSleep
<1>2. /\ pc[t] \notin Resting /\ GoodSock(r) /\ r.mem = "live" /\ t # Main
      /\ t \notin r.asleep /\ t \notin r.rasleep /\ Role(t, tgt[t], op[t], pc[t])
      /\ r = so[tgt[t]]
  BY <1>1, BusyFacts DEF Resting
<1>3. /\ GoodSock(q) /\ SameTcp(r, q) /\ q.lock = r.lock
      /\ q.m = t /\ q.asleep = r.asleep /\ q.rasleep = r.rasleep
  BY <1>2, SleepLockEffect
<1>4. Moved(t, q, p)
  BY <1>1, StepMoved DEF Pcs
<1>5. p \in Holding => r.lock = t
  BY <1>1, <1>2 DEF LifeInv, HoldsLock, Holding
<1> HIDE DEF q, p
<1>6. MayLeave(t, q, p)
  BY <1>2, <1>3, <1>5 DEF MayLeave, SameTcp
<1>7. Role(t, tgt[t], op[t], p)
  BY <1>1, <1>2 DEF Role, ConnPlaces, ReadPlaces, FreePlaces, TimerOps
<1> QED
  BY <1>1, <1>2, <1>3, <1>4, <1>6, <1>7 DEF q, p

\* What the loop of connect() makes of its socket when it is left.
Left(r) ==
    LET c == [r EXCEPT !.m = NoThread, !.refcnt = @ + 1, !.doubled = @ + 1]
    IN  IF r.err \in {"ETIMEDOUT", "ECONNREFUSED"} THEN c
        ELSE [c EXCEPT !.ss = IF r.err = "0" THEN "CONNECTED" ELSE @]

\* The reference that is not given back is counted.
LEMMA LeftEffect ==
    ASSUME NEW r, GoodSock(r), r.mem = "live"
    PROVE  LET q == Left(r)
           IN  /\ GoodSock(q) /\ q.mem = "live" /\ q.m = NoThread
               /\ q.ss = IF r.err = "0" THEN "CONNECTED" ELSE r.ss
               /\ q.sk = r.sk /\ q.by = r.by /\ q.frees = r.frees /\ q.listed = r.listed
               /\ q.lock = r.lock /\ q.asleep = r.asleep /\ q.gc = r.gc
               /\ q.rasleep = r.rasleep /\ q.tcp = r.tcp /\ q.err = r.err
               /\ q.rto = r.rto /\ q.linger = r.linger /\ q.stray = r.stray
               /\ q.queued = r.queued /\ q.untracked = r.untracked
               /\ q.reconnected = r.reconnected
<1> DEFINE n == r.refcnt + 1
           k == r.doubled + 1
           z == IF r.err = "0" THEN "CONNECTED" ELSE r.ss
           c == [r EXCEPT !.m = NoThread, !.refcnt = n, !.doubled = k]
           d == [c EXCEPT !.ss = z]
<1>1. n \in Nat /\ k \in Nat
  BY DEF GoodSock, Socket
<1>2. z \in {"UNCONNECTED", "CONNECTING", "CONNECTED", "DISCONNECTING"}
  BY DEF GoodSock, Socket
<1>3. n = 1 + k + (IF r.lock = NoThread THEN 0 ELSE 1)
  BY DEF GoodSock, Socket
<1>4. c.ss = r.ss
  BY DEF GoodSock, Socket
<1>5. Left(r) = IF r.err \in {"ETIMEDOUT", "ECONNREFUSED"} THEN c ELSE d
  BY <1>4 DEF Left
<1>6. r.err \in {"ETIMEDOUT", "ECONNREFUSED"} => z = r.ss
  OBVIOUS
<1> HIDE DEF n, k, z
<1>7. c \in Socket
  BY <1>1, Zenon DEF GoodSock, Socket
<1>8. /\ c.mem = r.mem /\ c.m = NoThread /\ c.refcnt = n /\ c.doubled = k
      /\ c.sk = r.sk /\ c.by = r.by /\ c.frees = r.frees /\ c.listed = r.listed
      /\ c.lock = r.lock /\ c.asleep = r.asleep /\ c.gc = r.gc
      /\ c.rasleep = r.rasleep /\ c.tcp = r.tcp /\ c.err = r.err
      /\ c.rto = r.rto /\ c.linger = r.linger /\ c.stray = r.stray
      /\ c.queued = r.queued /\ c.untracked = r.untracked
      /\ c.reconnected = r.reconnected
  BY DEF GoodSock, Socket
<1> HIDE DEF c
<1>9. d \in Socket
  BY <1>2, <1>7, Zenon DEF Socket
<1>10. /\ d.mem = c.mem /\ d.m = c.m /\ d.refcnt = c.refcnt /\ d.doubled = c.doubled
       /\ d.sk = c.sk /\ d.by = c.by /\ d.frees = c.frees /\ d.listed = c.listed
       /\ d.lock = c.lock /\ d.asleep = c.asleep /\ d.gc = c.gc
       /\ d.rasleep = c.rasleep /\ d.tcp = c.tcp /\ d.err = c.err
       /\ d.rto = c.rto /\ d.linger = c.linger /\ d.stray = c.stray
       /\ d.queued = c.queued /\ d.untracked = c.untracked
       /\ d.reconnected = c.reconnected /\ d.ss = z
  BY <1>7 DEF Socket
<1> HIDE DEF d
<1>11. GoodSock(c)
  BY <1>3, <1>7, <1>8 DEF GoodSock
<1>12. GoodSock(d)
  BY <1>3, <1>8, <1>9, <1>10 DEF GoodSock
<1>13. CASE r.err \in {"ETIMEDOUT", "ECONNREFUSED"}
  <2>1. Left(r) = c /\ z = r.ss
    BY <1>5, <1>6, <1>13
  <2> QED
    BY <1>4, <1>8, <1>11, <1>13, <2>1 DEF z, c
<1>14. CASE r.err \notin {"ETIMEDOUT", "ECONNREFUSED"}
  <2>1. Left(r) = d
    BY <1>5, <1>14
  <2> QED
    BY <1>8, <1>10, <1>12, <2>1 DEF z
<1> QED
  BY <1>13, <1>14

\* The loop of connect().
LEMMA CheckFacts ==
    ASSUME LifeInv, NEW t \in Threads, Check(t)
    PROVE  LET r == Sock(t)
               a == socket_release(r)
               d == Left(r)
           IN  /\ t # Main /\ pc[t] = "check" /\ r.sk = "live" /\ op[t] = "connect"
               /\ spurious' = spurious \ {t}
               /\ UNCHANGED << slock, tgt, op, uaf, exiting >>
               /\ \/ /\ r.ss = "CONNECTING" /\ r.err = "EINPROGRESS"
                     /\ Moved(t, a, "towait") /\ MayLeave(t, a, "towait")
                     /\ SameTcp(r, a) /\ a.lock = NoThread /\ a.m = r.m
                     /\ a.asleep = r.asleep /\ a.rasleep = r.rasleep
                  \/ \E p \in {"out", "outfree"} : Moved(t, d, p) /\ MayLeave(t, d, p)
               /\ \A p \in {"towait", "out", "outfree"} : Role(t, tgt[t], op[t], p)
<1> DEFINE r == Sock(t)
           a == socket_release(r)
           d == Left(r)
<1>1. /\ pc[t] = "check" /\ r.sk = "live" /\ spurious' = spurious \ {t}
      /\ UNCHANGED << slock, tgt, op, uaf, exiting >>
      /\ \/ r.ss = "CONNECTING" /\ r.err = "EINPROGRESS" /\ Step(t, a, "towait")
         \/ \E p \in {"out", "outfree"} : Step(t, d, p)
  BY DEF Check, Left
<1>2. pc[t] \in Holding /\ pc[t] \notin Resting /\ t # Main
  BY <1>1 DEF Holding, Resting, LifeInv
<1>3. /\ GoodSock(r) /\ r.mem = "live" /\ r.lock = t /\ t # NoThread
      /\ t \notin r.asleep /\ t \notin r.rasleep
  BY <1>2, InsideFacts
<1>4. op[t] = "connect" /\ \A p \in {"towait", "out", "outfree"} : Role(t, tgt[t], op[t], p)
  BY <1>1, <1>2, BusyFacts DEF Role, ConnPlaces, ReadPlaces, FreePlaces, TimerOps
<1> HIDE DEF r
<1>5. /\ GoodSock(a) /\ SameTcp(r, a) /\ a.lock = NoThread /\ a.m = r.m
      /\ a.asleep = r.asleep /\ a.rasleep = r.rasleep
  BY <1>3, ReleaseEffect
<1>6. /\ GoodSock(d) /\ d.mem = "live" /\ d.lock = t
      /\ d.asleep = r.asleep /\ d.rasleep = r.rasleep
  BY <1>3, LeftEffect
<1> HIDE DEF a, d
<1>7. CASE r.ss = "CONNECTING" /\ r.err = "EINPROGRESS" /\ Step(t, a, "towait")
  <2>1. Moved(t, a, "towait")
    BY <1>7, StepMoved DEF Pcs
  <2>2. MayLeave(t, a, "towait")
    BY <1>3, <1>5 DEF MayLeave, SameTcp, Holding, r
  <2> QED
    BY <1>1, <1>2, <1>4, <1>5, <1>7, <2>1, <2>2 DEF r, a
<1>8. CASE \E p \in {"out", "outfree"} : Step(t, d, p)
  <2>1. PICK p \in {"out", "outfree"} : Step(t, d, p)
    BY <1>8
  <2>2. Moved(t, d, p)
    BY <2>1, StepMoved DEF Pcs
  <2>3. MayLeave(t, d, p)
    BY <1>3, <1>6 DEF MayLeave, r
  <2> QED
    BY <1>1, <1>2, <1>4, <2>2, <2>3 DEF r, d
<1> QED
  BY <1>1, <1>7, <1>8

\* pthread_cond_wait.
LEMMA WaitSleepFacts ==
    ASSUME LifeInv, NEW t \in Threads, WaitSleep(t)
    PROVE  LET q == [Sock(t) EXCEPT !.m = NoThread, !.asleep = @ \cup {t}]
           IN  /\ t # Main /\ pc[t] = "towait" /\ op[t] = "connect"
               /\ Moved(t, q, "asleep") /\ MayLeave(t, q, "asleep")
               /\ Role(t, tgt[t], op[t], "asleep") /\ Same
               /\ SameTcp(Sock(t), q) /\ q.m = NoThread
               /\ q.asleep = Sock(t).asleep \cup {t}
               /\ q.rasleep = Sock(t).rasleep /\ q.lock = Sock(t).lock
<1> DEFINE r == Sock(t)
           A == r.asleep \cup {t}
           q == [r EXCEPT !.m = NoThread, !.asleep = A]
<1>1. pc[t] = "towait" /\ Step(t, q, "asleep") /\ Same
  BY DEF WaitSleep
<1>2. /\ pc[t] \notin Resting /\ GoodSock(r) /\ r \in Socket /\ r.mem = "live" /\ t # Main
      /\ t \notin r.rasleep /\ Role(t, tgt[t], op[t], pc[t])
  BY <1>1, BusyFacts DEF Resting
<1>3. op[t] = "connect" /\ Role(t, tgt[t], op[t], "asleep")
  BY <1>1, <1>2 DEF Role, ConnPlaces, ReadPlaces, FreePlaces, TimerOps
<1>4. A \in SUBSET Threads /\ A = r.asleep \cup {t}
  BY <1>2 DEF Socket
<1> HIDE DEF A
<1>5. q \in Socket
  BY <1>2, <1>4, Zenon DEF Socket
<1>6. /\ SameTcp(r, q) /\ q.m = NoThread /\ q.asleep = A /\ q.rasleep = r.rasleep
      /\ q.lock = r.lock /\ q.refcnt = r.refcnt /\ q.doubled = r.doubled
  BY <1>2 DEF Socket, SameTcp
<1>7. Moved(t, q, "asleep")
  BY <1>1, StepMoved DEF Pcs
<1> HIDE DEF q
<1>8. GoodSock(q)
  BY <1>2, <1>5, <1>6 DEF GoodSock, SameTcp
<1>9. MayLeave(t, q, "asleep")
  BY <1>2, <1>3, <1>4, <1>6, <1>8 DEF MayLeave, SameTcp, Holding
<1> QED
  BY <1>1, <1>2, <1>3, <1>4, <1>6, <1>7, <1>9 DEF q, A

\* A wake-up for no reason.
LEMMA SpuriousFacts ==
    ASSUME LifeInv, NEW t \in Threads, WakeSpuriously(t)
    PROVE  LET q == [Sock(t) EXCEPT !.asleep = @ \ {t}]
           IN  /\ t # Main /\ pc[t] = "asleep" /\ op[t] = "connect"
               /\ Moved(t, q, "woken") /\ MayLeave(t, q, "woken")
               /\ Role(t, tgt[t], op[t], "woken")
               /\ spurious' = spurious \cup {t}
               /\ UNCHANGED << slock, tgt, op, uaf, exiting >>
               /\ SameTcp(Sock(t), q) /\ q.m = Sock(t).m
               /\ q.asleep = Sock(t).asleep \ {t}
               /\ q.rasleep = Sock(t).rasleep /\ q.lock = Sock(t).lock
<1> DEFINE r == Sock(t)
           A == r.asleep \ {t}
           q == [r EXCEPT !.asleep = A]
<1>1. /\ pc[t] = "asleep" /\ Step(t, q, "woken") /\ spurious' = spurious \cup {t}
      /\ UNCHANGED << slock, tgt, op, uaf, exiting >>
  BY DEF WakeSpuriously
<1>2. /\ pc[t] \notin Resting /\ GoodSock(r) /\ r \in Socket /\ r.mem = "live" /\ t # Main
      /\ t \notin r.rasleep /\ Role(t, tgt[t], op[t], pc[t])
  BY <1>1, BusyFacts DEF Resting
<1>3. op[t] = "connect" /\ Role(t, tgt[t], op[t], "woken")
  BY <1>1, <1>2 DEF Role, ConnPlaces, ReadPlaces, FreePlaces, TimerOps
<1>4. A \in SUBSET Threads /\ A = r.asleep \ {t}
  BY <1>2 DEF Socket
<1> HIDE DEF A
<1>5. /\ GoodSock(q) /\ SameTcp(r, q) /\ q.lock = r.lock
      /\ q.m = r.m /\ q.asleep = A /\ q.rasleep = r.rasleep
  BY <1>2, <1>4, AsleepEffect
<1>6. Moved(t, q, "woken")
  BY <1>1, StepMoved DEF Pcs
<1> HIDE DEF q
<1>7. MayLeave(t, q, "woken")
  BY <1>2, <1>4, <1>5 DEF MayLeave, SameTcp, Holding
<1> QED
  BY <1>1, <1>2, <1>3, <1>4, <1>5, <1>6, <1>7 DEF q, A

\* A thread that goes from one place to another, its socket as it was.
LEMMA MovedOnly ==
    ASSUME LifeInv, NEW t \in Threads, pc[t] \notin Resting, NEW p \in Pcs,
           pc' = [pc EXCEPT ![t] = p], UNCHANGED so
    PROVE  Moved(t, Sock(t), p)
<1>1. tgt[t] \in Socks /\ Sock(t) = so[tgt[t]]
  BY BusyFacts
<1>2. so' = [so EXCEPT ![tgt[t]] = Sock(t)]
  BY <1>1 DEF LifeInv, Typed
<1> QED
  BY <1>2 DEF Moved, LifeInv, Typed

\* The collector has found its socket, or a thread has the lock of the list.
LEMMA FreeStartFacts ==
    ASSUME LifeInv, NEW t \in Threads,
           \/ socket_garbage_collect(t) /\ Sock(t).listed
           \/ FreeLock(t)
    PROVE  LET p == IF pc[t] = "found" THEN "free1" ELSE "free2"
           IN  /\ t # Main /\ slock = NoThread
               /\ \/ pc[t] = "found" /\ op[t] = "gc" /\ Sock(t).listed /\ slock' = slock
                  \/ pc[t] = "free1" /\ slock' = t
               /\ UNCHANGED << so, tgt, op, spurious, uaf, exiting >>
               /\ pc' = [pc EXCEPT ![t] = p]
               /\ Moved(t, Sock(t), p) /\ MayLeave(t, Sock(t), p)
               /\ Role(t, tgt[t], op[t], p)
<1> DEFINE p == IF pc[t] = "found" THEN "free1" ELSE "free2"
<1>1. /\ slock = NoThread /\ pc' = [pc EXCEPT ![t] = p]
      /\ UNCHANGED << so, tgt, op, spurious, uaf, exiting >>
      /\ \/ pc[t] = "found" /\ op[t] = "gc" /\ Sock(t).listed /\ slock' = slock
         \/ pc[t] = "free1" /\ slock' = t
  BY DEF socket_garbage_collect, FreeLock, Same
<1>2. /\ pc[t] \notin Resting /\ GoodSock(Sock(t)) /\ Sock(t).mem = "live" /\ t # Main
      /\ t \notin Sock(t).asleep /\ t \notin Sock(t).rasleep
      /\ Role(t, tgt[t], op[t], pc[t])
  BY <1>1, BusyFacts DEF Resting
<1>3. p \in {"free1", "free2"}
  OBVIOUS
<1>4. Moved(t, Sock(t), p)
  BY <1>1, <1>2, <1>3, MovedOnly DEF Pcs
<1>5. MayLeave(t, Sock(t), p)
  BY <1>2 DEF MayLeave, Holding
<1>6. Role(t, tgt[t], op[t], p)
  BY <1>1, <1>2 DEF Role, ConnPlaces, ReadPlaces, FreePlaces, TimerOps
<1> QED
  BY <1>1, <1>2, <1>4, <1>5, <1>6

\* A failed connect() gives up the lock before it frees.
LEMMA FailedFacts ==
    ASSUME LifeInv, NEW t \in Threads, ConnectFailed(t)
    PROVE  LET q == socket_release(Sock(t))
           IN  /\ t # Main /\ pc[t] = "outfree"
               /\ Moved(t, q, "free1") /\ MayLeave(t, q, "free1")
               /\ Role(t, tgt[t], op[t], "free1") /\ Same
               /\ SameTcp(Sock(t), q) /\ q.m = Sock(t).m /\ q.asleep = Sock(t).asleep
               /\ q.rasleep = Sock(t).rasleep /\ q.lock = NoThread
<1> DEFINE r == Sock(t)
           q == socket_release(r)
<1>1. pc[t] = "outfree" /\ Step(t, q, "free1") /\ Same
  BY DEF ConnectFailed
<1>2. pc[t] \in Holding /\ pc[t] \notin Resting /\ t # Main
  BY <1>1 DEF Holding, Resting, LifeInv
<1>3. /\ GoodSock(r) /\ r.mem = "live" /\ r.lock = t /\ t # NoThread
      /\ t \notin r.asleep /\ t \notin r.rasleep
  BY <1>2, InsideFacts
<1>4. /\ GoodSock(q) /\ SameTcp(r, q) /\ q.lock = NoThread /\ q.m = r.m
      /\ q.asleep = r.asleep /\ q.rasleep = r.rasleep
  BY <1>3, ReleaseEffect
<1>5. Moved(t, q, "free1")
  BY <1>1, StepMoved DEF Pcs
<1> HIDE DEF q
<1>6. MayLeave(t, q, "free1")
  BY <1>3, <1>4 DEF MayLeave, SameTcp, Holding
<1>7. Role(t, tgt[t], op[t], "free1")
  BY <1>1, <1>2, BusyFacts DEF Role, ConnPlaces, ReadPlaces, FreePlaces, TimerOps
<1> QED
  BY <1>1, <1>2, <1>4, <1>5, <1>6, <1>7 DEF q

\* The socket leaves the list.
LEMMA UnlistFacts ==
    ASSUME LifeInv, NEW t \in Threads, FreeUnlist(t)
    PROVE  LET r == Sock(t)
               q == [socket_wr_acquire(r, t) EXCEPT !.listed = FALSE]
           IN  /\ t # Main /\ pc[t] = "free2" /\ r.lock = NoThread
               /\ Moved(t, q, "free3") /\ MayLeave(t, q, "free3")
               /\ Role(t, tgt[t], op[t], "free3") /\ slock' = NoThread
               /\ UNCHANGED << tgt, op, spurious, uaf, exiting >>
               /\ ~q.listed /\ q.lock = t /\ q.m = r.m /\ q.asleep = r.asleep
               /\ q.rasleep = r.rasleep
               /\ q.sk = r.sk /\ q.by = r.by /\ q.frees = r.frees /\ q.gc = r.gc
               /\ q.ss = r.ss /\ q.tcp = r.tcp /\ q.err = r.err /\ q.rto = r.rto
               /\ q.linger = r.linger /\ q.stray = r.stray /\ q.queued = r.queued
               /\ q.untracked = r.untracked /\ q.reconnected = r.reconnected
<1> DEFINE r == Sock(t)
           a == socket_wr_acquire(r, t)
           q == [a EXCEPT !.listed = FALSE]
<1>1. /\ pc[t] = "free2" /\ r.lock = NoThread /\ Step(t, q, "free3") /\ slock' = NoThread
      /\ UNCHANGED << tgt, op, spurious, uaf, exiting >>
  BY DEF FreeUnlist
<1>2. /\ pc[t] \notin Resting /\ GoodSock(r) /\ r.mem = "live" /\ t # Main
      /\ t \notin r.asleep /\ t \notin r.rasleep /\ Role(t, tgt[t], op[t], pc[t])
  BY <1>1, BusyFacts DEF Resting
<1>3. /\ GoodSock(a) /\ a.lock = t /\ SameTcp(r, a) /\ a.m = r.m
      /\ a.asleep = r.asleep /\ a.rasleep = r.rasleep
  BY <1>1, <1>2, AcquireEffect
<1>4. Moved(t, q, "free3")
  BY <1>1, StepMoved DEF Pcs
<1> HIDE DEF a
<1>5. q \in Socket
  BY <1>3, Zenon DEF GoodSock, Socket
<1>6. /\ ~q.listed /\ q.lock = a.lock /\ q.m = a.m /\ q.asleep = a.asleep
      /\ q.rasleep = a.rasleep /\ q.mem = a.mem
      /\ q.refcnt = a.refcnt /\ q.doubled = a.doubled
      /\ q.sk = a.sk /\ q.by = a.by /\ q.frees = a.frees /\ q.gc = a.gc
      /\ q.ss = a.ss /\ q.tcp = a.tcp /\ q.err = a.err /\ q.rto = a.rto
      /\ q.linger = a.linger /\ q.stray = a.stray /\ q.queued = a.queued
      /\ q.untracked = a.untracked /\ q.reconnected = a.reconnected
  BY <1>3 DEF GoodSock, Socket
<1> HIDE DEF q
<1>7. GoodSock(q) /\ q.mem = "live"
  BY <1>2, <1>3, <1>5, <1>6 DEF GoodSock, SameTcp
<1>8. MayLeave(t, q, "free3")
  BY <1>1, <1>2, <1>3, <1>6, <1>7 DEF MayLeave
<1>9. Role(t, tgt[t], op[t], "free3")
  BY <1>1, <1>2 DEF Role, ConnPlaces, ReadPlaces, FreePlaces, TimerOps
<1> QED
  BY <1>1, <1>2, <1>3, <1>4, <1>6, <1>8, <1>9 DEF q, a, SameTcp

\* The struct sock is freed.
LEMMA FreeSockFacts ==
    ASSUME LifeInv, NEW t \in Threads, FreeSock(t)
    PROVE  LET r == Sock(t)
               b == IF op[t] = "gc" THEN "gc" ELSE "connect"
               q == [r EXCEPT !.sk = "freed", !.frees = @ + 1, !.by = b]
           IN  /\ t # Main /\ pc[t] = "free3" /\ r.lock = t
               /\ Moved(t, q, "free4") /\ MayLeave(t, q, "free4")
               /\ Role(t, tgt[t], op[t], "free4") /\ Same
               /\ q.sk = "freed" /\ q.by = b /\ q.frees = r.frees + 1
               /\ q.lock = t /\ q.m = r.m /\ q.asleep = r.asleep
               /\ q.rasleep = r.rasleep /\ q.listed = r.listed /\ q.gc = r.gc
               /\ q.ss = r.ss /\ q.tcp = r.tcp /\ q.err = r.err /\ q.rto = r.rto
               /\ q.linger = r.linger /\ q.stray = r.stray /\ q.queued = r.queued
               /\ q.untracked = r.untracked /\ q.reconnected = r.reconnected
<1> DEFINE r == Sock(t)
           b == IF op[t] = "gc" THEN "gc" ELSE "connect"
           n == r.frees + 1
           q == [r EXCEPT !.sk = "freed", !.frees = n, !.by = b]
<1>1. pc[t] = "free3" /\ Step(t, q, "free4") /\ Same
  BY DEF FreeSock
<1>2. pc[t] \in Holding /\ pc[t] \notin Resting /\ t # Main
  BY <1>1 DEF Holding, Resting, LifeInv
<1>3. /\ GoodSock(r) /\ r \in Socket /\ r.mem = "live" /\ r.lock = t
      /\ t \notin r.asleep /\ t \notin r.rasleep
  BY <1>2, InsideFacts
<1>4. n \in Nat /\ b \in {"connect", "gc"} /\ n = r.frees + 1
  BY <1>3 DEF Socket
<1>5. Moved(t, q, "free4")
  BY <1>1, StepMoved DEF Pcs
<1> HIDE DEF n, b
<1>6. q \in Socket
  <2>1. "freed" \in Memory /\ b \in {"none", "connect", "gc"}
    BY <1>4 DEF Memory
  <2> QED
    BY <1>3, <1>4, <2>1, Zenon DEF Socket
<1>7. /\ q.sk = "freed" /\ q.by = b /\ q.frees = n /\ q.lock = r.lock /\ q.m = r.m
      /\ q.asleep = r.asleep /\ q.mem = r.mem /\ q.refcnt = r.refcnt
      /\ q.doubled = r.doubled
      /\ q.rasleep = r.rasleep /\ q.listed = r.listed /\ q.gc = r.gc
      /\ q.ss = r.ss /\ q.tcp = r.tcp /\ q.err = r.err /\ q.rto = r.rto
      /\ q.linger = r.linger /\ q.stray = r.stray /\ q.queued = r.queued
      /\ q.untracked = r.untracked /\ q.reconnected = r.reconnected
  BY <1>3 DEF Socket
<1> HIDE DEF q
<1>8. GoodSock(q)
  BY <1>3, <1>4, <1>6, <1>7 DEF GoodSock
<1>9. MayLeave(t, q, "free4")
  BY <1>3, <1>7, <1>8 DEF MayLeave
<1>10. Role(t, tgt[t], op[t], "free4")
  BY <1>1, <1>2, BusyFacts DEF Role, ConnPlaces, ReadPlaces, FreePlaces, TimerOps
<1> QED
  BY <1>1, <1>2, <1>3, <1>4, <1>5, <1>7, <1>9, <1>10 DEF q, n, b

\* The wait queue is woken and destroyed.
LEMMA FreeWaitFacts ==
    ASSUME LifeInv, NEW t \in Threads, FreeWait(t)
    PROVE  LET q == [Sock(t) EXCEPT !.asleep = {}]
           IN  /\ t # Main /\ pc[t] = "free4" /\ Sock(t).m = NoThread
               /\ Moved(t, q, "out") /\ MayLeave(t, q, "out")
               /\ Role(t, tgt[t], op[t], "out") /\ Same
               /\ \A u \in Sock(t).asleep : pc'[u] = "woken"
               /\ SameTcp(Sock(t), q) /\ q.m = Sock(t).m /\ q.asleep = {}
               /\ q.rasleep = Sock(t).rasleep /\ q.lock = t
<1> DEFINE r == Sock(t)
           q == [r EXCEPT !.asleep = {}]
<1>1. /\ pc[t] = "free4" /\ r.m = NoThread /\ Same
      /\ StepWaking(t, q, "out", r.asleep, "woken")
  BY DEF FreeWait
<1>2. pc[t] \in Holding /\ pc[t] \notin Resting /\ t # Main
  BY <1>1 DEF Holding, Resting, LifeInv
<1>3. /\ GoodSock(r) /\ r \in Socket /\ r.mem = "live" /\ r.lock = t
      /\ t \notin r.asleep /\ t \notin r.rasleep /\ r.asleep \subseteq Threads
  BY <1>2, InsideFacts DEF Socket
<1>4. /\ GoodSock(q) /\ SameTcp(r, q) /\ q.lock = r.lock
      /\ q.m = r.m /\ q.asleep = {} /\ q.rasleep = r.rasleep
  BY <1>3, AsleepEffect
<1> HIDE DEF q
<1>5. /\ Moved(t, q, "out") /\ \A u \in r.asleep : pc'[u] = "woken"
  BY <1>1, <1>3, <1>4 DEF StepWaking, Moved, LifeInv, Typed, Pcs
<1>6. MayLeave(t, q, "out")
  BY <1>3, <1>4 DEF MayLeave, SameTcp
<1>7. Role(t, tgt[t], op[t], "out")
  BY <1>1, <1>2, BusyFacts DEF Role, ConnPlaces, ReadPlaces, FreePlaces, TimerOps
<1> QED
  BY <1>1, <1>2, <1>3, <1>4, <1>5, <1>6, <1>7 DEF q

\* All of these keep the first invariant.
LEMMA LockingLife ==
    ASSUME LifeInv, NEW t \in Threads,
           \/ Acquire(t) \/ TouchFreed(t) \/ Wake(t) \/ LockSleep(t) \/ Check(t)
           \/ WaitSleep(t) \/ WakeSpuriously(t)
           \/ socket_garbage_collect(t) /\ Sock(t).listed
           \/ FreeLock(t) \/ ConnectFailed(t) \/ FreeUnlist(t) \/ FreeSock(t) \/ FreeWait(t)
    PROVE  LifeInv'
<1>1. \E q, p : /\ Moved(t, q, p) /\ MayLeave(t, q, p) /\ Role(t, tgt[t], op[t], p)
                /\ p \in Pcs \ Resting /\ t # Main /\ pc[t] \notin Resting
  <2> USE DEF Pcs, Resting
  <2>1. CASE Acquire(t)
    BY <2>1, AcquireFacts
  <2>2. CASE TouchFreed(t)
    BY <2>2, TouchFacts
  <2>3. CASE Wake(t)
    BY <2>3, WakeFacts
  <2>4. CASE LockSleep(t)
    BY <2>4, LockSleepFacts
  <2>5. CASE Check(t)
    BY <2>5, CheckFacts
  <2>6. CASE WaitSleep(t)
    BY <2>6, WaitSleepFacts
  <2>7. CASE WakeSpuriously(t)
    BY <2>7, SpuriousFacts
  <2>8. CASE (socket_garbage_collect(t) /\ Sock(t).listed) \/ FreeLock(t)
    BY <2>8, FreeStartFacts
  <2>9. CASE ConnectFailed(t)
    BY <2>9, FailedFacts
  <2>10. CASE FreeUnlist(t)
    BY <2>10, UnlistFacts
  <2>11. CASE FreeSock(t)
    BY <2>11, FreeSockFacts
  <2>12. CASE FreeWait(t)
    BY <2>12, FreeWaitFacts
  <2> QED
    BY <2>1, <2>2, <2>3, <2>4, <2>5, <2>6, <2>7, <2>8, <2>9, <2>10, <2>11, <2>12
<1>2. tgt' = tgt /\ op' = op /\ RestTyped
  <2>1. CASE TouchFreed(t)
    BY <2>1, TouchFacts
  <2>2. CASE ~TouchFreed(t)
    <3>1. t \in Threads /\ NoThread \in Threads \cup {NoThread}
      OBVIOUS
    <3> QED
      BY <2>2, <3>1 DEF Acquire, Wake, LockSleep, Check, WaitSleep, WakeSpuriously,
         socket_garbage_collect, Leave, FreeLock, ConnectFailed, FreeUnlist, FreeSock, FreeWait,
         Same, RestTyped, LifeInv, Typed
  <2> QED
    BY <2>1, <2>2
<1> QED
  BY <1>1, <1>2, MovedLife

----------------------------------------------------------------------------
(* The end and the beginning of a call *)

\* A thread that gives up its socket q, and the lock if it has it.
LEMMA LeavingLife ==
    ASSUME LifeInv, NEW t \in Threads, t # Main,
           pc[t] \notin Resting \cup {"asleep", "rasleep"}, NEW p \in Resting,
           NEW q, GoodSock(q), q.mem = "live",
           q.lock = Sock(t).lock \/ Sock(t).lock = t,
           q.asleep = Sock(t).asleep, q.rasleep = Sock(t).rasleep,
           Step(t, q, p), Leave(t)
    PROVE  LifeInv'
<1> DEFINE s == tgt[t]
<1>1. /\ s \in Socks /\ so[s].mem = "live" /\ Sock(t) = so[s]
      /\ t \notin so[s].asleep /\ t \notin so[s].rasleep /\ pc[t] \notin Resting
  BY BusyFacts
<1>2. /\ so' \in [Socks -> Socket] /\ so'[s] = q
      /\ \A x \in Socks \ {s} : so'[x] = so[x]
  BY <1>1 DEF LifeInv, Typed, Step, GoodSock
<1>3. /\ pc' \in [Threads -> Pcs] /\ pc'[t] = p /\ \A u \in Threads \ {t} : pc'[u] = pc[u]
  BY DEF LifeInv, Typed, Step, Resting, Pcs
<1>4. /\ tgt' \in [Threads -> Socks \cup {NoThread}] /\ tgt'[t] = NoThread
      /\ op' \in [Threads -> Ops] /\ op'[t] = "none"
      /\ \A u \in Threads \ {t} : tgt'[u] = tgt[u] /\ op'[u] = op[u]
  BY DEF LifeInv, Typed, Leave, Ops
<1>5. Typed'
  BY <1>2, <1>3, <1>4 DEF LifeInv, Typed, Leave
<1>6. Targets'
  BY <1>2, <1>3, <1>4 DEF LifeInv, Targets, Resting
<1>7. HoldsLock'
  <2> SUFFICES ASSUME NEW u \in Threads, u # Main, pc'[u] \in Holding
               PROVE  so'[tgt'[u]].lock = u
    BY DEF HoldsLock
  <2>1. u # t /\ pc[u] \in Holding /\ tgt'[u] = tgt[u]
    BY <1>3, <1>4 DEF Holding, Resting
  <2>2. tgt[u] \in Socks /\ so[tgt[u]].lock = u
    BY <2>1 DEF LifeInv, HoldsLock, Targets, Holding, Resting
  <2> QED
    BY <1>1, <1>2, <2>1, <2>2
<1>8. Sleepers'
  <2> SUFFICES ASSUME NEW x \in Socks
               PROVE  /\ \A u \in so'[x].asleep :
                            /\ tgt'[u] = x /\ op'[u] = "connect"
                            /\ pc'[u] \in {"asleep", "exited"}
                      /\ \A u \in so'[x].rasleep :
                            /\ tgt'[u] = x /\ op'[u] = "read"
                            /\ pc'[u] \in {"rasleep", "exited"}
    BY DEF Sleepers
  <2>1. /\ \A u \in so[x].asleep :
              tgt[u] = x /\ op[u] = "connect" /\ pc[u] \in {"asleep", "exited"}
        /\ \A u \in so[x].rasleep :
              tgt[u] = x /\ op[u] = "read" /\ pc[u] \in {"rasleep", "exited"}
    BY DEF LifeInv, Sleepers
  <2>2. so[x].asleep \subseteq Threads /\ so[x].rasleep \subseteq Threads
    BY DEF LifeInv, Typed, Socket
  <2>3. so'[x].asleep = so[x].asleep /\ so'[x].rasleep = so[x].rasleep
    BY <1>1, <1>2
  <2>4. t \notin so[x].asleep /\ t \notin so[x].rasleep
    BY <1>1, <2>1 DEF Resting
  <2> QED
    BY <1>3, <1>4, <2>1, <2>2, <2>3, <2>4
<1>9. Roles'
  <2> SUFFICES ASSUME NEW u \in Threads PROVE Role(u, tgt'[u], op'[u], pc'[u])
    BY DEF Roles
  <2>1. CASE u = t
    BY <1>3, <1>4, <2>1
       DEF Role, ConnPlaces, ReadPlaces, FreePlaces, TimerOps, IpcOps, Resting
  <2>2. CASE u # t
    BY <1>3, <1>4, <2>2 DEF LifeInv, Roles
  <2> QED
    BY <2>1, <2>2
<1>10. pc'[Main] \in {"idle", "done", "exited"}
  BY <1>3, ThreadsApart DEF LifeInv
<1> QED
  BY <1>5, <1>6, <1>7, <1>8, <1>9, <1>10 DEF LifeInv

\* The end of a call.
LEMMA ReleaseFacts ==
    ASSUME LifeInv, NEW t \in Threads, Release(t)
    PROVE  LET q == socket_release(Sock(t))
               p == IF op[t] = "close" THEN "exited" ELSE "idle"
           IN  /\ t # Main /\ pc[t] = "out" /\ Step(t, q, p) /\ Leave(t)
               /\ GoodSock(q) /\ q.lock = NoThread /\ SameTcp(Sock(t), q)
               /\ q.m = Sock(t).m /\ q.asleep = Sock(t).asleep
               /\ q.rasleep = Sock(t).rasleep /\ Sock(t).lock = t
<1> DEFINE r == Sock(t)
           q == socket_release(r)
           p == IF op[t] = "close" THEN "exited" ELSE "idle"
<1>1. pc[t] = "out" /\ Step(t, q, p) /\ Leave(t)
  BY DEF Release
<1>2. pc[t] \in Holding /\ t # Main
  BY <1>1 DEF Holding, LifeInv
<1>3. GoodSock(r) /\ r.mem = "live" /\ r.lock = t /\ t # NoThread
  BY <1>2, InsideFacts
<1>4. /\ GoodSock(q) /\ q.lock = NoThread /\ SameTcp(r, q)
      /\ q.m = r.m /\ q.asleep = r.asleep /\ q.rasleep = r.rasleep
  BY <1>3, ReleaseEffect
<1> QED
  BY <1>1, <1>2, <1>3, <1>4

\* The collector does not find its socket.
LEMMA UnfoundFacts ==
    ASSUME LifeInv, NEW t \in Threads, socket_garbage_collect(t), ~Sock(t).listed
    PROVE  /\ t # Main /\ pc[t] = "found" /\ op[t] = "gc" /\ UNCHANGED so
           /\ Step(t, Sock(t), "idle") /\ Leave(t) /\ Sock(t) = so[tgt[t]]
           /\ GoodSock(Sock(t)) /\ Sock(t).mem = "live" /\ tgt[t] \in Socks
<1>1. /\ pc[t] = "found" /\ op[t] = "gc" /\ pc' = [pc EXCEPT ![t] = "idle"] /\ Leave(t)
      /\ UNCHANGED so
  BY DEF socket_garbage_collect
<1>2. /\ pc[t] \notin Resting /\ tgt[t] \in Socks /\ Sock(t) = so[tgt[t]] /\ t # Main
      /\ GoodSock(Sock(t)) /\ Sock(t).mem = "live"
  BY <1>1, BusyFacts DEF Resting
<1>3. Step(t, Sock(t), "idle")
  BY <1>1, <1>2 DEF Step, LifeInv, Typed
<1> QED
  BY <1>1, <1>2, <1>3

\* Both keep the first invariant.
LEMMA LeaveLife ==
    ASSUME LifeInv, NEW t \in Threads,
           Release(t) \/ (socket_garbage_collect(t) /\ ~Sock(t).listed)
    PROVE  LifeInv'
<1>1. CASE Release(t)
  <2> DEFINE q == socket_release(Sock(t))
             p == IF op[t] = "close" THEN "exited" ELSE "idle"
  <2>1. /\ t # Main /\ pc[t] = "out" /\ Step(t, q, p) /\ Leave(t)
        /\ GoodSock(q) /\ SameTcp(Sock(t), q) /\ q.asleep = Sock(t).asleep
        /\ q.rasleep = Sock(t).rasleep /\ Sock(t).lock = t
    BY <1>1, ReleaseFacts
  <2>2. p \in Resting /\ pc[t] \notin Resting \cup {"asleep", "rasleep"}
    BY <2>1 DEF Resting
  <2>3. q.mem = "live"
    BY <2>1, <2>2, BusyFacts DEF SameTcp
  <2> HIDE DEF q, p
  <2> QED
    BY <2>1, <2>2, <2>3, LeavingLife
<1>2. CASE socket_garbage_collect(t) /\ ~Sock(t).listed
  <2>1. pc[t] \notin Resting \cup {"asleep", "rasleep"} /\ "idle" \in Resting
    BY <1>2, UnfoundFacts DEF Resting
  <2> QED
    BY <1>2, <2>1, UnfoundFacts, LeavingLife
<1> QED
  BY <1>1, <1>2

\* Thread t begins o on socket s, which becomes q.
Began(t, o, s, q) ==
    /\ so' = [so EXCEPT ![s] = q]
    /\ pc' = [pc EXCEPT ![t] = "found"]
    /\ tgt' = [tgt EXCEPT ![t] = s]
    /\ op' = [op EXCEPT ![t] = o]
    /\ UNCHANGED << slock, spurious, uaf, exiting >>

\* The beginning of a call, a segment or a handler.
LEMMA BeganLife ==
    ASSUME LifeInv, NEW t \in Threads, t # Main, pc[t] = "idle" \/ t \in TimerThreads,
           NEW s \in Socks, NEW o \in Ops \ {"none"}, Role(t, s, o, "found"),
           NEW q, GoodSock(q), q.mem = "live", q.lock = so[s].lock,
           q.asleep = so[s].asleep, q.rasleep = so[s].rasleep, Began(t, o, s, q)
    PROVE  LifeInv'
<1>2. /\ so' \in [Socks -> Socket] /\ so'[s] = q
      /\ \A x \in Socks \ {s} : so'[x] = so[x]
  BY DEF LifeInv, Typed, Began, GoodSock
<1>3. /\ pc' \in [Threads -> Pcs] /\ pc'[t] = "found"
      /\ \A u \in Threads \ {t} : pc'[u] = pc[u]
  BY DEF LifeInv, Typed, Began, Pcs
<1>4. /\ tgt' \in [Threads -> Socks \cup {NoThread}] /\ tgt'[t] = s
      /\ op' \in [Threads -> Ops] /\ op'[t] = o
      /\ \A u \in Threads \ {t} : tgt'[u] = tgt[u] /\ op'[u] = op[u]
  BY DEF LifeInv, Typed, Began
<1>5. Typed'
  BY <1>2, <1>3, <1>4 DEF LifeInv, Typed, Began
<1>6. Targets'
  BY <1>2, <1>3, <1>4 DEF LifeInv, Targets
<1>7. HoldsLock'
  <2> SUFFICES ASSUME NEW u \in Threads, u # Main, pc'[u] \in Holding
               PROVE  so'[tgt'[u]].lock = u
    BY DEF HoldsLock
  <2>1. u # t /\ pc[u] \in Holding /\ tgt'[u] = tgt[u]
    BY <1>3, <1>4 DEF Holding
  <2>2. tgt[u] \in Socks /\ so[tgt[u]].lock = u
    BY <2>1 DEF LifeInv, HoldsLock, Targets, Holding, Resting
  <2> QED
    BY <1>2, <2>1, <2>2
<1>8. Sleepers'
  <2> SUFFICES ASSUME NEW x \in Socks
               PROVE  /\ \A u \in so'[x].asleep :
                            /\ tgt'[u] = x /\ op'[u] = "connect"
                            /\ pc'[u] \in {"asleep", "exited"}
                      /\ \A u \in so'[x].rasleep :
                            /\ tgt'[u] = x /\ op'[u] = "read"
                            /\ pc'[u] \in {"rasleep", "exited"}
    BY DEF Sleepers
  <2>1. /\ \A u \in so[x].asleep :
              tgt[u] = x /\ op[u] = "connect" /\ pc[u] \in {"asleep", "exited"}
        /\ \A u \in so[x].rasleep :
              tgt[u] = x /\ op[u] = "read" /\ pc[u] \in {"rasleep", "exited"}
    BY DEF LifeInv, Sleepers
  <2>2. so[x].asleep \subseteq Threads /\ so[x].rasleep \subseteq Threads
    BY DEF LifeInv, Typed, Socket
  <2>3. so'[x].asleep = so[x].asleep /\ so'[x].rasleep = so[x].rasleep
    BY <1>2
  <2>4. t \notin so[x].asleep /\ t \notin so[x].rasleep
    <3>1. CASE pc[t] = "idle"
      BY <2>1, <3>1
    <3>2. CASE t \in TimerThreads
      <4>1. Role(t, tgt[t], op[t], pc[t])
        BY DEF LifeInv, Roles
      <4>2. op[t] \notin {"connect", "read"}
        BY <3>2, <4>1, ThreadsApart DEF Role, IpcOps
      <4> QED
        BY <2>1, <4>2
    <3> QED
      BY <3>1, <3>2
  <2> QED
    BY <1>3, <1>4, <2>1, <2>2, <2>3, <2>4
<1>9. Roles'
  <2> SUFFICES ASSUME NEW u \in Threads PROVE Role(u, tgt'[u], op'[u], pc'[u])
    BY DEF Roles
  <2>1. CASE u = t
    BY <1>3, <1>4, <2>1
  <2>2. CASE u # t
    BY <1>3, <1>4, <2>2 DEF LifeInv, Roles
  <2> QED
    BY <2>1, <2>2
<1>10. pc'[Main] \in {"idle", "done", "exited"}
  BY <1>3, ThreadsApart DEF LifeInv
<1> QED
  BY <1>5, <1>6, <1>7, <1>8, <1>9, <1>10 DEF LifeInv

\* A socket that is listed or has a timer has been allocated.
LEMMA AllocatedLive ==
    ASSUME NEW r, GoodSock(r),
           r.listed \/ r.stray \/ r.rto # "none" \/ r.linger # "none" \/ r.gc > 0
    PROVE  r \in Socket /\ r.mem = "live"
  BY DEF GoodSock, Unallocated

\* What changes when a timer expires.
LEMMA ExpiryEffect ==
    ASSUME NEW r, GoodSock(r), r.mem = "live"
    PROVE  /\ LET q == [r EXCEPT !.rto = "fired"]
              IN  GoodSock(q) /\ SameState(r, q) /\ q.rto = "fired" /\ q.linger = r.linger
                  /\ q.stray = r.stray /\ q.untracked = r.untracked
           /\ LET q == [r EXCEPT !.stray = FALSE]
              IN  GoodSock(q) /\ SameState(r, q) /\ q.rto = r.rto /\ q.linger = r.linger
                  /\ ~q.stray /\ q.untracked = r.untracked
           /\ LET q == [r EXCEPT !.linger = "fired"]
              IN  GoodSock(q) /\ SameState(r, q) /\ q.rto = r.rto /\ q.linger = "fired"
                  /\ q.stray = r.stray /\ q.untracked = r.untracked
<1>0. r \in Socket
  BY DEF GoodSock
<1>1. /\ [r EXCEPT !.rto = "fired"] \in Socket /\ [r EXCEPT !.linger = "fired"] \in Socket
      /\ [r EXCEPT !.stray = FALSE] \in Socket
  <2>1. FALSE \in BOOLEAN /\ "fired" \in {"none", "conn", "rto", "fired"}
        /\ "fired" \in {"none", "armed", "fired"}
    OBVIOUS
  <2>2. [r EXCEPT !.rto = "fired"] \in Socket
    BY <1>0, <2>1, Zenon DEF Socket
  <2>3. [r EXCEPT !.linger = "fired"] \in Socket
    BY <1>0, <2>1, Zenon DEF Socket
  <2>4. [r EXCEPT !.stray = FALSE] \in Socket
    BY <1>0, <2>1, Zenon DEF Socket
  <2> QED
    BY <2>2, <2>3, <2>4
<1>2. LET q == [r EXCEPT !.rto = "fired"]
      IN  SameState(r, q) /\ q.rto = "fired" /\ q.linger = r.linger
          /\ q.stray = r.stray /\ q.untracked = r.untracked
  BY <1>0 DEF Socket, SameState, SameLife
<1>3. LET q == [r EXCEPT !.stray = FALSE]
      IN  SameState(r, q) /\ q.rto = r.rto /\ q.linger = r.linger
          /\ ~q.stray /\ q.untracked = r.untracked
  BY <1>0 DEF Socket, SameState, SameLife
<1>4. LET q == [r EXCEPT !.linger = "fired"]
      IN  SameState(r, q) /\ q.rto = r.rto /\ q.linger = "fired"
          /\ q.stray = r.stray /\ q.untracked = r.untracked
  BY <1>0 DEF Socket, SameState, SameLife
<1>5. \A q \in Socket : SameState(r, q) => GoodSock(q)
  BY SameLifeGood DEF SameState
<1> QED
  BY <1>1, <1>2, <1>3, <1>4, <1>5

\* A call, or a segment.
LEMMA CallFacts ==
    ASSUME LifeInv, NEW t, NEW o, NEW s \in Socks,
           \/ /\ t \in Callers /\ Call(t, o, s)
              /\ o \in {"connect", "close", "read", "write", "poll", "query"}
           \/ t = Core /\ o = "segment" /\ Segment(s)
    PROVE  /\ t \in Threads /\ t # Main /\ t \notin TimerThreads
           /\ pc[t] = "idle" /\ ~exiting /\ slock = NoThread
           /\ so[s].listed /\ so[s].mem = "live" /\ GoodSock(so[s])
           /\ o \in Ops \ {"none"} /\ (o \in IpcOps => t = Ipc(s))
           /\ Role(t, s, o, "found") /\ Began(t, o, s, so[s]) /\ UNCHANGED so
<1>1. /\ pc[t] = "idle" /\ ~exiting /\ slock = NoThread /\ so[s].listed
      /\ Begin(t, o, s) /\ UNCHANGED so
  BY DEF Call, Segment
<1>2. /\ t \in Threads /\ t # Main /\ t \notin TimerThreads /\ o \in Ops \ {"none"}
      /\ o \in IpcOps => t = Ipc(s)
      /\ o = "poll" => t \in Callers
      /\ o = "segment" => t = Core
      /\ o \notin {"conn", "rto", "linger", "gc", "abort"}
  BY ThreadsApart DEF Call, Ops, IpcOps
<1>3. GoodSock(so[s]) /\ so[s].mem = "live"
  BY <1>1, AllocatedLive DEF LifeInv, Typed
<1>4. Role(t, s, o, "found")
  BY <1>2 DEF Role, ConnPlaces, ReadPlaces, FreePlaces, TimerOps
<1>5. so' = [so EXCEPT ![s] = so[s]]
  BY <1>1 DEF LifeInv, Typed
<1> QED
  BY <1>1, <1>2, <1>3, <1>4, <1>5 DEF Began, Begin

\* An expired retransmission timer.
LEMMA ExpireRtoFacts ==
    ASSUME LifeInv, NEW s \in Socks, ExpireRto(s)
    PROVE  \E q : \E o \in {"conn", "rto"} :
             /\ Rto(s) \in Threads /\ Rto(s) \in TimerThreads /\ Rto(s) # Main
             /\ pc[Rto(s)] = "idle" /\ ~exiting
             /\ so[s].mem = "live" /\ GoodSock(so[s]) /\ GoodSock(q) /\ SameState(so[s], q)
             /\ q.linger = so[s].linger /\ q.untracked = so[s].untracked
             /\ \/ so[s].rto = o /\ q.rto = "fired" /\ q.stray = so[s].stray
                \/ so[s].stray /\ o = "rto" /\ ~q.stray /\ q.rto = so[s].rto
             /\ Role(Rto(s), s, o, "found") /\ Began(Rto(s), o, s, q)
<1> DEFINE r == so[s]
<1>1. /\ ~exiting /\ pc[Rto(s)] = "idle"
      /\ \/ /\ r.rto \in {"conn", "rto"}
            /\ so' = [so EXCEPT ![s] = [r EXCEPT !.rto = "fired"]]
            /\ Begin(Rto(s), r.rto, s)
         \/ /\ r.stray
            /\ so' = [so EXCEPT ![s] = [r EXCEPT !.stray = FALSE]]
            /\ Begin(Rto(s), "rto", s)
  BY DEF ExpireRto, Rto
<1>2. GoodSock(r) /\ r.mem = "live"
  BY <1>1, AllocatedLive DEF LifeInv, Typed
<1>3. Rto(s) \in Threads /\ Rto(s) \in TimerThreads /\ Rto(s) # Main
  BY ThreadsApart
<1>4. \A o \in {"conn", "rto"} : Role(Rto(s), s, o, "found")
  BY DEF Role, ConnPlaces, ReadPlaces, FreePlaces, TimerOps, IpcOps
<1> HIDE DEF r
<1>5. CASE /\ r.rto \in {"conn", "rto"}
           /\ so' = [so EXCEPT ![s] = [r EXCEPT !.rto = "fired"]]
           /\ Begin(Rto(s), r.rto, s)
  <2> DEFINE q == [r EXCEPT !.rto = "fired"]
  <2>1. /\ GoodSock(q) /\ SameState(r, q) /\ q.rto = "fired" /\ q.linger = r.linger
        /\ q.stray = r.stray /\ q.untracked = r.untracked
    BY <1>2, ExpiryEffect
  <2>2. Began(Rto(s), r.rto, s, q)
    BY <1>5 DEF Began, Begin
  <2> HIDE DEF q
  <2> QED
    BY <1>1, <1>2, <1>3, <1>4, <1>5, <2>1, <2>2 DEF r
<1>6. CASE /\ r.stray
           /\ so' = [so EXCEPT ![s] = [r EXCEPT !.stray = FALSE]]
           /\ Begin(Rto(s), "rto", s)
  <2> DEFINE q == [r EXCEPT !.stray = FALSE]
  <2>1. /\ GoodSock(q) /\ SameState(r, q) /\ q.rto = r.rto /\ q.linger = r.linger
        /\ ~q.stray /\ q.untracked = r.untracked
    BY <1>2, ExpiryEffect
  <2>2. Began(Rto(s), "rto", s, q)
    BY <1>6 DEF Began, Begin
  <2> HIDE DEF q
  <2> QED
    BY <1>1, <1>2, <1>3, <1>4, <1>6, <2>1, <2>2 DEF r
<1> QED
  BY <1>1, <1>5, <1>6

\* An expired linger timer.
LEMMA ExpireLingerFacts ==
    ASSUME LifeInv, NEW s \in Socks, ExpireLinger(s)
    PROVE  \E q :
             /\ Linger(s) \in Threads /\ Linger(s) \in TimerThreads /\ Linger(s) # Main
             /\ ~exiting /\ Quiet(s) /\ so[s].linger = "armed"
             /\ so[s].mem = "live" /\ GoodSock(so[s]) /\ GoodSock(q) /\ SameState(so[s], q)
             /\ q.linger = "fired" /\ q.untracked = so[s].untracked
             /\ q.rto = so[s].rto /\ q.stray = so[s].stray
             /\ Role(Linger(s), s, "linger", "found") /\ Began(Linger(s), "linger", s, q)
<1> DEFINE r == so[s]
           q == [r EXCEPT !.linger = "fired"]
<1>1. /\ ~exiting /\ Quiet(s) /\ r.linger = "armed" /\ so' = [so EXCEPT ![s] = q]
      /\ Begin(Linger(s), "linger", s)
  BY DEF ExpireLinger, Linger
<1>2. GoodSock(r) /\ r.mem = "live"
  BY <1>1, AllocatedLive DEF LifeInv, Typed
<1>3. Linger(s) \in Threads /\ Linger(s) \in TimerThreads /\ Linger(s) # Main
  BY ThreadsApart
<1>4. Role(Linger(s), s, "linger", "found")
  BY DEF Role, ConnPlaces, ReadPlaces, FreePlaces, TimerOps, IpcOps
<1>5. Began(Linger(s), "linger", s, q)
  BY <1>1 DEF Began, Begin
<1> HIDE DEF r
<1>6. /\ GoodSock(q) /\ SameState(r, q) /\ q.rto = r.rto /\ q.linger = "fired"
      /\ q.stray = r.stray /\ q.untracked = r.untracked
  BY <1>2, ExpiryEffect
<1> HIDE DEF q
<1> QED
  BY <1>1, <1>2, <1>3, <1>4, <1>5, <1>6 DEF r

\* All but the pending timers of the collector.
SameButGc(r, q) ==
    /\ q.mem = r.mem /\ q.sk = r.sk /\ q.by = r.by /\ q.frees = r.frees
    /\ q.listed = r.listed /\ q.ss = r.ss /\ q.tcp = r.tcp
    /\ q.err = r.err /\ q.rto = r.rto /\ q.linger = r.linger /\ q.stray = r.stray
    /\ q.queued = r.queued /\ q.untracked = r.untracked
    /\ q.reconnected = r.reconnected
    /\ q.lock = r.lock /\ q.m = r.m /\ q.asleep = r.asleep /\ q.rasleep = r.rasleep

\* An expired timer of the collector.
LEMMA ExpireGcFacts ==
    ASSUME LifeInv, NEW s \in Socks, ExpireGc(s)
    PROVE  \E q :
             /\ Gc(s) \in Threads /\ Gc(s) \in TimerThreads /\ Gc(s) # Main
             /\ ~exiting /\ Quiet(s) /\ so[s].gc > 0
             /\ so[s].mem = "live" /\ GoodSock(so[s]) /\ GoodSock(q) /\ SameButGc(so[s], q)
             /\ q.gc = so[s].gc - 1
             /\ Role(Gc(s), s, "gc", "found") /\ Began(Gc(s), "gc", s, q)
<1> DEFINE r == so[s]
           n == r.gc - 1
           q == [r EXCEPT !.gc = n]
<1>1. /\ ~exiting /\ Quiet(s) /\ r.gc > 0 /\ so' = [so EXCEPT ![s] = q]
      /\ Begin(Gc(s), "gc", s)
  BY DEF ExpireGc, Gc
<1>2. GoodSock(r) /\ r.mem = "live" /\ r \in Socket
  BY <1>1, AllocatedLive DEF LifeInv, Typed
<1>3. Gc(s) \in Threads /\ Gc(s) \in TimerThreads /\ Gc(s) # Main
  BY ThreadsApart
<1>4. Role(Gc(s), s, "gc", "found")
  BY DEF Role, ConnPlaces, ReadPlaces, FreePlaces, TimerOps, IpcOps
<1>5. Began(Gc(s), "gc", s, q)
  BY <1>1 DEF Began, Begin
<1>6. n \in Nat /\ n = so[s].gc - 1
  BY <1>1, <1>2 DEF Socket
<1> HIDE DEF r, n
<1>7. q \in Socket
  BY <1>2, <1>6, Zenon DEF Socket
<1>8. SameButGc(r, q) /\ q.gc = n /\ q.refcnt = r.refcnt /\ q.doubled = r.doubled
  BY <1>2 DEF Socket, SameButGc
<1> HIDE DEF q
<1>9. GoodSock(q)
  BY <1>2, <1>7, <1>8 DEF GoodSock, SameButGc
<1> QED
  BY <1>1, <1>2, <1>3, <1>4, <1>5, <1>6, <1>8, <1>9 DEF r

\* All of these keep the first invariant.
LEMMA BeginLife ==
    ASSUME LifeInv, NEW s \in Socks,
           \/ \E t \in Callers :
                 \E o \in {"connect", "close", "read", "write", "poll", "query"} : Call(t, o, s)
           \/ Segment(s) \/ ExpireRto(s) \/ ExpireLinger(s) \/ ExpireGc(s)
    PROVE  LifeInv'
<1>1. ASSUME NEW t, NEW o,
             \/ /\ t \in Callers /\ Call(t, o, s)
                /\ o \in {"connect", "close", "read", "write", "poll", "query"}
             \/ t = Core /\ o = "segment" /\ Segment(s)
      PROVE  LifeInv'
  <2>1. /\ t \in Threads /\ t # Main /\ pc[t] = "idle" /\ so[s].mem = "live"
        /\ GoodSock(so[s]) /\ o \in Ops \ {"none"} /\ Role(t, s, o, "found")
        /\ Began(t, o, s, so[s])
    BY <1>1, CallFacts
  <2> QED
    BY <2>1, BeganLife
<1>2. CASE ExpireRto(s)
  <2>1. PICK q, o :
             /\ o \in {"conn", "rto"}
             /\ Rto(s) \in Threads /\ Rto(s) \in TimerThreads /\ Rto(s) # Main
             /\ so[s].mem = "live" /\ GoodSock(q) /\ SameState(so[s], q)
             /\ Role(Rto(s), s, o, "found") /\ Began(Rto(s), o, s, q)
    BY <1>2, ExpireRtoFacts
  <2>2. o \in Ops \ {"none"}
    BY <2>1 DEF Ops
  <2> QED
    BY <2>1, <2>2, BeganLife DEF SameState, SameLife
<1>3. CASE ExpireLinger(s)
  <2>1. PICK q :
             /\ Linger(s) \in Threads /\ Linger(s) \in TimerThreads /\ Linger(s) # Main
             /\ so[s].mem = "live" /\ GoodSock(q) /\ SameState(so[s], q)
             /\ Role(Linger(s), s, "linger", "found") /\ Began(Linger(s), "linger", s, q)
    BY <1>3, ExpireLingerFacts
  <2>2. "linger" \in Ops \ {"none"}
    BY DEF Ops
  <2> QED
    BY <2>1, <2>2, BeganLife DEF SameState, SameLife
<1>4. CASE ExpireGc(s)
  <2>1. PICK q :
             /\ Gc(s) \in Threads /\ Gc(s) \in TimerThreads /\ Gc(s) # Main
             /\ so[s].mem = "live" /\ GoodSock(q) /\ SameButGc(so[s], q)
             /\ Role(Gc(s), s, "gc", "found") /\ Began(Gc(s), "gc", s, q)
    BY <1>4, ExpireGcFacts
  <2>2. "gc" \in Ops \ {"none"}
    BY DEF Ops
  <2> QED
    BY <2>1, <2>2, BeganLife DEF SameButGc
<1> QED
  BY <1>1, <1>2, <1>3, <1>4

----------------------------------------------------------------------------
(* A new socket, and the end of the process *)

\* A new socket is as alloc_socket and sk_alloc make it.
LEMMA CreateFacts ==
    ASSUME LifeInv, NEW s \in Socks, Create(s)
    PROVE  LET q == [alloc_socket EXCEPT !.sk = "live", !.listed = TRUE]
           IN  /\ so[s] = Unallocated /\ pc[Ipc(s)] = "idle" /\ slock = NoThread
               /\ so' = [so EXCEPT ![s] = q] /\ Same /\ UNCHANGED pc
               /\ GoodSock(q) /\ q.mem = "live" /\ q.sk = "live" /\ q.listed
               /\ q.frees = 0 /\ q.by = "none" /\ q.lock = NoThread /\ q.m = NoThread
               /\ q.asleep = {} /\ q.rasleep = {} /\ q.ss = "UNCONNECTED"
               /\ q.tcp = "CLOSE" /\ q.rto = "none" /\ q.linger = "none" /\ ~q.stray
               /\ ~q.queued /\ q.gc = 0 /\ ~q.untracked /\ ~q.reconnected
<1> DEFINE q == [alloc_socket EXCEPT !.sk = "live", !.listed = TRUE]
<1>1. /\ so[s].mem = "none" /\ pc[Ipc(s)] = "idle" /\ slock = NoThread
      /\ so' = [so EXCEPT ![s] = q] /\ Same /\ UNCHANGED pc
  BY DEF Create
<1>2. so[s] = Unallocated
  BY <1>1 DEF LifeInv, Typed, GoodSock
<1>3. /\ q.mem = "live" /\ q.sk = "live" /\ q.listed /\ q.doubled = 0 /\ q.refcnt = 1
      /\ q.frees = 0 /\ q.by = "none" /\ q.lock = NoThread /\ q.m = NoThread
      /\ q.asleep = {} /\ q.rasleep = {} /\ q.ss = "UNCONNECTED"
      /\ q.tcp = "CLOSE" /\ q.rto = "none" /\ q.linger = "none" /\ ~q.stray
      /\ ~q.queued /\ q.gc = 0 /\ ~q.untracked /\ ~q.reconnected
  BY DEF alloc_socket, Unallocated
<1>4. q \in Socket
  BY DEF alloc_socket, Unallocated, Socket, Memory, TcpPhases
<1> HIDE DEF q
<1>5. GoodSock(q)
  BY <1>3, <1>4 DEF GoodSock
<1> QED
  BY <1>1, <1>2, <1>3, <1>5 DEF q

\* A new socket keeps the first invariant.
LEMMA CreateLife ==
    ASSUME LifeInv, NEW s \in Socks, Create(s)
    PROVE  LifeInv'
<1>1. PICK q : /\ so[s] = Unallocated /\ so' = [so EXCEPT ![s] = q] /\ Same /\ UNCHANGED pc
               /\ GoodSock(q) /\ q.mem = "live" /\ q.asleep = {} /\ q.rasleep = {}
  BY CreateFacts
<1>2. /\ so' \in [Socks -> Socket] /\ so'[s] = q
      /\ \A x \in Socks \ {s} : so'[x] = so[x]
  BY <1>1 DEF LifeInv, Typed, GoodSock
<1>3. so[s].mem = "none"
  BY <1>1 DEF Unallocated
<1>4. Typed'
  BY <1>1, <1>2 DEF LifeInv, Typed, Same
<1>5. Targets'
  BY <1>1, <1>2 DEF LifeInv, Targets, Same
<1>6. HoldsLock'
  <2> SUFFICES ASSUME NEW u \in Threads, u # Main, pc[u] \in Holding
               PROVE  so'[tgt[u]].lock = u
    BY <1>1 DEF HoldsLock, Same
  <2>1. tgt[u] \in Socks /\ so[tgt[u]].lock = u /\ so[tgt[u]].mem = "live"
    BY DEF LifeInv, HoldsLock, Targets, Holding, Resting
  <2> QED
    BY <1>2, <1>3, <2>1
<1>7. Sleepers'
  BY <1>1, <1>2 DEF LifeInv, Sleepers, Same
<1>8. Roles'
  BY <1>1 DEF LifeInv, Roles, Same
<1> QED
  BY <1>1, <1>4, <1>5, <1>6, <1>7, <1>8 DEF LifeInv

\* Main aborts a socket.
LEMMA AbortFacts ==
    ASSUME LifeInv, NEW s \in Socks, abort_sockets(s)
    PROVE  \E q : /\ so' = [so EXCEPT ![s] = q] /\ so[s].listed
                  /\ GoodSock(so[s]) /\ so[s].mem = "live"
                  /\ GoodSock(q) /\ SameLife(so[s], q)
                  /\ q.tcp = "CLOSING" /\ q.rto = "none" /\ q.linger = "none"
                  /\ q.stray = so[s].stray /\ q.untracked = so[s].untracked
                  /\ q.ss = so[s].ss /\ q.err = so[s].err /\ q.queued = so[s].queued
                  /\ q.reconnected = so[s].reconnected
                  /\ pc[Main] = "idle" /\ pc[Core] = "idle" /\ exiting' = TRUE
                  /\ pc' = [pc EXCEPT ![Main] = "done"]
                  /\ tgt' = [tgt EXCEPT ![Main] = s]
                  /\ op' = [op EXCEPT ![Main] = "abort"]
                  /\ UNCHANGED << slock, spurious, uaf >>
<1> DEFINE r == so[s]
           d == tcp_done(r)
           q == [d EXCEPT !.aborted = TRUE]
<1>1. /\ so' = [so EXCEPT ![s] = q] /\ r.listed
      /\ pc[Main] = "idle" /\ pc[Core] = "idle" /\ exiting' = TRUE
      /\ pc' = [pc EXCEPT ![Main] = "done"]
      /\ tgt' = [tgt EXCEPT ![Main] = s]
      /\ op' = [op EXCEPT ![Main] = "abort"]
      /\ UNCHANGED << slock, spurious, uaf >>
  BY DEF abort_sockets, Unaborted
<1>2. GoodSock(r) /\ r \in Socket /\ r.mem = "live"
  BY <1>1, AllocatedLive DEF LifeInv, Typed
<1> HIDE DEF r
<1>3. /\ d \in Socket /\ SameLife(r, d)
      /\ d.tcp = "CLOSING" /\ d.rto = "none" /\ d.linger = "none"
      /\ d.stray = r.stray /\ d.untracked = r.untracked
      /\ d.ss = r.ss /\ d.err = r.err /\ d.queued = r.queued
      /\ d.reconnected = r.reconnected
  BY <1>2, DoneEffect
<1> HIDE DEF d
<1>4. TRUE \in BOOLEAN
  OBVIOUS
<1>5. q \in Socket
  BY <1>3, <1>4, Zenon DEF Socket
<1>6. /\ SameLife(d, q)
      /\ q.tcp = d.tcp /\ q.rto = d.rto /\ q.linger = d.linger
      /\ q.stray = d.stray /\ q.untracked = d.untracked
      /\ q.ss = d.ss /\ q.err = d.err /\ q.queued = d.queued
      /\ q.reconnected = d.reconnected
  BY <1>3 DEF Socket, SameLife
<1> HIDE DEF q
<1>7. SameLife(r, q)
  BY <1>3, <1>6 DEF SameLife
<1>8. GoodSock(q)
  BY <1>2, <1>5, <1>7, SameLifeGood
<1> QED
  BY <1>1, <1>2, <1>3, <1>6, <1>7, <1>8 DEF r

\* It keeps the first invariant.
LEMMA AbortLife ==
    ASSUME LifeInv, NEW s \in Socks, abort_sockets(s)
    PROVE  LifeInv'
<1>1. PICK q : /\ so' = [so EXCEPT ![s] = q] /\ so[s].mem = "live"
               /\ GoodSock(q) /\ SameLife(so[s], q)
               /\ pc[Main] = "idle" /\ exiting' = TRUE
               /\ pc' = [pc EXCEPT ![Main] = "done"]
               /\ tgt' = [tgt EXCEPT ![Main] = s]
               /\ op' = [op EXCEPT ![Main] = "abort"]
               /\ UNCHANGED << slock, spurious, uaf >>
  BY AbortFacts
<1>2. /\ so' \in [Socks -> Socket] /\ so'[s] = q
      /\ \A x \in Socks \ {s} : so'[x] = so[x]
  BY <1>1 DEF LifeInv, Typed, GoodSock
<1>3. /\ pc' \in [Threads -> Pcs] /\ pc'[Main] = "done"
      /\ \A u \in Threads \ {Main} : pc'[u] = pc[u]
  BY <1>1, ThreadsApart DEF LifeInv, Typed, Pcs
<1>4. /\ tgt' \in [Threads -> Socks \cup {NoThread}] /\ tgt'[Main] = s
      /\ op' \in [Threads -> Ops] /\ op'[Main] = "abort"
      /\ \A u \in Threads \ {Main} : tgt'[u] = tgt[u] /\ op'[u] = op[u]
  BY <1>1, ThreadsApart DEF LifeInv, Typed, Ops
<1>5. Typed'
  BY <1>1, <1>2, <1>3, <1>4 DEF LifeInv, Typed
<1>6. Targets'
  BY <1>1, <1>2, <1>3, <1>4 DEF LifeInv, Targets, SameLife
<1>7. HoldsLock'
  <2> SUFFICES ASSUME NEW u \in Threads, u # Main, pc'[u] \in Holding
               PROVE  so'[tgt'[u]].lock = u
    BY DEF HoldsLock
  <2>1. tgt'[u] = tgt[u] /\ tgt[u] \in Socks /\ so[tgt[u]].lock = u
    BY <1>3, <1>4 DEF LifeInv, HoldsLock, Targets, Holding, Resting
  <2> QED
    BY <1>1, <1>2, <2>1 DEF SameLife
<1>8. Sleepers'
  <2> SUFFICES ASSUME NEW x \in Socks
               PROVE  /\ \A u \in so'[x].asleep :
                            /\ tgt'[u] = x /\ op'[u] = "connect"
                            /\ pc'[u] \in {"asleep", "exited"}
                      /\ \A u \in so'[x].rasleep :
                            /\ tgt'[u] = x /\ op'[u] = "read"
                            /\ pc'[u] \in {"rasleep", "exited"}
    BY DEF Sleepers
  <2>1. so'[x].asleep = so[x].asleep /\ so'[x].rasleep = so[x].rasleep
    BY <1>1, <1>2 DEF SameLife
  <2>2. so[x].asleep \subseteq Threads /\ so[x].rasleep \subseteq Threads
    BY DEF LifeInv, Typed, Socket
  <2>3. Main \notin so[x].asleep /\ Main \notin so[x].rasleep
    BY <1>1 DEF LifeInv, Sleepers
  <2> QED
    BY <1>3, <1>4, <2>1, <2>2, <2>3 DEF LifeInv, Sleepers
<1>9. Roles'
  <2> SUFFICES ASSUME NEW u \in Threads PROVE Role(u, tgt'[u], op'[u], pc'[u])
    BY DEF Roles
  <2>1. CASE u = Main
    BY <1>3, <1>4, <2>1
       DEF Role, ConnPlaces, ReadPlaces, FreePlaces, TimerOps, IpcOps
  <2>2. CASE u # Main
    BY <1>3, <1>4, <2>2 DEF LifeInv, Roles
  <2> QED
    BY <2>1, <2>2
<1> QED
  BY <1>3, <1>5, <1>6, <1>7, <1>8, <1>9 DEF LifeInv

\* The end of an abort: the next one, or the end of the process.
LEMMA AbortWakeFacts ==
    ASSUME LifeInv, AbortWake
    PROVE  /\ tgt[Main] \in Socks /\ pc[Main] = "done"
           /\ \E q : /\ so' = [so EXCEPT ![tgt[Main]] = q]
                     /\ GoodSock(q) /\ q.mem = "live" /\ q.ss = "DISCONNECTING"
                     /\ q.asleep = {} /\ q.m = NoThread /\ so[tgt[Main]].m = NoThread
                     /\ LET r == so[tgt[Main]]
                        IN  /\ q.sk = r.sk /\ q.by = r.by /\ q.frees = r.frees
                            /\ q.listed = r.listed /\ q.lock = r.lock
                            /\ q.rasleep = r.rasleep /\ q.tcp = r.tcp /\ q.err = r.err
                            /\ q.rto = r.rto /\ q.linger = r.linger /\ q.stray = r.stray
                            /\ q.queued = r.queued /\ q.untracked = r.untracked
                            /\ q.reconnected = r.reconnected
           /\ pc' \in [Threads -> Pcs] /\ pc'[Main] \in Resting
           /\ \A u \in Threads \ {Main} :
                 \/ pc'[u] = "exited"
                 \/ u \in so[tgt[Main]].asleep /\ pc'[u] = "woken"
                 \/ u \notin so[tgt[Main]].asleep /\ pc'[u] = pc[u]
           /\ Leave(Main)
<1> DEFINE s == tgt[Main]
           r == so[s]
           a == [r EXCEPT !.asleep = {}]
           q == socket_delete(a)
           P(t) == IF Unaborted = {} THEN "exited"
                   ELSE IF t = Main THEN "idle"
                   ELSE IF t \in r.asleep THEN "woken" ELSE pc[t]
<1>1. /\ pc[Main] = "done" /\ r.m = NoThread /\ so' = [so EXCEPT ![s] = q]
      /\ pc' = [t \in Threads |-> P(t)] /\ Leave(Main)
  BY DEF AbortWake, Sock
<1>2. s \in Socks /\ GoodSock(r) /\ r \in Socket /\ r.mem = "live" /\ Main \in Threads
  BY <1>1, ThreadsApart DEF LifeInv, Targets, Typed, GoodSock, Resting
<1>3. \A t \in Threads : /\ P(t) \in {"exited", "idle", "woken", pc[t]}
                         /\ P(Main) \in Resting
                         /\ t # Main => \/ P(t) = "exited"
                                        \/ t \in r.asleep /\ P(t) = "woken"
                                        \/ t \notin r.asleep /\ P(t) = pc[t]
  BY DEF Resting
<1> HIDE DEF P, r, s
<1>4. pc' \in [Threads -> Pcs]
  BY <1>1, <1>3 DEF LifeInv, Typed, Pcs
<1>5. /\ GoodSock(a) /\ SameTcp(r, a) /\ a.lock = r.lock
      /\ a.m = r.m /\ a.asleep = {} /\ a.rasleep = r.rasleep
  BY <1>2, AsleepEffect
<1> HIDE DEF a
<1>6. a.mem = "live"
  BY <1>2, <1>5 DEF SameTcp
<1>7. /\ GoodSock(q) /\ q.mem = "live" /\ q.ss = "DISCONNECTING"
      /\ q.sk = a.sk /\ q.by = a.by /\ q.frees = a.frees /\ q.listed = a.listed
      /\ q.lock = a.lock /\ q.m = a.m /\ q.asleep = a.asleep
      /\ q.rasleep = a.rasleep /\ q.tcp = a.tcp /\ q.err = a.err
      /\ q.rto = a.rto /\ q.linger = a.linger /\ q.stray = a.stray
      /\ q.queued = a.queued /\ q.untracked = a.untracked
      /\ q.reconnected = a.reconnected
  BY <1>5, <1>6, DeleteEffect
<1> HIDE DEF q
<1>8. /\ q.sk = r.sk /\ q.by = r.by /\ q.frees = r.frees
      /\ q.listed = r.listed /\ q.lock = r.lock /\ q.asleep = {} /\ q.m = NoThread
      /\ q.rasleep = r.rasleep /\ q.tcp = r.tcp /\ q.err = r.err
      /\ q.rto = r.rto /\ q.linger = r.linger /\ q.stray = r.stray
      /\ q.queued = r.queued /\ q.untracked = r.untracked
      /\ q.reconnected = r.reconnected
  BY <1>1, <1>5, <1>7 DEF SameTcp
<1>9. /\ pc'[Main] \in Resting
      /\ \A u \in Threads \ {Main} :
                 \/ pc'[u] = "exited"
                 \/ u \in r.asleep /\ pc'[u] = "woken"
                 \/ u \notin r.asleep /\ pc'[u] = pc[u]
  BY <1>1, <1>2, <1>3
<1> QED
  BY <1>1, <1>2, <1>4, <1>7, <1>8, <1>9 DEF r, s

\* It keeps the first invariant.
LEMMA AbortWakeLife ==
    ASSUME LifeInv, AbortWake
    PROVE  LifeInv'
<1> DEFINE s == tgt[Main]
<1>1. /\ s \in Socks /\ pc[Main] = "done"
      /\ \E q : /\ so' = [so EXCEPT ![s] = q]
                /\ GoodSock(q) /\ q.mem = "live" /\ q.asleep = {}
                /\ q.lock = so[s].lock /\ q.rasleep = so[s].rasleep
      /\ pc' \in [Threads -> Pcs] /\ pc'[Main] \in Resting
      /\ \A u \in Threads \ {Main} :
            \/ pc'[u] = "exited"
            \/ u \in so[s].asleep /\ pc'[u] = "woken"
            \/ u \notin so[s].asleep /\ pc'[u] = pc[u]
      /\ Leave(Main)
  BY AbortWakeFacts
<1>2. PICK q : /\ so' = [so EXCEPT ![s] = q]
               /\ GoodSock(q) /\ q.mem = "live" /\ q.asleep = {}
               /\ q.lock = so[s].lock /\ q.rasleep = so[s].rasleep
  BY <1>1
<1>3. /\ so' \in [Socks -> Socket] /\ so'[s] = q
      /\ \A x \in Socks \ {s} : so'[x] = so[x]
  BY <1>1, <1>2 DEF LifeInv, Typed, GoodSock
<1>4. /\ tgt' \in [Threads -> Socks \cup {NoThread}] /\ tgt'[Main] = NoThread
      /\ op' \in [Threads -> Ops] /\ op'[Main] = "none"
      /\ \A u \in Threads \ {Main} : tgt'[u] = tgt[u] /\ op'[u] = op[u]
  BY <1>1, ThreadsApart DEF LifeInv, Typed, Leave, Ops
<1>5. Typed'
  BY <1>1, <1>2, <1>3, <1>4 DEF LifeInv, Typed, Leave
<1>6. \A u \in so[s].asleep : tgt[u] = s /\ op[u] = "connect" /\ u # Main
  BY <1>1 DEF LifeInv, Sleepers
<1>7. Targets'
  <2> SUFFICES ASSUME NEW u \in Threads, pc'[u] \notin Resting
               PROVE  tgt'[u] \in Socks /\ so'[tgt'[u]].mem = "live" /\ op'[u] # "none"
    BY DEF Targets
  <2>1. u # Main /\ (u \in so[s].asleep \/ pc[u] = pc'[u])
    BY <1>1 DEF Resting
  <2>2. CASE u \in so[s].asleep
    BY <1>1, <1>2, <1>3, <1>4, <1>6, <2>1, <2>2
  <2>3. CASE pc[u] = pc'[u]
    BY <1>2, <1>3, <1>4, <2>1, <2>3 DEF LifeInv, Targets
  <2> QED
    BY <2>1, <2>2, <2>3
<1>8. HoldsLock'
  <2> SUFFICES ASSUME NEW u \in Threads, u # Main, pc'[u] \in Holding
               PROVE  so'[tgt'[u]].lock = u
    BY DEF HoldsLock
  <2>1. pc[u] = pc'[u]
    BY <1>1 DEF Holding
  <2>2. tgt'[u] = tgt[u] /\ tgt[u] \in Socks /\ so[tgt[u]].lock = u
    BY <1>4, <2>1 DEF LifeInv, HoldsLock, Targets, Holding, Resting
  <2> QED
    BY <1>2, <1>3, <2>2
<1>9. Sleepers'
  <2> SUFFICES ASSUME NEW x \in Socks
               PROVE  /\ \A u \in so'[x].asleep :
                            /\ tgt'[u] = x /\ op'[u] = "connect"
                            /\ pc'[u] \in {"asleep", "exited"}
                      /\ \A u \in so'[x].rasleep :
                            /\ tgt'[u] = x /\ op'[u] = "read"
                            /\ pc'[u] \in {"rasleep", "exited"}
    BY DEF Sleepers
  <2>1. so'[x].asleep \subseteq so[x].asleep /\ so'[x].rasleep = so[x].rasleep
    BY <1>2, <1>3
  <2>2. so[x].asleep \subseteq Threads /\ so[x].rasleep \subseteq Threads
    BY DEF LifeInv, Typed, Socket
  <2>3. /\ \A u \in so[x].asleep :
              tgt[u] = x /\ op[u] = "connect" /\ pc[u] \in {"asleep", "exited"}
        /\ \A u \in so[x].rasleep :
              tgt[u] = x /\ op[u] = "read" /\ pc[u] \in {"rasleep", "exited"}
    BY DEF LifeInv, Sleepers
  <2>4. Main \notin so[x].asleep /\ Main \notin so[x].rasleep
    BY <1>1, <2>3
  <2>5. \A u \in so'[x].asleep : u \notin so[s].asleep
    BY <1>1, <1>2, <1>3, <1>6, <2>1, <2>3
  <2>6. \A u \in so[x].rasleep : u \notin so[s].asleep
    BY <1>1, <1>6, <2>3
  <2> QED
    BY <1>1, <1>4, <2>1, <2>2, <2>3, <2>4, <2>5, <2>6
<1>10. Roles'
  <2> SUFFICES ASSUME NEW u \in Threads PROVE Role(u, tgt'[u], op'[u], pc'[u])
    BY DEF Roles
  <2>1. CASE u = Main
    BY <1>1, <1>4, <2>1
       DEF Role, ConnPlaces, ReadPlaces, FreePlaces, TimerOps, IpcOps, Resting
  <2>2. CASE u # Main
    <3>1. Role(u, tgt[u], op[u], pc[u]) /\ tgt'[u] = tgt[u] /\ op'[u] = op[u]
      BY <1>4, <2>2 DEF LifeInv, Roles
    <3>2. CASE pc'[u] = "exited"
      BY <3>1, <3>2
         DEF Role, ConnPlaces, ReadPlaces, FreePlaces, TimerOps, IpcOps
    <3>3. CASE u \in so[s].asleep /\ pc'[u] = "woken"
      BY <1>6, <3>1, <3>3
         DEF Role, ConnPlaces, ReadPlaces, FreePlaces, TimerOps, IpcOps
    <3>4. CASE pc'[u] = pc[u]
      BY <3>1, <3>4
    <3> QED
      BY <1>1, <2>2, <3>2, <3>3, <3>4
  <2> QED
    BY <2>1, <2>2
<1> QED
  BY <1>1, <1>5, <1>7, <1>8, <1>9, <1>10 DEF LifeInv, Resting

----------------------------------------------------------------------------
(* The first invariant is inductive *)

\* It holds of the initial state.
LEMMA InitLife == Init => LifeInv
<1> SUFFICES ASSUME Init PROVE LifeInv
  OBVIOUS
<1>1. Unallocated \in Socket
  BY DEF Unallocated, Socket, Memory, TcpPhases
<1>2. GoodSock(Unallocated)
  BY <1>1 DEF GoodSock, Unallocated
<1>3. /\ \A s \in Socks : so[s] = Unallocated
      /\ \A t \in Threads : pc[t] = "idle" /\ tgt[t] = NoThread /\ op[t] = "none"
  BY DEF Init
<1>4. Typed
  BY <1>1, <1>2 DEF Init, Typed, Pcs, Ops
<1>5. Targets /\ HoldsLock
  BY <1>3 DEF Targets, HoldsLock, Holding, Resting
<1>6. Sleepers
  BY <1>3 DEF Sleepers, Unallocated
<1>7. Roles
  BY <1>3 DEF Roles, Role, ConnPlaces, ReadPlaces, FreePlaces, TimerOps, IpcOps
<1> QED
  BY <1>3, <1>4, <1>5, <1>6, <1>7, ThreadsApart DEF LifeInv

\* The handlers of application calls, segments and timers.
LEMMA Handlers ==
    ASSUME LifeInv,
           NEW t \in Threads,
           \/ ConnectIn(t) \/ CloseIn(t) \/ WriteIn(t) \/ ReadIn(t) \/ ReadAgain(t)
           \/ PollIn(t) \/ QueryIn(t) \/ ConnRtoIn(t) \/ RtoIn(t) \/ LingerIn(t)
           \/ t = Core /\ SegmentIn
    PROVE  HandlerStep(t)
  BY QueryStep, ConnectStep, CloseStep, WriteStep, ReadStep, ConnRtoStep, RtoStep,
     LingerStep, SegmentStep

\* Every step keeps it.
LEMMA NextLife == LifeInv /\ [Next]_vars => LifeInv'
<1> SUFFICES ASSUME LifeInv, [Next]_vars PROVE LifeInv'
  OBVIOUS
<1>1. CASE CallNext
  BY <1>1, BeginLife DEF CallNext
<1>2. ASSUME NEW t \in Threads, ThreadStep(t) \/ WakeSpuriously(t)
      PROVE  LifeInv'
  <2>1. CASE \/ ConnectIn(t) \/ CloseIn(t) \/ WriteIn(t) \/ ReadIn(t) \/ ReadAgain(t)
             \/ PollIn(t) \/ QueryIn(t) \/ ConnRtoIn(t) \/ RtoIn(t) \/ LingerIn(t)
    BY <2>1, Handlers, HandlerLife
  <2>2. CASE Release(t)
    BY <2>2, LeaveLife
  <2>3. CASE socket_garbage_collect(t)
    BY <2>3, LeaveLife, LockingLife
  <2>4. CASE \/ Acquire(t) \/ TouchFreed(t) \/ Wake(t) \/ LockSleep(t) \/ Check(t)
             \/ WaitSleep(t) \/ WakeSpuriously(t)
             \/ FreeLock(t) \/ ConnectFailed(t) \/ FreeUnlist(t) \/ FreeSock(t)
             \/ FreeWait(t)
    BY <2>4, LockingLife
  <2> QED
    BY <1>2, <2>1, <2>2, <2>3, <2>4 DEF ThreadStep
<1>3. CASE SegmentIn
  BY <1>3, ThreadsApart, Handlers, HandlerLife
<1>4. ASSUME NEW s \in Socks,
             \/ Create(s) \/ Segment(s) \/ abort_sockets(s)
             \/ ExpireRto(s) \/ ExpireLinger(s) \/ ExpireGc(s)
      PROVE  LifeInv'
  BY <1>4, CreateLife, BeginLife, AbortLife
<1>5. CASE AbortWake
  BY <1>5, AbortWakeLife
<1>6. CASE UNCHANGED vars
  BY <1>6 DEF vars, LifeInv, Typed, Targets, HoldsLock, Sleepers, Roles
<1> QED
  BY <1>1, <1>2, <1>3, <1>4, <1>5, <1>6 DEF Next

\* What it says of types and of the reference count.
LEMMA LifeImplies == LifeInv => TypeOK /\ RefcntExact
  BY DEF LifeInv, Typed, TypeOK, RefcntExact, GoodSock

\* The invariant holds throughout.
THEOREM LifeInvariant == Spec => []LifeInv
<1>1. Init => LifeInv
  BY InitLife
<1>2. LifeInv /\ [Next]_vars => LifeInv'
  BY NextLife
<1> QED
  BY <1>1, <1>2, PTL DEF Spec

\* Every socket, thread and flag keeps its type, for any number of sockets and
\* of polling threads.
THEOREM TypeCorrect == Spec => []TypeOK
<1>1. LifeInv => TypeOK
  BY LifeImplies
<1> QED
  BY <1>1, LifeInvariant, PTL

\* The reference count of src/socket.c is exact: one for the socket, one for the
\* thread that has the lock, one for every finished wait of connect(). It never
\* reaches 0 while a thread may lock the socket.
THEOREM ReferencesCounted == Spec => []RefcntExact
<1>1. LifeInv => RefcntExact
  BY LifeImplies
<1> QED
  BY <1>1, LifeInvariant, PTL

----------------------------------------------------------------------------
(***************************************************************************)
(* Part 2: a struct sock is freed once, timers that tcp_done cancels never *)
(* find it freed, and no threads wait for each other for ever.             *)
(*                                                                         *)
(* What is true of a socket s depends on its record r, on the places P of  *)
(* the threads that work on it, on the calls O they are in, on whether its *)
(* IPC thread was woken for no reason (w), and on whether the process is   *)
(* about to end (e). The invariant is stated, and shown to be kept by each *)
(* kind of step, in these terms.                                           *)
(***************************************************************************)

(* The second inductive invariant *)

\* The places, and the calls, of the threads that work on a socket.
View(s) == [u \in Threads |-> IF tgt[u] = s /\ pc[u] # "exited" THEN pc[u] ELSE "idle"]
Calls(s) == [u \in Threads |-> IF View(s)[u] = "idle" THEN "none" ELSE op[u]]

\* What the first invariant says of one socket.
Basics(s, r, P, O, e) ==
    /\ GoodSock(r) /\ P \in [Threads -> Pcs \ {"exited"}] /\ O \in [Threads -> Ops]
    /\ \A u \in Threads : /\ Role(u, s, O[u], P[u])
                          /\ P[u] = "idle" <=> O[u] = "none"
                          /\ u # Main /\ P[u] \in Holding => r.lock = u
    /\ P[Main] \in {"idle", "done"}
    /\ P[Main] = "done" => e
    /\ e => P[Core] = "idle"

\* Who holds the lock of the socket and that of its wait queue, and who sleeps
\* in the queue: only the IPC thread of the socket does, in connect().
LocksOk(s, r, P) ==
    /\ r.lock # NoThread => r.lock # Main /\ P[r.lock] \in Holding
    /\ r.m # NoThread => r.m = Ipc(s) /\ P[Ipc(s)] \in {"check", "towait", "reacquire"}
    /\ P[Ipc(s)] \in {"check", "towait", "reacquire"} => r.m = Ipc(s)
    /\ r.asleep = IF P[Ipc(s)] = "asleep" THEN {Ipc(s)} ELSE {}

\* The collector is at work, or has been.
GcBusy(s, P) == P[Gc(s)] \in FreePlaces \cup {"found"}
GcFreed(r) == r.sk = "freed" /\ r.by = "gc"

\* Between the decision to free a socket and the free, nobody else decides it,
\* unless connect() was called on a socket that was given up.
FreesOk(s, r, P) ==
    /\ r.listed => r.sk = "live"
    /\ r.frees > 0 => r.sk = "freed"
    /\ r.frees <= 1 \/ r.reconnected
    /\ \A u \in Threads : P[u] \in {"free3", "free4"} => ~r.listed
    /\ \/ r.reconnected
       \/ \A u \in Threads : P[u] \in {"outfree", "free1", "free2", "free3"} => r.frees = 0
    /\ GcBusy(s, P) => P[Ipc(s)] \notin ConnPlaces
    /\ GcBusy(s, P) /\ ~r.reconnected =>
          P[Ipc(s)] \notin {"outfree", "free1", "free2", "free3"}

\* A socket with a collector was given up; nobody sleeps on it, and nobody will.
GivenUpOk(s, r, P, e) ==
    /\ (r.gc > 0 /\ ~e) \/ GcBusy(s, P) \/ GcFreed(r) => r.ss = "DISCONNECTING"
    /\ r.ss = "DISCONNECTING" =>
          r.asleep = {} /\ P[Ipc(s)] \notin {"towait", "asleep"}
    /\ r.ss = "DISCONNECTING" /\ ~e => r.tcp # "SYN_SENT"
    /\ \A u \in Threads \ {Main} :
          /\ P[u] = "done" => r.tcp = "CLOSING" /\ r.rto = "none" /\ r.linger = "none"
          /\ P[u] = "wake" => r.tcp # "SYN_SENT"

\* Before connect() nothing runs.
FreshOk(s, r, P, e) ==
    r.ss = "UNCONNECTED" /\ ~e =>
        /\ r.tcp = "CLOSE" /\ r.linger = "none" /\ r.rto = "none"
        /\ ~r.stray /\ ~r.queued
        /\ P[Rto(s)] = "idle" /\ P[Linger(s)] = "idle" /\ P[Ipc(s)] \notin ReadPlaces

\* While connect() waits: the attempt goes on, has succeeded or has failed; who
\* ended it is about to wake the sleeper; only the first retransmission timer
\* and its handler are there; and a thread that was woken by a wait_wakeup finds
\* nobody else who waits for the lock of the wait queue.
ConnectingOk(s, r, P, O, w, e) ==
    P[Ipc(s)] \in ConnPlaces /\ ~e =>
        /\ \/ /\ r.ss = "CONNECTING" /\ r.tcp = "SYN_SENT" /\ r.err = "EINPROGRESS"
              /\ r.linger # "armed"
           \/ /\ r.ss = "CONNECTED" /\ r.err = "0" /\ r.tcp \in {"OPEN", "TIME_WAIT"}
              /\ ~r.queued
           \/ /\ r.ss # "CONNECTED" /\ r.err \in {"ECONNREFUSED", "ETIMEDOUT"}
              /\ r.tcp \in {"CLOSING", "TIME_WAIT"}
        /\ P[Ipc(s)] \in {"towait", "asleep"} =>
              \/ r.tcp = "SYN_SENT"
              \/ r.lock # NoThread /\ P[r.lock] \in {"wake", "done"}
        /\ P[Linger(s)] = "idle"
        /\ ~r.stray /\ r.rto # "rto" /\ O[Rto(s)] # "rto"
        /\ P[Rto(s)] \in {"found", "in"} => r.rto # "conn"
        /\ P[Ipc(s)] \in {"woken", "reacquire"} /\ ~w =>
              /\ r.tcp # "SYN_SENT"
              /\ \A u \in Threads : P[u] \notin {"wake", "done", "lockm", "free4"}

\* A socket that was given up has no timer running or about to run once the
\* collector is there, unless it is one that tcp_done could not cancel.
TimedOk(s, r, P, e) ==
    /\ r.stray => r.untracked
    /\ r.ss = "DISCONNECTING" /\ ~e /\ ~r.untracked =>
          r.rto \notin {"conn", "rto"} /\ r.linger # "armed"
    /\ (GcBusy(s, P) \/ GcFreed(r)) /\ ~r.untracked =>
          P[Rto(s)] \notin {"found", "in"} /\ P[Linger(s)] \notin {"found", "in"}

FreeOk(s, r, P, O, w, e) ==
    /\ LocksOk(s, r, P) /\ FreesOk(s, r, P) /\ GivenUpOk(s, r, P, e)
    /\ FreshOk(s, r, P, e) /\ ConnectingOk(s, r, P, O, w, e) /\ TimedOk(s, r, P, e)

\* The writer of the list; the order of the exit; threads that have gone.
ListOk ==
    /\ slock # NoThread => pc[slock] = "free2"
    /\ \A t \in Threads : pc[t] = "free2" => slock = t

EndsOk ==
    /\ pc[Main] = "done" => exiting
    /\ exiting => pc[Core] = "idle"
    /\ \A t \in Threads : pc[t] = "exited" => op[t] = "none"

Working ==
    /\ pc[Main] # "exited" /\ ListOk /\ EndsOk
    /\ \A s \in Socks :
          FreeOk(s, so[s], View(s), Calls(s), Ipc(s) \in spurious, exiting)

Ended == exiting /\ \A t \in Threads : pc[t] = "exited"

FreeInv == LifeInv /\ FreedOnce /\ FreedUses /\ (Working \/ Ended)

----------------------------------------------------------------------------
(* Which thread can be where *)

\* By its place, or by its call, a thread is known.
LEMMA WhoIs ==
    ASSUME NEW s \in Socks, NEW r, NEW P, NEW O, NEW e, Basics(s, r, P, O, e)
    PROVE  /\ \A u \in Threads :
                 /\ P[u] \in ConnPlaces \cup ReadPlaces \cup {"outfree"} => u = Ipc(s)
                 /\ P[u] \in FreePlaces => u \in {Ipc(s), Gc(s)}
                 /\ P[u] = "wake" => u \in {Core, Rto(s)}
                 /\ O[u] \in IpcOps => u = Ipc(s)
                 /\ O[u] \in {"conn", "rto"} => u = Rto(s)
                 /\ O[u] = "linger" => u = Linger(s)
                 /\ O[u] = "gc" => u = Gc(s)
                 /\ O[u] = "segment" => u = Core
                 /\ O[u] = "abort" => u = Main
                 /\ P[u] \in {"in", "rin"} => u # Main
           /\ P[Gc(s)] \in FreePlaces \cup {"idle", "found", "out"}
           /\ P[Gc(s)] # "idle" => O[Gc(s)] = "gc"
           /\ P[Rto(s)] \in {"idle", "found", "in", "out", "wake", "done"}
           /\ P[Rto(s)] # "idle" => O[Rto(s)] \in {"conn", "rto"}
           /\ P[Linger(s)] \in {"idle", "found", "in", "out", "done"}
           /\ P[Linger(s)] # "idle" => O[Linger(s)] = "linger"
           /\ P[Ipc(s)] \in ConnPlaces \cup {"outfree"} => O[Ipc(s)] = "connect"
           /\ P[Ipc(s)] \in ReadPlaces => O[Ipc(s)] = "read"
           /\ r \in Socket /\ Ipc(s) \in Threads /\ Rto(s) \in Threads
           /\ Linger(s) \in Threads /\ Gc(s) \in Threads /\ NoThread \notin Threads
<1>1. /\ Ipc(s) \in Threads /\ Rto(s) \in Threads /\ Linger(s) \in Threads
      /\ Gc(s) \in Threads /\ r \in Socket /\ NoThread \notin Threads
      /\ Rto(s) # Ipc(s) /\ Linger(s) # Ipc(s) /\ Gc(s) # Ipc(s)
      /\ Rto(s) \notin Callers /\ Linger(s) \notin Callers /\ Gc(s) \notin Callers
      /\ Rto(s) # Core /\ Linger(s) # Core /\ Gc(s) # Core
      /\ Rto(s) # Main /\ Linger(s) # Main /\ Gc(s) # Main
      /\ Rto(s) # Linger(s) /\ Rto(s) # Gc(s) /\ Linger(s) # Gc(s)
  BY ThreadsApart, NoThreadApart DEF Basics, GoodSock
<1>2. \A u \in Threads : Role(u, s, O[u], P[u]) /\ O[u] \in Ops
                         /\ (P[u] = "idle" <=> O[u] = "none") /\ P[u] \in Pcs \ {"exited"}
  BY DEF Basics
<1>3. \A u \in Threads :
         /\ P[u] \in ConnPlaces \cup ReadPlaces \cup {"outfree"} => u = Ipc(s)
         /\ P[u] \in FreePlaces => u \in {Ipc(s), Gc(s)}
         /\ P[u] = "wake" => u \in {Core, Rto(s)}
         /\ O[u] \in IpcOps => u = Ipc(s)
         /\ O[u] \in {"conn", "rto"} => u = Rto(s)
         /\ O[u] = "linger" => u = Linger(s)
         /\ O[u] = "gc" => u = Gc(s)
         /\ O[u] = "segment" => u = Core
         /\ O[u] = "abort" => u = Main
  BY <1>2 DEF Role, IpcOps
<1>4. \A u \in Threads : P[u] \in {"in", "rin"} => u # Main
  BY DEF Basics
<1>5. /\ P[Gc(s)] # "idle" => O[Gc(s)] = "gc"
      /\ P[Rto(s)] # "idle" => O[Rto(s)] \in {"conn", "rto"}
      /\ P[Linger(s)] # "idle" => O[Linger(s)] = "linger"
  <2>1. \A u \in {Gc(s), Rto(s), Linger(s)} :
           P[u] # "idle" => O[u] \in {"conn", "rto", "linger", "gc"}
    BY <1>1, <1>2 DEF Role, IpcOps, Ops
  <2> QED
    BY <1>1, <1>3, <2>1
<1>6. /\ P[Gc(s)] \in FreePlaces \cup {"idle", "found", "out"}
      /\ P[Rto(s)] \in {"idle", "found", "in", "out", "wake", "done"}
      /\ P[Linger(s)] \in {"idle", "found", "in", "out", "done"}
  BY <1>1, <1>2, <1>5 DEF Role, TimerOps
<1>7. /\ P[Ipc(s)] \in ConnPlaces \cup {"outfree"} => O[Ipc(s)] = "connect"
      /\ P[Ipc(s)] \in ReadPlaces => O[Ipc(s)] = "read"
  BY <1>1, <1>2 DEF Role
<1> QED
  BY <1>1, <1>3, <1>4, <1>5, <1>6, <1>7

----------------------------------------------------------------------------
(* The handlers *)

\* Thread t goes to p, and others stay where they are or wake from read().
Goes(P, Z, t, p) ==
    /\ Z[t] = p
    /\ \A u \in Threads \ {t} : Z[u] = P[u] \/ (P[u] = "rasleep" /\ Z[u] = "rwoken")

\* A handler keeps the invariant of its socket.
LEMMA HandlerFree ==
    ASSUME NEW s \in Socks, NEW r, NEW P, NEW O, NEW w, NEW e,
           Basics(s, r, P, O, e), FreeOk(s, r, P, O, w, e),
           NEW t \in Threads, P[t] \in {"in", "rin"}, r.sk = "live",
           NEW q, NEW p, NEW Z, HandledBy(O[t], r, q, p), Goes(P, Z, t, p),
           P[t] = "in" /\ O[t] = "read" /\ r.tcp = "CLOSE" => SameTimers(r, q) /\ p = "out"
    PROVE  FreeOk(s, q, Z, O, w, e)
<1>0. /\ t # Main /\ r.lock = t /\ t # NoThread /\ t # Gc(s)
      /\ \A u \in Threads \ {t} : P[u] \in Holding => u = Main
      /\ P[t] = "rin" => t = Ipc(s)
      /\ Ipc(s) \in Threads /\ Rto(s) \in Threads /\ Linger(s) \in Threads /\ Gc(s) \in Threads
  BY WhoIs DEF Basics, Holding, FreePlaces, ReadPlaces
<1>h. Handled(O[t], r, q, p)
  BY DEF HandledBy
<1>f. /\ LocksOk(s, r, P) /\ FreesOk(s, r, P) /\ GivenUpOk(s, r, P, e)
      /\ FreshOk(s, r, P, e) /\ ConnectingOk(s, r, P, O, w, e) /\ TimedOk(s, r, P, e)
  BY DEF FreeOk
<1>z. /\ Z[t] = p /\ p \in {"out", "outfree", "wake", "done", "lockm", "rasleep"}
      /\ \A u \in Threads \ {t} : Z[u] = P[u] \/ (P[u] = "rasleep" /\ Z[u] = "rwoken")
      /\ Z[Gc(s)] = P[Gc(s)] /\ (GcBusy(s, Z) <=> GcBusy(s, P))
  <2>1. Z[t] = p /\ p \in {"out", "outfree", "wake", "done", "lockm", "rasleep"}
    BY <1>h DEF Goes, Handled
  <2>2. P[Gc(s)] # "rasleep"
    BY WhoIs DEF FreePlaces
  <2> QED
    BY <1>0, <2>1, <2>2 DEF Goes, GcBusy
<1>1. LocksOk(s, q, Z)
  BY <1>0, <1>h, <1>f, <1>z DEF LocksOk, Handled, Holding
<1>2. FreesOk(s, q, Z)
  <2>1. p \in {"lockm", "outfree"} => O[t] = "connect" /\ t = Ipc(s)
    BY <1>h, WhoIs DEF Handled, IpcOps
  <2>2. p = "lockm" => ~GcBusy(s, P)
    BY <1>h, <1>f DEF Handled, GivenUpOk
  <2> QED
    BY <1>0, <1>h, <1>f, <1>z, <2>1, <2>2 DEF FreesOk, Handled, ConnPlaces
<1>3. GivenUpOk(s, q, Z, e)
  <2>1. O[t] = "segment" => ~e
    BY <1>0, WhoIs DEF Basics
  <2>2. q.ss = "DISCONNECTING" => r.ss = "DISCONNECTING"
    BY <1>h DEF Handled
  <2>3. r.ss = "DISCONNECTING" => q.ss = "DISCONNECTING"
    BY <1>h, <1>f, <2>1 DEF Handled, GivenUpOk
  <2>4. \A u \in Threads \ {Main} :
          /\ Z[u] = "done" => q.tcp = "CLOSING" /\ q.rto = "none" /\ q.linger = "none"
          /\ Z[u] = "wake" => q.tcp # "SYN_SENT"
    BY <1>0, <1>h, <1>z DEF Handled, Holding
  <2>5. GcFreed(q) <=> GcFreed(r)
    BY <1>h DEF GcFreed, Handled
  <2> QED
    BY <1>0, <1>h, <1>f, <1>z, <2>2, <2>3, <2>4, <2>5 DEF GivenUpOk, Handled
<1>4. FreshOk(s, q, Z, e)
  <2> SUFFICES ASSUME q.ss = "UNCONNECTED", ~e
               PROVE  /\ q.tcp = "CLOSE" /\ q.linger = "none" /\ q.rto = "none"
                      /\ ~q.stray /\ ~q.queued
                      /\ Z[Rto(s)] = "idle" /\ Z[Linger(s)] = "idle"
                      /\ Z[Ipc(s)] \notin ReadPlaces
    BY DEF FreshOk
  <2>1. r.ss = "UNCONNECTED"
    BY <1>h DEF Handled
  <2>2. /\ r.tcp = "CLOSE" /\ r.linger = "none" /\ r.rto = "none"
        /\ ~r.stray /\ ~r.queued
        /\ P[Rto(s)] = "idle" /\ P[Linger(s)] = "idle"
        /\ P[Ipc(s)] \notin ReadPlaces
    BY <1>f, <2>1 DEF FreshOk
  <2>3. t # Rto(s) /\ t # Linger(s) /\ P[t] = "in"
    BY <1>0, <2>2 DEF ReadPlaces
  <2>4. O[t] \notin TimerOps
    BY <2>3, WhoIs DEF TimerOps
  <2>5. SameTimers(r, q) /\ p # "rasleep"
    BY <1>h, <2>2, <2>3, <2>4 DEF HandledBy, Handled
  <2> QED
    BY <1>0, <1>z, <2>2, <2>3, <2>5 DEF SameTimers, ReadPlaces
<1>5. ConnectingOk(s, q, Z, O, w, e)
  <2> SUFFICES ASSUME Z[Ipc(s)] \in ConnPlaces, ~e
               PROVE  ConnectingOk(s, q, Z, O, w, e)
    BY DEF ConnectingOk
  <2>1. CASE t = Ipc(s)
    <3>1. p = "lockm" /\ r.ss = "UNCONNECTED"
      BY <1>h, <1>z, <2>1 DEF ConnPlaces, Handled
    <3>2. /\ r.linger = "none" /\ r.rto = "none" /\ ~r.stray /\ ~r.queued
          /\ P[Rto(s)] = "idle" /\ P[Linger(s)] = "idle"
      BY <1>f, <3>1 DEF FreshOk
    <3>3. /\ q.ss = "CONNECTING" /\ q.tcp = "SYN_SENT" /\ q.err = "EINPROGRESS"
          /\ q.linger = "none" /\ q.rto = "conn" /\ ~q.stray
      BY <1>h, <3>1, <3>2 DEF Handled
    <3>4. O[Rto(s)] = "none" /\ Z[Rto(s)] = "idle" /\ Z[Linger(s)] = "idle"
      BY <1>0, <1>z, <2>1, <3>2 DEF Basics
    <3> QED
      BY <1>z, <2>1, <3>1, <3>3, <3>4 DEF ConnectingOk
  <2>2. CASE t # Ipc(s)
    <3>1. Z[Ipc(s)] = P[Ipc(s)] /\ P[Ipc(s)] \in ConnPlaces /\ P[t] = "in"
      BY <1>0, <1>z, <2>2 DEF ConnPlaces
    <3>2. /\ \/ /\ r.ss = "CONNECTING" /\ r.tcp = "SYN_SENT" /\ r.err = "EINPROGRESS"
                /\ r.linger # "armed"
             \/ /\ r.ss = "CONNECTED" /\ r.err = "0" /\ r.tcp \in {"OPEN", "TIME_WAIT"}
                /\ ~r.queued
             \/ /\ r.ss # "CONNECTED" /\ r.err \in {"ECONNREFUSED", "ETIMEDOUT"}
                /\ r.tcp \in {"CLOSING", "TIME_WAIT"}
          /\ P[Ipc(s)] \in {"towait", "asleep"} => r.tcp = "SYN_SENT"
          /\ P[Linger(s)] = "idle"
          /\ ~r.stray /\ r.rto # "rto" /\ O[Rto(s)] # "rto"
          /\ P[Rto(s)] \in {"found", "in"} => r.rto # "conn"
          /\ P[Ipc(s)] \in {"woken", "reacquire"} /\ ~w =>
                /\ r.tcp # "SYN_SENT"
                /\ \A u \in Threads : P[u] \notin {"wake", "done", "lockm", "free4"}
      BY <1>0, <1>f, <3>1 DEF ConnectingOk
    <3>3. O[t] \in {"poll", "segment", "conn"} /\ (O[t] = "conn" => t = Rto(s))
      <4>1. O[t] \in Ops /\ O[t] # "none" /\ O[t] # "linger" /\ O[t] # "gc" /\ O[t] # "abort"
            /\ O[t] # "rto" /\ O[t] \notin IpcOps
        BY <1>0, <2>2, <3>1, <3>2, WhoIs DEF Basics
      <4> QED
        BY <4>1, WhoIs DEF Ops, IpcOps
    <3>4. /\ \/ SamePhase(r, q) /\ SameTimers(r, q) /\ p = "out"
             \/ /\ O[t] = "conn" /\ SamePhase(r, q) /\ p = "out" /\ r.tcp = "SYN_SENT"
                /\ q.rto = "conn" /\ q.linger = r.linger /\ q.queued = r.queued
             \/ /\ O[t] = "conn" /\ SamePhase(r, q) /\ p = "out" /\ q.rto = "none"
                /\ q.linger = r.linger /\ q.queued = r.queued
             \/ /\ r.tcp = "SYN_SENT" /\ p = "done" /\ q.rto = "none" /\ q.tcp = "CLOSING"
                /\ q.err \in {"ETIMEDOUT", "ECONNREFUSED"} /\ q.ss = r.ss
             \/ /\ r.tcp = "SYN_SENT" /\ p = "wake" /\ q.ss = "CONNECTED" /\ q.tcp = "OPEN"
                /\ q.err = "0" /\ ~q.queued /\ q.rto = "none"
             \/ /\ q.tcp = "TIME_WAIT" /\ q.ss = r.ss /\ q.err = r.err
                /\ q.rto \in {r.rto, "none"} /\ p = "out"
                /\ q.queued = r.queued \/ (~q.queued /\ r.tcp \in {"OPEN", "TIME_WAIT", "CLOSING"})
                /\ r.tcp \in {"OPEN", "TIME_WAIT", "CLOSING"}
          /\ ~q.stray
      <4>1. CASE O[t] = "poll"
        BY <3>2, <4>1 DEF HandledBy, SameTimers
      <4>2. CASE O[t] = "conn"
        <5>1. r.rto \notin {"conn", "rto"}
          BY <3>1, <3>2, <3>3, <4>2
        <5> QED
          BY <1>h, <3>2, <4>2, <5>1 DEF HandledBy, Handled
      <4>3. CASE O[t] = "segment"
        BY <1>h, <3>2, <4>3 DEF HandledBy, Handled
      <4> QED
        BY <3>3, <4>1, <4>2, <4>3
    <3>5. /\ q.lock = r.lock /\ q.lock = t /\ Z[t] = p
      BY <1>0, <1>h, <1>z, <3>4 DEF Handled
    <3>6. /\ \/ /\ q.ss = "CONNECTING" /\ q.tcp = "SYN_SENT" /\ q.err = "EINPROGRESS"
                /\ q.linger # "armed"
             \/ /\ q.ss = "CONNECTED" /\ q.err = "0" /\ q.tcp \in {"OPEN", "TIME_WAIT"}
                /\ ~q.queued
             \/ /\ q.ss # "CONNECTED" /\ q.err \in {"ECONNREFUSED", "ETIMEDOUT"}
                /\ q.tcp \in {"CLOSING", "TIME_WAIT"}
          /\ P[Ipc(s)] \in {"towait", "asleep"} => q.tcp = "SYN_SENT" \/ p \in {"wake", "done"}
          /\ q.rto # "rto"
      BY <3>2, <3>4 DEF SamePhase, SameTimers
    <3>7. /\ P[Linger(s)] = Z[Linger(s)]
          /\ Z[Rto(s)] \in {"found", "in"} => q.rto # "conn"
      <4>1. t # Linger(s) /\ (t = Rto(s) => Z[Rto(s)] = p) /\ p \notin {"found", "in"}
        BY <1>z, <3>1, <3>2
      <4>2. t # Rto(s) => Z[Rto(s)] = P[Rto(s)] /\ O[t] # "conn"
        BY <1>0, <1>z, <3>3, WhoIs
      <4> QED
        BY <1>0, <1>z, <3>2, <3>4, <4>1, <4>2 DEF SameTimers
    <3>8. P[Ipc(s)] \in {"woken", "reacquire"} /\ ~w =>
                /\ q.tcp # "SYN_SENT"
                /\ \A u \in Threads : Z[u] \notin {"wake", "done", "lockm", "free4"}
      BY <1>z, <3>2, <3>4 DEF SamePhase
    <3> QED
      BY <1>0, <3>1, <3>2, <3>4, <3>5, <3>6, <3>7, <3>8 DEF ConnectingOk
  <2> QED
    BY <2>1, <2>2
<1>6. TimedOk(s, q, Z, e)
  <2>1. ~GcFreed(q) /\ (q.ss = "DISCONNECTING" => r.ss = "DISCONNECTING")
        /\ TimersKept(r, q)
    BY <1>h DEF GcFreed, Handled
  <2>2. /\ Z[Rto(s)] \in {"found", "in"} => P[Rto(s)] \in {"found", "in"}
        /\ Z[Linger(s)] \in {"found", "in"} => P[Linger(s)] \in {"found", "in"}
    BY <1>0, <1>z
  <2> QED
    BY <1>f, <1>z, <2>1, <2>2 DEF TimedOk, TimersKept
<1> QED
  BY <1>1, <1>2, <1>3, <1>4, <1>5, <1>6 DEF FreeOk

----------------------------------------------------------------------------
(* Steps that change places and locks only *)

\* Thread t in call o goes from a to p, and its socket r becomes q.
LockMove(t, o, a, p, r, q) ==
    \/ /\ r.lock = NoThread /\ q.lock = t /\ q.m = r.m /\ q.asleep = r.asleep
       /\ \/ a = "found" /\ o # "gc" /\ p = "in"
          \/ a = "rwoken" /\ p = "rin"
          \/ a = "reacquire" /\ p = "check"
    \/ /\ r.lock = t /\ q.lock = NoThread /\ q.m = r.m /\ q.asleep = r.asleep
       /\ \/ a = "out" /\ p = "idle"
          \/ a = "outfree" /\ p = "free1"
          \/ a = "check" /\ p = "towait" /\ r.ss = "CONNECTING" /\ r.err = "EINPROGRESS"
    \/ /\ a \in {"in", "rin", "check"} /\ p = "out" /\ q.lock = r.lock
       /\ q.m = (IF r.m = t THEN NoThread ELSE r.m) /\ q.asleep = r.asleep
    \/ /\ r.m = NoThread /\ q.m = t /\ q.lock = r.lock /\ q.asleep = r.asleep
       /\ (a = "lockm" /\ p = "check") \/ (a = "woken" /\ p = "reacquire")
    \/ /\ a = "towait" /\ p = "asleep" /\ q.lock = r.lock /\ q.m = NoThread
       /\ q.asleep = r.asleep \cup {t}
    \/ /\ a = "asleep" /\ p = "woken" /\ q.lock = r.lock /\ q.m = r.m
       /\ q.asleep = r.asleep \ {t}
    \/ /\ a = "free4" /\ p = "out" /\ q.lock = r.lock /\ q.m = r.m /\ q.asleep = {}
    \/ /\ q.lock = r.lock /\ q.m = r.m /\ q.asleep = r.asleep
       /\ \/ a = "found" /\ o = "gc" /\ r.listed /\ p = "free1"
          \/ a = "found" /\ o = "gc" /\ p = "idle"
          \/ a = "free1" /\ p = "free2"
          \/ a = "idle" /\ p = "found" /\ t \notin TimerThreads

\* Such a step keeps the invariant of its socket.
LEMMA MoveFree ==
    ASSUME NEW s \in Socks, NEW r, NEW P, NEW O, NEW w, NEW e,
           Basics(s, r, P, O, e), FreeOk(s, r, P, O, w, e),
           NEW t \in Threads, t # Main, NEW q, NEW p, NEW Z, NEW Y, NEW v,
           SameTcp(r, q), LockMove(t, O[t], P[t], p, r, q),
           Z[t] = p, \A u \in Threads \ {t} : Z[u] = P[u],
           Y[Rto(s)] \in {O[Rto(s)], "none"},
           v = w \/ (t = Ipc(s) /\ p \in {"woken", "towait"}), p = "woken" => v
    PROVE  FreeOk(s, q, Z, Y, v, e)
<1>0. /\ Ipc(s) \in Threads /\ Rto(s) \in Threads /\ Linger(s) \in Threads
      /\ Gc(s) \in Threads /\ t # NoThread /\ NoThread \notin Threads
      /\ Rto(s) \in TimerThreads /\ Linger(s) \in TimerThreads /\ Gc(s) \in TimerThreads
  BY WhoIs, ThreadsApart
<1>1. /\ P[t] \in ConnPlaces \cup ReadPlaces \cup {"outfree"} => t = Ipc(s)
      /\ P[t] \in FreePlaces => t \in {Ipc(s), Gc(s)}
      /\ O[t] = "gc" => t = Gc(s)
      /\ P[t] \in Holding => r.lock = t
      /\ \A u \in Threads : u # Main /\ P[u] \in Holding => r.lock = u
  BY WhoIs DEF Basics
<1>f. /\ LocksOk(s, r, P) /\ FreesOk(s, r, P) /\ GivenUpOk(s, r, P, e)
      /\ FreshOk(s, r, P, e) /\ ConnectingOk(s, r, P, O, w, e) /\ TimedOk(s, r, P, e)
  BY DEF FreeOk
<1>2. LocksOk(s, q, Z)
  <2>1. CASE P[t] = "free4"
    <3>1. t = Gc(s) => P[Ipc(s)] # "asleep"
      BY <1>f, <2>1 DEF FreesOk, GcBusy, FreePlaces, ConnPlaces
    <3>2. P[Ipc(s)] # "asleep"
      BY <1>1, <2>1, <3>1 DEF FreePlaces
    <3> QED
      BY <1>0, <1>1, <1>f, <2>1, <3>2 DEF LocksOk, LockMove, Holding
  <2>2. CASE P[t] # "free4"
    <3>1. q.lock # NoThread => q.lock # Main /\ Z[q.lock] \in Holding
      <4>1. r.lock \in Threads \cup {NoThread}
        BY DEF Basics, GoodSock, Socket
      <4>2. \/ q.lock = r.lock /\ (r.lock = t => p \in Holding)
            \/ q.lock = t /\ p \in Holding
            \/ q.lock = NoThread
        BY <1>f, <2>2 DEF LockMove, LocksOk, Holding
      <4> QED
        BY <1>f, <4>1, <4>2 DEF LocksOk
    <3>2. /\ q.m # NoThread =>
                q.m = Ipc(s) /\ Z[Ipc(s)] \in {"check", "towait", "reacquire"}
          /\ Z[Ipc(s)] \in {"check", "towait", "reacquire"} => q.m = Ipc(s)
      <4>1. CASE t = Ipc(s)
        BY <1>0, <1>f, <4>1 DEF LockMove, LocksOk
      <4>2. CASE t # Ipc(s)
        <5>1. q.m = r.m
          BY <1>1, <1>f, <4>2 DEF LockMove, LocksOk, ConnPlaces
        <5> QED
          BY <1>0, <1>f, <4>2, <5>1 DEF LocksOk
      <4> QED
        BY <4>1, <4>2
    <3>3. q.asleep = IF Z[Ipc(s)] = "asleep" THEN {Ipc(s)} ELSE {}
      <4>1. CASE t = Ipc(s)
        BY <1>0, <1>f, <2>2, <4>1 DEF LockMove, LocksOk
      <4>2. CASE t # Ipc(s)
        <5>1. q.asleep = r.asleep
          BY <1>1, <2>2, <4>2 DEF LockMove, ConnPlaces
        <5> QED
          BY <1>0, <1>f, <4>2, <5>1 DEF LocksOk
      <4> QED
        BY <4>1, <4>2
    <3> QED
      BY <3>1, <3>2, <3>3 DEF LocksOk
  <2> QED
    BY <2>1, <2>2
<1>3. /\ GcBusy(s, Z) => GcBusy(s, P)
      /\ GcFreed(q) <=> GcFreed(r)
      /\ Z[Ipc(s)] \in ConnPlaces => P[Ipc(s)] \in ConnPlaces
      /\ Z[Ipc(s)] \in ReadPlaces => P[Ipc(s)] \in ReadPlaces
      /\ Z[Rto(s)] \in {"found", "in"} => P[Rto(s)] \in {"found", "in"}
      /\ Z[Linger(s)] \in {"found", "in"} => P[Linger(s)] \in {"found", "in"}
      /\ P[Rto(s)] = "idle" => Z[Rto(s)] = "idle"
      /\ P[Linger(s)] = "idle" => Z[Linger(s)] = "idle"
      /\ p \notin {"wake", "done", "lockm", "free3", "free4", "outfree"}
      /\ P[t] \notin {"wake", "done"}
  <2>1. /\ p \notin {"wake", "done", "lockm", "free3", "free4", "outfree"}
        /\ P[t] \notin {"wake", "done"}
        /\ p \in ConnPlaces => P[t] \in ConnPlaces
        /\ p \in ReadPlaces => P[t] \in ReadPlaces
        /\ p = "in" => P[t] = "found"
        /\ p = "found" => t \notin TimerThreads
        /\ P[t] = "idle" => t \notin TimerThreads
        /\ p = "free1" => P[t] = "outfree" \/ (P[t] = "found" /\ O[t] = "gc" /\ r.listed)
        /\ p = "free2" => P[t] = "free1"
    BY DEF LockMove, ConnPlaces, ReadPlaces
  <2>2. t = Gc(s) => P[t] # "outfree"
    BY <1>1, ThreadsApart
  <2>3. GcFreed(q) <=> GcFreed(r)
    BY DEF GcFreed, SameTcp
  <2>4. GcBusy(s, Z) => GcBusy(s, P)
    BY <1>0, <1>1, <2>1, <2>2 DEF GcBusy, FreePlaces
  <2> QED
    BY <1>0, <2>1, <2>3, <2>4
<1>4. FreesOk(s, q, Z)
  <2>1. /\ p \in {"free1", "free2"} =>
              \/ P[t] \in {"outfree", "free1"}
              \/ t = Gc(s) /\ r.listed /\ P[t] = "found"
        /\ t = Ipc(s) /\ p \in {"free1", "free2"} => P[t] \in {"outfree", "free1"}
    BY <1>1, ThreadsApart DEF LockMove
  <2>2. r.listed => r.frees = 0
    <3>1. r.frees \in Nat /\ (r.listed => r.sk # "freed")
      BY <1>f DEF FreesOk, Basics, GoodSock, Socket
    <3> QED
      BY <1>f, <3>1 DEF FreesOk
  <2>3. /\ q.listed = r.listed /\ q.sk = r.sk /\ q.frees = r.frees
        /\ q.reconnected = r.reconnected
    BY DEF SameTcp
  <2>4. \/ r.reconnected
        \/ \A u \in Threads : Z[u] \in {"outfree", "free1", "free2", "free3"} => r.frees = 0
    BY <1>0, <1>3, <1>f, <2>1, <2>2 DEF FreesOk
  <2>5. GcBusy(s, Z) /\ ~r.reconnected =>
             Z[Ipc(s)] \notin {"outfree", "free1", "free2", "free3"}
    BY <1>0, <1>3, <1>f, <2>1 DEF FreesOk
  <2> QED
    BY <1>0, <1>3, <1>f, <2>3, <2>4, <2>5 DEF FreesOk
<1>5. GivenUpOk(s, q, Z, e)
  <2>1. r.ss = "DISCONNECTING" => q.asleep = {} /\ Z[Ipc(s)] \notin {"towait", "asleep"}
    BY <1>0, <1>1, <1>f DEF GivenUpOk, LockMove, ConnPlaces
  <2>2. /\ q.gc = r.gc /\ q.ss = r.ss /\ q.tcp = r.tcp /\ q.rto = r.rto
        /\ q.linger = r.linger
    BY DEF SameTcp
  <2> QED
    BY <1>3, <1>f, <2>1, <2>2 DEF GivenUpOk
<1>6. FreshOk(s, q, Z, e)
  BY <1>3, <1>f DEF FreshOk, SameTcp
<1>7. ConnectingOk(s, q, Z, Y, v, e)
  <2> SUFFICES ASSUME Z[Ipc(s)] \in ConnPlaces, ~e
               PROVE  ConnectingOk(s, q, Z, Y, v, e)
    BY DEF ConnectingOk
  <2>1. /\ q.ss = r.ss /\ q.tcp = r.tcp /\ q.rto = r.rto /\ q.err = r.err
        /\ q.linger = r.linger /\ q.queued = r.queued /\ q.stray = r.stray
    BY DEF SameTcp
  <2>2. P[Ipc(s)] \in ConnPlaces
    BY <1>3
  <2>3. r.lock # NoThread /\ P[r.lock] \in {"wake", "done"} =>
           q.lock = r.lock /\ Z[r.lock] = P[r.lock]
    <3> SUFFICES ASSUME r.lock # NoThread, P[r.lock] \in {"wake", "done"}
                 PROVE  q.lock = r.lock /\ Z[r.lock] = P[r.lock]
      OBVIOUS
    <3>1. r.lock \in Threads /\ r.lock # t
      BY <1>3 DEF Basics, GoodSock, Socket
    <3>2. q.lock = r.lock
      BY <3>1 DEF LockMove
    <3> QED
      BY <3>1, <3>2
  <2>4. Z[Ipc(s)] \in {"towait", "asleep"} =>
           \/ q.tcp = "SYN_SENT"
           \/ q.lock # NoThread /\ Z[q.lock] \in {"wake", "done"}
    <3> SUFFICES ASSUME Z[Ipc(s)] \in {"towait", "asleep"}
                 PROVE  \/ q.tcp = "SYN_SENT"
                        \/ q.lock # NoThread /\ Z[q.lock] \in {"wake", "done"}
      OBVIOUS
    <3>1. CASE P[Ipc(s)] \in {"towait", "asleep"}
      BY <1>f, <2>1, <2>2, <2>3, <3>1 DEF ConnectingOk
    <3>2. CASE P[Ipc(s)] \notin {"towait", "asleep"}
      <4>1. t = Ipc(s) /\ r.ss = "CONNECTING" /\ r.err = "EINPROGRESS"
        BY <1>0, <3>2 DEF LockMove
      <4> QED
        BY <1>f, <2>1, <2>2, <4>1 DEF ConnectingOk
    <3> QED
      BY <3>1, <3>2
  <2>5. Z[Ipc(s)] \in {"woken", "reacquire"} /\ ~v =>
           P[Ipc(s)] \in {"woken", "reacquire"} /\ ~w
    BY <1>0 DEF LockMove
  <2>6. Y[Rto(s)] # "rto"
    BY <1>f, <2>2 DEF ConnectingOk
  <2> QED
    BY <1>3, <1>f, <2>1, <2>2, <2>4, <2>5, <2>6 DEF ConnectingOk
<1>8. TimedOk(s, q, Z, e)
  BY <1>3, <1>f DEF TimedOk, SameTcp
<1> QED
  BY <1>2, <1>4, <1>5, <1>6, <1>7, <1>8 DEF FreeOk

----------------------------------------------------------------------------
(* The other steps *)

\* All but the state of the socket, its locks and the collector's timers.
SameButState(r, q) ==
    /\ q.sk = r.sk /\ q.by = r.by /\ q.frees = r.frees /\ q.listed = r.listed
    /\ q.tcp = r.tcp /\ q.err = r.err /\ q.rto = r.rto /\ q.linger = r.linger
    /\ q.stray = r.stray /\ q.queued = r.queued /\ q.untracked = r.untracked
    /\ q.reconnected = r.reconnected

\* wait_wakeup, and the end of tcp_done.
LEMMA WakeFree ==
    ASSUME NEW s \in Socks, NEW r, NEW P, NEW O, NEW w, NEW e,
           Basics(s, r, P, O, e), FreeOk(s, r, P, O, w, e),
           NEW t \in Threads, t # Main, P[t] \in {"wake", "done"}, r.m = NoThread,
           NEW q, NEW Z, SameButState(r, q), q.lock = t, q.m = NoThread, q.asleep = {},
           P[t] = "done" => q.ss = "DISCONNECTING",
           P[t] = "wake" => q.ss = r.ss /\ q.gc = r.gc,
           Z[t] = "out",
           \A u \in Threads \ {t} : Z[u] = IF u \in r.asleep THEN "woken" ELSE P[u]
    PROVE  FreeOk(s, q, Z, O, w, e)
<1>0. /\ Ipc(s) \in Threads /\ Rto(s) \in Threads /\ Linger(s) \in Threads
      /\ Gc(s) \in Threads /\ t # NoThread /\ NoThread \notin Threads
      /\ t # Gc(s) /\ Gc(s) # Ipc(s) /\ Rto(s) # Ipc(s) /\ Linger(s) # Ipc(s)
  BY WhoIs, ThreadsApart DEF FreePlaces
<1>1. /\ r.lock = t /\ \A u \in Threads \ {t} : P[u] \in Holding => u = Main
      /\ P[Main] \in {"idle", "done"} /\ (P[Main] = "done" => e)
  BY DEF Basics, Holding
<1>f. /\ LocksOk(s, r, P) /\ FreesOk(s, r, P) /\ GivenUpOk(s, r, P, e)
      /\ FreshOk(s, r, P, e) /\ ConnectingOk(s, r, P, O, w, e) /\ TimedOk(s, r, P, e)
  BY DEF FreeOk
<1>2. /\ P[Ipc(s)] \notin {"check", "towait", "reacquire"}
      /\ r.asleep = IF P[Ipc(s)] = "asleep" THEN {Ipc(s)} ELSE {}
      /\ r.tcp # "SYN_SENT"
      /\ P[t] = "done" => r.tcp = "CLOSING" /\ r.rto = "none" /\ r.linger = "none"
  BY <1>0, <1>f DEF LocksOk, GivenUpOk
<1>3. /\ \A u \in Threads \ {t, Ipc(s)} : Z[u] = P[u]
      /\ Ipc(s) # t => Z[Ipc(s)] = IF P[Ipc(s)] = "asleep" THEN "woken" ELSE P[Ipc(s)]
      /\ GcBusy(s, Z) <=> GcBusy(s, P)
      /\ GcFreed(q) <=> GcFreed(r)
  BY <1>0, <1>2 DEF GcBusy, GcFreed, SameButState
<1>4. LocksOk(s, q, Z)
  BY <1>0, <1>2, <1>3 DEF LocksOk, Holding
<1>5. FreesOk(s, q, Z)
  BY <1>0, <1>3, <1>f DEF FreesOk, SameButState, ConnPlaces
<1>6. GivenUpOk(s, q, Z, e)
  <2>1. \A u \in Threads \ {Main} : Z[u] \notin {"wake", "done"}
    BY <1>0, <1>1, <1>3 DEF Holding
  <2>2. Z[Ipc(s)] \notin {"towait", "asleep"}
    BY <1>0, <1>2, <1>3
  <2> QED
    BY <1>2, <1>3, <1>f, <2>1, <2>2 DEF GivenUpOk, SameButState
<1>7. FreshOk(s, q, Z, e)
  <2>1. Z[Ipc(s)] \in ReadPlaces => P[Ipc(s)] \in ReadPlaces
    BY <1>0, <1>3 DEF ReadPlaces
  <2> QED
    BY <1>0, <1>3, <1>f, <2>1 DEF FreshOk, SameButState
<1>8. ConnectingOk(s, q, Z, O, w, e)
  <2> SUFFICES ASSUME Z[Ipc(s)] \in ConnPlaces, ~e
               PROVE  ConnectingOk(s, q, Z, O, w, e)
    BY DEF ConnectingOk
  <2>1. t # Ipc(s) /\ P[Ipc(s)] \in ConnPlaces /\ Z[Ipc(s)] \notin {"towait", "asleep"}
    BY <1>2, <1>3 DEF ConnPlaces
  <2>2. \A u \in Threads : Z[u] \notin {"wake", "done", "lockm", "free4"}
    BY <1>0, <1>1, <1>2, <1>3, <2>1 DEF Holding
  <2>3. /\ Z[Linger(s)] = "idle"
        /\ Z[Rto(s)] \in {"found", "in"} => P[Rto(s)] \in {"found", "in"}
    BY <1>0, <1>3, <1>f, <2>1 DEF ConnectingOk
  <2> QED
    BY <1>2, <1>f, <2>1, <2>2, <2>3 DEF ConnectingOk, SameButState
<1>9. TimedOk(s, q, Z, e)
  BY <1>0, <1>2, <1>3, <1>f DEF TimedOk, SameButState
<1> QED
  BY <1>4, <1>5, <1>6, <1>7, <1>8, <1>9 DEF FreeOk

\* connect() leaves its loop.
LEMMA LeftFree ==
    ASSUME NEW s \in Socks, NEW r, NEW P, NEW O, NEW w, NEW e,
           Basics(s, r, P, O, e), FreeOk(s, r, P, O, w, e),
           P[Ipc(s)] = "check", r.sk = "live",
           NEW q, NEW Z, NEW v, SameButState(r, q), q.lock = r.lock, q.m = NoThread,
           q.asleep = r.asleep, q.gc = r.gc,
           q.ss = IF r.err = "0" THEN "CONNECTED" ELSE r.ss,
           Z[Ipc(s)] \in {"out", "outfree"},
           \A u \in Threads \ {Ipc(s)} : Z[u] = P[u]
    PROVE  FreeOk(s, q, Z, O, v, e)
<1>0. /\ Ipc(s) \in Threads /\ Rto(s) \in Threads /\ Linger(s) \in Threads
      /\ Gc(s) \in Threads /\ NoThread \notin Threads
      /\ Gc(s) # Ipc(s) /\ Rto(s) # Ipc(s) /\ Linger(s) # Ipc(s) /\ Ipc(s) # Main
      /\ r \in Socket
  BY WhoIs, ThreadsApart
<1>1. /\ r.lock = Ipc(s) /\ \A u \in Threads \ {Ipc(s)} : P[u] \in Holding => u = Main
  BY <1>0 DEF Basics, Holding
<1>f. /\ LocksOk(s, r, P) /\ FreesOk(s, r, P) /\ GivenUpOk(s, r, P, e)
      /\ FreshOk(s, r, P, e) /\ ConnectingOk(s, r, P, O, w, e) /\ TimedOk(s, r, P, e)
  BY DEF FreeOk
<1>2. /\ ~GcBusy(s, P) /\ ~GcBusy(s, Z) /\ ~GcFreed(q) /\ ~GcFreed(r)
      /\ P[Ipc(s)] \in ConnPlaces /\ Z[Ipc(s)] \notin ConnPlaces
  BY <1>0, <1>f DEF FreesOk, GcBusy, GcFreed, SameButState, ConnPlaces
<1>3. ~e => /\ q.ss = "DISCONNECTING" <=> r.ss = "DISCONNECTING"
            /\ q.ss = "UNCONNECTED" => r.ss = "UNCONNECTED"
  BY <1>2, <1>f DEF ConnectingOk
<1>4. LocksOk(s, q, Z)
  BY <1>0, <1>1, <1>f DEF LocksOk, Holding
<1>5. FreesOk(s, q, Z)
  <2>1. r.frees = 0
    <3>1. r.frees \in Nat
      BY <1>0 DEF Socket
    <3> QED
      BY <1>f, <3>1 DEF FreesOk
  <2> QED
    BY <1>0, <1>2, <1>f, <2>1 DEF FreesOk, SameButState
<1>6. GivenUpOk(s, q, Z, e)
  <2>1. \A u \in Threads \ {Main} : Z[u] \notin {"wake", "done"}
    BY <1>0, <1>1 DEF Holding
  <2>2. r.asleep = {}
    BY <1>f DEF LocksOk
  <2> QED
    BY <1>2, <1>3, <1>f, <2>1, <2>2 DEF GivenUpOk, SameButState
<1>7. FreshOk(s, q, Z, e)
  BY <1>0, <1>3, <1>f DEF FreshOk, SameButState, ReadPlaces
<1>8. ConnectingOk(s, q, Z, O, v, e)
  BY <1>2 DEF ConnectingOk
<1>9. TimedOk(s, q, Z, e)
  BY <1>2, <1>3, <1>f DEF TimedOk, SameButState
<1> QED
  BY <1>4, <1>5, <1>6, <1>7, <1>8, <1>9 DEF FreeOk

\* The socket is taken off the list, and its struct sock freed.
LEMMA FreeingFree ==
    ASSUME NEW s \in Socks, NEW r, NEW P, NEW O, NEW w, NEW e,
           Basics(s, r, P, O, e), FreeOk(s, r, P, O, w, e),
           NEW t \in Threads, NEW q, NEW Z,
           q.lock = t, q.m = r.m, q.asleep = r.asleep, q.gc = r.gc, q.ss = r.ss,
           q.tcp = r.tcp, q.err = r.err, q.rto = r.rto, q.linger = r.linger,
           q.stray = r.stray, q.queued = r.queued, q.untracked = r.untracked,
           q.reconnected = r.reconnected,
           \/ /\ P[t] = "free2" /\ Z[t] = "free3" /\ r.lock = NoThread
              /\ ~q.listed /\ q.sk = r.sk /\ q.by = r.by /\ q.frees = r.frees
           \/ /\ P[t] = "free3" /\ Z[t] = "free4" /\ q.listed = r.listed
              /\ q.sk = "freed" /\ q.frees = r.frees + 1
              /\ q.by = IF O[t] = "gc" THEN "gc" ELSE "connect",
           \A u \in Threads \ {t} : Z[u] = P[u]
    PROVE  FreeOk(s, q, Z, O, w, e)
<1>0. /\ Ipc(s) \in Threads /\ Rto(s) \in Threads /\ Linger(s) \in Threads
      /\ Gc(s) \in Threads /\ t # NoThread /\ NoThread \notin Threads
      /\ Gc(s) # Ipc(s) /\ Rto(s) # Ipc(s) /\ Linger(s) # Ipc(s) /\ t # Main
      /\ r \in Socket /\ t \in {Ipc(s), Gc(s)} /\ (O[t] = "gc" => t = Gc(s))
      /\ Rto(s) # Gc(s) /\ Linger(s) # Gc(s)
  BY WhoIs, ThreadsApart DEF FreePlaces
<1>f. /\ LocksOk(s, r, P) /\ FreesOk(s, r, P) /\ GivenUpOk(s, r, P, e)
      /\ FreshOk(s, r, P, e) /\ ConnectingOk(s, r, P, O, w, e) /\ TimedOk(s, r, P, e)
  BY DEF FreeOk
<1>1. /\ GcBusy(s, Z) <=> GcBusy(s, P)
      /\ GcFreed(q) => GcFreed(r) \/ GcBusy(s, P)
      /\ t = Gc(s) => GcBusy(s, P)
      /\ Z[Ipc(s)] \notin ConnPlaces
      /\ Z[Rto(s)] = P[Rto(s)] /\ Z[Linger(s)] = P[Linger(s)]
  <2>1. t = Gc(s) => GcBusy(s, P)
    BY DEF GcBusy, FreePlaces
  <2>2. GcBusy(s, P) => P[Ipc(s)] \notin ConnPlaces
    BY <1>f DEF FreesOk
  <2>3. Z[Ipc(s)] \notin ConnPlaces
    BY <1>0, <2>1, <2>2 DEF ConnPlaces
  <2>4. GcBusy(s, Z) <=> GcBusy(s, P)
    BY <1>0 DEF GcBusy, FreePlaces
  <2> QED
    BY <1>0, <2>1, <2>3, <2>4 DEF GcFreed
<1>2. LocksOk(s, q, Z)
  BY <1>0, <1>f DEF LocksOk, Holding
<1>3. FreesOk(s, q, Z)
  <2>0. r.frees \in Nat
    BY <1>0 DEF Socket
  <2>1. CASE P[t] = "free2"
    BY <1>0, <1>1, <1>f, <2>0, <2>1 DEF FreesOk
  <2>2. CASE P[t] = "free3"
    <3>1. ~r.listed /\ (r.reconnected \/ r.frees = 0)
      BY <1>f, <2>2 DEF FreesOk
    <3>2. r.reconnected \/ \A u \in Threads :
                              Z[u] \notin {"outfree", "free1", "free2", "free3"}
      <4> SUFFICES ASSUME ~r.reconnected, NEW u \in Threads,
                          Z[u] \in {"outfree", "free1", "free2", "free3"}
                   PROVE  FALSE
        OBVIOUS
      <4>1. u # t /\ P[u] = Z[u] /\ u \in {Ipc(s), Gc(s)}
        BY <2>2, WhoIs DEF FreePlaces
      <4>2. u = Gc(s) => GcBusy(s, P)
        BY <4>1, WhoIs DEF GcBusy, FreePlaces
      <4> QED
        BY <1>0, <1>1, <1>f, <2>2, <4>1, <4>2 DEF FreesOk
    <3>3. q.frees > 0 /\ (q.frees <= 1 \/ r.reconnected)
      BY <2>0, <2>2, <3>1
    <3> QED
      BY <1>1, <2>2, <3>1, <3>2, <3>3, <1>f, <1>0 DEF FreesOk
  <2> QED
    BY <2>1, <2>2
<1>4. GivenUpOk(s, q, Z, e)
  <2>1. /\ r.ss = "DISCONNECTING" => Z[Ipc(s)] \notin {"towait", "asleep"}
        /\ \A u \in Threads : Z[u] \in {"wake", "done"} => P[u] = Z[u]
    BY <1>0, <1>f DEF GivenUpOk
  <2> QED
    BY <1>1, <1>f, <2>1 DEF GivenUpOk
<1>5. FreshOk(s, q, Z, e)
  BY <1>0, <1>1, <1>f DEF FreshOk, ReadPlaces
<1>6. ConnectingOk(s, q, Z, O, w, e)
  BY <1>1 DEF ConnectingOk
<1>7. TimedOk(s, q, Z, e)
  BY <1>1, <1>f DEF TimedOk
<1> QED
  BY <1>2, <1>3, <1>4, <1>5, <1>6, <1>7 DEF FreeOk

\* timers_tick starts a thread: for a retransmission timer, for the linger timer
\* and for the collector, the latter two when the other threads have come to rest.
LEMMA ExpiryFree ==
    ASSUME NEW s \in Socks, NEW r, NEW P, NEW O, NEW w, NEW e,
           Basics(s, r, P, O, e), FreeOk(s, r, P, O, w, e), ~e,
           NEW t \in {Rto(s), Linger(s), Gc(s)}, NEW q, NEW Z, NEW Y,
           q.lock = r.lock, q.m = r.m, q.asleep = r.asleep, q.ss = r.ss,
           q.sk = r.sk, q.by = r.by, q.frees = r.frees, q.listed = r.listed,
           q.tcp = r.tcp, q.err = r.err, q.queued = r.queued, q.untracked = r.untracked,
           q.reconnected = r.reconnected,
           \/ /\ t = Rto(s) /\ q.linger = r.linger /\ q.gc = r.gc
              /\ Y[Rto(s)] \in {"conn", "rto"}
              /\ \/ r.rto = Y[Rto(s)] /\ q.rto = "fired" /\ q.stray = r.stray
                 \/ r.stray /\ Y[Rto(s)] = "rto" /\ ~q.stray /\ q.rto = r.rto
           \/ /\ t = Linger(s) /\ r.linger = "armed" /\ q.linger = "fired"
              /\ q.gc = r.gc /\ q.rto = r.rto /\ q.stray = r.stray
              /\ Y[Rto(s)] = O[Rto(s)]
              /\ \A u \in Threads : P[u] \in {"idle", "asleep", "rasleep"}
           \/ /\ t = Gc(s) /\ r.gc > 0 /\ q.gc = r.gc - 1
              /\ q.linger = r.linger /\ q.rto = r.rto /\ q.stray = r.stray
              /\ Y[Rto(s)] = O[Rto(s)]
              /\ \A u \in Threads : P[u] \in {"idle", "asleep", "rasleep"},
           P[t] = "idle", Z[t] = "found", \A u \in Threads \ {t} : Z[u] = P[u]
    PROVE  FreeOk(s, q, Z, Y, w, e)
<1>0. /\ Ipc(s) \in Threads /\ Rto(s) \in Threads /\ Linger(s) \in Threads
      /\ Gc(s) \in Threads /\ NoThread \notin Threads
      /\ Gc(s) # Ipc(s) /\ Rto(s) # Ipc(s) /\ Linger(s) # Ipc(s) /\ t # Main /\ t # Ipc(s)
      /\ r \in Socket /\ Rto(s) # Linger(s) /\ Rto(s) # Gc(s) /\ Linger(s) # Gc(s)
      /\ t \in Threads
  BY WhoIs, ThreadsApart
<1>f. /\ LocksOk(s, r, P) /\ FreesOk(s, r, P) /\ GivenUpOk(s, r, P, e)
      /\ FreshOk(s, r, P, e) /\ ConnectingOk(s, r, P, O, w, e) /\ TimedOk(s, r, P, e)
  BY DEF FreeOk
<1>1. /\ GcBusy(s, Z) => t = Gc(s) \/ GcBusy(s, P)
      /\ GcFreed(q) <=> GcFreed(r)
      /\ Z[Ipc(s)] = P[Ipc(s)]
      /\ t # Rto(s) => Z[Rto(s)] = P[Rto(s)]
      /\ t # Linger(s) => Z[Linger(s)] = P[Linger(s)]
  BY <1>0 DEF GcBusy, GcFreed
<1>2. t = Gc(s) => /\ r.ss = "DISCONNECTING" /\ r.gc > 0 /\ P[Ipc(s)] \in {"idle", "rasleep"}
                   /\ P[Rto(s)] \notin {"found", "in"} /\ P[Linger(s)] \notin {"found", "in"}
                   /\ q.rto = r.rto /\ q.linger = r.linger /\ q.stray = r.stray
                   /\ Y[Rto(s)] = O[Rto(s)]
  BY <1>0, <1>f DEF GivenUpOk
<1>3. r.lock = NoThread \/ r.lock # t
  BY <1>0, <1>f DEF LocksOk, Holding
<1>4. LocksOk(s, q, Z)
  <2>1. r.lock \in Threads \cup {NoThread}
    BY <1>0 DEF Socket
  <2> QED
    BY <1>0, <1>1, <1>3, <1>f, <2>1 DEF LocksOk, Holding
<1>5. FreesOk(s, q, Z)
  BY <1>0, <1>1, <1>2, <1>f DEF FreesOk, ConnPlaces
<1>6. GivenUpOk(s, q, Z, e)
  <2>1. q.gc > 0 => r.gc > 0
    BY <1>0, <1>2
  <2>2. \A u \in Threads \ {Main} :
          /\ Z[u] = "done" => q.tcp = "CLOSING" /\ q.rto = "none" /\ q.linger = "none"
          /\ Z[u] = "wake" => q.tcp # "SYN_SENT"
    <3> TAKE u \in Threads \ {Main}
    <3>1. Z[u] \in {"done", "wake"} => P[u] = Z[u]
      BY <1>0
    <3>2. P[u] = "done" => r.rto = "none" /\ r.linger = "none" /\ r.tcp = "CLOSING"
      BY <1>f DEF GivenUpOk
    <3>3. P[u] = "wake" => r.tcp # "SYN_SENT"
      BY <1>f DEF GivenUpOk
    <3> QED
      BY <1>0, <3>1, <3>2, <3>3
  <2> QED
    BY <1>1, <1>2, <1>f, <2>1, <2>2 DEF GivenUpOk
<1>7. FreshOk(s, q, Z, e)
  BY <1>0, <1>1, <1>2, <1>f DEF FreshOk
<1>8. ConnectingOk(s, q, Z, Y, w, e)
  <2> SUFFICES ASSUME P[Ipc(s)] \in ConnPlaces
               PROVE  ConnectingOk(s, q, Z, Y, w, e)
    BY <1>1 DEF ConnectingOk
  <2>1. t # Gc(s)
    BY <1>2 DEF ConnPlaces
  <2>2. t # Linger(s)
    <3> SUFFICES ASSUME t = Linger(s) PROVE FALSE
      OBVIOUS
    <3>1. P[Ipc(s)] = "asleep" /\ r.linger = "armed"
      BY <1>0 DEF ConnPlaces
    <3>2. r.lock # NoThread => P[r.lock] \notin {"wake", "done"}
      BY <1>0, <1>f DEF LocksOk, Holding, Socket
    <3> QED
      BY <1>f, <3>1, <3>2 DEF ConnectingOk
  <2>3. t = Rto(s) /\ r.rto = "conn" /\ Y[Rto(s)] = "conn" /\ q.rto = "fired"
        /\ q.stray = r.stray /\ q.linger = r.linger /\ ~r.stray
    BY <1>0, <1>f, <2>1, <2>2 DEF ConnectingOk
  <2>4. r.lock # NoThread => Z[r.lock] = P[r.lock]
    BY <1>0, <1>3 DEF Socket
  <2>5. \A u \in Threads : Z[u] \in {"wake", "done", "lockm", "free4"} => P[u] = Z[u]
    OBVIOUS
  <2> QED
    BY <1>0, <1>1, <1>f, <2>3, <2>4, <2>5 DEF ConnectingOk
<1>9. TimedOk(s, q, Z, e)
  <2>1. GcBusy(s, P) \/ GcFreed(r) => r.ss = "DISCONNECTING"
    BY <1>f DEF GivenUpOk
  <2>2. (GcBusy(s, P) \/ GcFreed(r)) /\ ~r.untracked => t = Gc(s)
    BY <1>0, <1>f, <2>1 DEF TimedOk
  <2>3. q.stray => r.stray
    BY <1>0
  <2>4. /\ q.rto \in {"conn", "rto"} => r.rto \in {"conn", "rto"}
        /\ q.linger = "armed" => r.linger = "armed"
    BY <1>0
  <2>5. (GcBusy(s, Z) \/ GcFreed(q)) /\ ~q.untracked =>
           Z[Rto(s)] \notin {"found", "in"} /\ Z[Linger(s)] \notin {"found", "in"}
    BY <1>0, <1>1, <1>2, <2>2
  <2> QED
    BY <1>f, <2>3, <2>4, <2>5 DEF TimedOk
<1> QED
  BY <1>4, <1>5, <1>6, <1>7, <1>8, <1>9 DEF FreeOk

\* A new socket.
LEMMA CreateFree ==
    ASSUME NEW s \in Socks, NEW P, NEW O, NEW w, NEW e,
           \A u \in Threads : P[u] = "idle", NEW q, q.listed, q.sk = "live", q.frees = 0,
           q.by = "none", q.lock = NoThread, q.m = NoThread,
           q.asleep = {}, q.ss = "UNCONNECTED", q.tcp = "CLOSE", q.rto = "none",
           q.linger = "none", ~q.stray, ~q.queued, q.gc = 0
    PROVE  FreeOk(s, q, P, O, w, e)
<1>0. /\ Ipc(s) \in Threads /\ Rto(s) \in Threads /\ Linger(s) \in Threads
      /\ Gc(s) \in Threads
  BY ThreadsApart
<1>1. ~GcBusy(s, P) /\ ~GcFreed(q)
  BY <1>0 DEF GcBusy, GcFreed, FreePlaces
<1>2. LocksOk(s, q, P)
  BY <1>0 DEF LocksOk
<1>3. FreesOk(s, q, P)
  BY <1>0, <1>1 DEF FreesOk
<1>4. GivenUpOk(s, q, P, e)
  BY <1>0, <1>1 DEF GivenUpOk
<1>5. FreshOk(s, q, P, e)
  BY <1>0 DEF FreshOk, ReadPlaces
<1>6. ConnectingOk(s, q, P, O, w, e) /\ TimedOk(s, q, P, e)
  BY <1>0, <1>1 DEF ConnectingOk, TimedOk, ConnPlaces
<1> QED
  BY <1>2, <1>3, <1>4, <1>5, <1>6 DEF FreeOk

\* Once the process is about to end less is promised.
LEMMA ExitFree ==
    ASSUME NEW s, NEW r, NEW P, NEW O, NEW w, NEW e, FreeOk(s, r, P, O, w, e), NEW Y
    PROVE  FreeOk(s, r, P, Y, w, TRUE)
  BY DEF FreeOk, GivenUpOk, FreshOk, ConnectingOk, TimedOk

\* Main aborts a socket.
LEMMA AbortFree ==
    ASSUME NEW s \in Socks, NEW r, NEW P, NEW O, NEW w, NEW e,
           Basics(s, r, P, O, e), FreeOk(s, r, P, O, w, e),
           NEW q, NEW Z, NEW Y, SameLife(r, q), q.ss = r.ss, q.tcp = "CLOSING",
           q.rto = "none", q.linger = "none", q.stray = r.stray,
           q.untracked = r.untracked, q.reconnected = r.reconnected,
           Z[Main] = "done", \A u \in Threads \ {Main} : Z[u] = P[u]
    PROVE  FreeOk(s, q, Z, Y, w, TRUE)
<1>0. /\ Ipc(s) \in Threads \ {Main} /\ Rto(s) \in Threads \ {Main}
      /\ Linger(s) \in Threads \ {Main} /\ Gc(s) \in Threads \ {Main}
      /\ Main \in Threads /\ P[Main] \in {"idle", "done"} /\ r \in Socket
  BY WhoIs, ThreadsApart DEF Basics
<1>f. /\ LocksOk(s, r, P) /\ FreesOk(s, r, P) /\ GivenUpOk(s, r, P, e)
      /\ FreshOk(s, r, P, e) /\ ConnectingOk(s, r, P, O, w, e) /\ TimedOk(s, r, P, e)
  BY DEF FreeOk
<1>1. /\ GcBusy(s, Z) <=> GcBusy(s, P)
      /\ GcFreed(q) <=> GcFreed(r)
      /\ Z[Ipc(s)] = P[Ipc(s)] /\ Z[Rto(s)] = P[Rto(s)] /\ Z[Linger(s)] = P[Linger(s)]
  BY <1>0 DEF GcBusy, GcFreed, SameLife
<1>2. LocksOk(s, q, Z)
  BY <1>0, <1>1, <1>f DEF LocksOk, SameLife, Socket
<1>3. FreesOk(s, q, Z)
  BY <1>0, <1>1, <1>f DEF FreesOk, SameLife
<1>4. GivenUpOk(s, q, Z, TRUE)
  BY <1>0, <1>1, <1>f DEF GivenUpOk, SameLife
<1>5. FreshOk(s, q, Z, TRUE) /\ ConnectingOk(s, q, Z, Y, w, TRUE)
  BY DEF FreshOk, ConnectingOk
<1>6. TimedOk(s, q, Z, TRUE)
  BY <1>1, <1>f DEF TimedOk
<1> QED
  BY <1>2, <1>3, <1>4, <1>5, <1>6 DEF FreeOk

\* The end of an abort.
LEMMA AbortWakeFree ==
    ASSUME NEW s \in Socks, NEW r, NEW P, NEW O, NEW w,
           Basics(s, r, P, O, TRUE), FreeOk(s, r, P, O, w, TRUE),
           NEW q, NEW Z, NEW Y, SameButState(r, q), q.lock = r.lock, r.m = NoThread,
           q.m = NoThread, q.asleep = {}, q.ss = "DISCONNECTING", P[Main] = "done",
           Z[Main] = "idle",
           \A u \in Threads \ {Main} : Z[u] = IF u \in r.asleep THEN "woken" ELSE P[u]
    PROVE  FreeOk(s, q, Z, Y, w, TRUE)
<1>0. /\ Ipc(s) \in Threads \ {Main} /\ Rto(s) \in Threads \ {Main}
      /\ Linger(s) \in Threads \ {Main} /\ Gc(s) \in Threads \ {Main}
      /\ Main \in Threads /\ r \in Socket
      /\ Rto(s) # Ipc(s) /\ Linger(s) # Ipc(s) /\ Gc(s) # Ipc(s)
  BY WhoIs, ThreadsApart DEF Basics
<1>f. /\ LocksOk(s, r, P) /\ FreesOk(s, r, P) /\ GivenUpOk(s, r, P, TRUE)
      /\ TimedOk(s, r, P, TRUE)
  BY DEF FreeOk
<1>1. /\ P[Ipc(s)] \notin {"check", "towait", "reacquire"}
      /\ r.asleep = IF P[Ipc(s)] = "asleep" THEN {Ipc(s)} ELSE {}
  BY <1>0, <1>f, NoThreadApart DEF LocksOk
<1>2. /\ \A u \in Threads \ {Main, Ipc(s)} : Z[u] = P[u]
      /\ Z[Ipc(s)] = IF P[Ipc(s)] = "asleep" THEN "woken" ELSE P[Ipc(s)]
      /\ GcBusy(s, Z) <=> GcBusy(s, P)
      /\ GcFreed(q) <=> GcFreed(r)
  BY <1>0, <1>1 DEF GcBusy, GcFreed, SameButState
<1>3. LocksOk(s, q, Z)
  BY <1>0, <1>1, <1>2, <1>f DEF LocksOk, SameButState, Socket, Holding
<1>4. FreesOk(s, q, Z)
  BY <1>0, <1>2, <1>f DEF FreesOk, SameButState, ConnPlaces
<1>5. GivenUpOk(s, q, Z, TRUE)
  BY <1>0, <1>1, <1>2, <1>f DEF GivenUpOk, SameButState
<1>6. FreshOk(s, q, Z, TRUE) /\ ConnectingOk(s, q, Z, Y, w, TRUE)
  BY DEF FreshOk, ConnectingOk
<1>7. TimedOk(s, q, Z, TRUE)
  BY <1>0, <1>2, <1>f DEF TimedOk, SameButState
<1> QED
  BY <1>3, <1>4, <1>5, <1>6, <1>7 DEF FreeOk

----------------------------------------------------------------------------
(* From the state of the program to the views of its sockets *)

\* A thread that works on a socket, seen from there.
LEMMA Seen ==
    ASSUME LifeInv, Working, NEW t \in Threads, pc[t] \notin Resting
    PROVE  /\ tgt[t] \in Socks /\ View(tgt[t])[t] = pc[t] /\ Calls(tgt[t])[t] = op[t]
           /\ Sock(t) = so[tgt[t]]
  BY BusyFacts DEF View, Calls, Resting

\* Sleepers, seen from their socket.
LEMMA SleepersSeen ==
    ASSUME LifeInv, Working, NEW s \in Socks
    PROVE  /\ \A u \in so[s].asleep :
                 /\ u \in Threads /\ u # Main /\ u # Core /\ tgt[u] = s
                 /\ pc[u] = "asleep" /\ View(s)[u] = "asleep" /\ op[u] # "none"
           /\ \A u \in so[s].rasleep :
                 /\ u \in Threads /\ u # Main /\ u # Core /\ tgt[u] = s
                 /\ pc[u] = "rasleep" /\ View(s)[u] = "rasleep" /\ op[u] # "none"
<1>1. so[s].asleep \subseteq Threads /\ so[s].rasleep \subseteq Threads
  BY DEF LifeInv, Typed, Socket
<1>2. \A u \in Threads : pc[u] = "exited" => op[u] = "none"
  BY DEF Working, EndsOk
<1>3. \A u \in Threads : op[u] \in {"connect", "read"} => u = Ipc(tgt[u])
  BY DEF LifeInv, Roles, Role, IpcOps
<1>4. /\ \A u \in so[s].asleep : tgt[u] = s /\ op[u] = "connect" /\ pc[u] = "asleep"
      /\ \A u \in so[s].rasleep : tgt[u] = s /\ op[u] = "read" /\ pc[u] = "rasleep"
  BY <1>1, <1>2 DEF LifeInv, Sleepers
<1>5. \A u \in so[s].asleep \cup so[s].rasleep : u = Ipc(s) /\ u # Main /\ u # Core
  BY <1>1, <1>3, <1>4, ThreadsApart
<1> QED
  BY <1>1, <1>4, <1>5 DEF View

\* The first invariant, seen from a socket.
LEMMA BasicsSeen ==
    ASSUME LifeInv, Working, NEW s \in Socks
    PROVE  Basics(s, so[s], View(s), Calls(s), exiting)
<1> DEFINE P == View(s)
           O == Calls(s)
<1>1. GoodSock(so[s]) /\ P \in [Threads -> Pcs \ {"exited"}] /\ O \in [Threads -> Ops]
  BY DEF LifeInv, Typed, View, Calls, Pcs, Ops
<1>2. ASSUME NEW u \in Threads
      PROVE  /\ Role(u, s, O[u], P[u])
             /\ P[u] = "idle" <=> O[u] = "none"
             /\ u # Main /\ P[u] \in Holding => so[s].lock = u
  <2>1. CASE P[u] = "idle"
    <3>1. O[u] = "none"
      BY <2>1 DEF Calls
    <3>2. Role(u, s, "none", "idle") /\ "idle" \notin Holding
      BY DEF Role, IpcOps, ConnPlaces, ReadPlaces, FreePlaces, TimerOps, Holding
    <3> QED
      BY <2>1, <3>1, <3>2
  <2>2. CASE P[u] # "idle"
    <3>1. tgt[u] = s /\ pc[u] = P[u] /\ pc[u] # "exited" /\ O[u] = op[u]
      BY <2>2 DEF View, Calls
    <3>2. pc[u] \notin Resting
      BY <2>2, <3>1 DEF Resting
    <3> QED
      BY <2>2, <3>1, <3>2, BusyFacts DEF LifeInv, HoldsLock
  <2> QED
    BY <2>1, <2>2
<1>3. /\ P[Main] \in {"idle", "done"}
      /\ P[Main] = "done" => exiting
      /\ exiting => P[Core] = "idle"
  BY ThreadsApart DEF View, LifeInv, Working, EndsOk
<1> HIDE DEF P, O
<1>4. Basics(s, so[s], P, O, exiting)
  BY <1>1, <1>2, <1>3 DEF Basics
<1> QED
  BY <1>4 DEF P, O

\* A step of thread t on its socket, seen from all sockets.
LEMMA MovedViews ==
    ASSUME LifeInv, Working, NEW t \in Threads, t # Main, pc[t] \notin Resting,
           NEW q, NEW p, p \in Pcs \ Resting, Moved(t, q, p), tgt' = tgt, op' = op
    PROVE  /\ so'[tgt[t]] = q
           /\ \A x \in Socks \ {tgt[t]} :
                 so'[x] = so[x] /\ View(x)' = View(x) /\ Calls(x)' = Calls(x)
           /\ View(tgt[t])'[t] = p
           /\ \A u \in Threads \ {t} :
                 \/ View(tgt[t])'[u] = View(tgt[t])[u] /\ pc'[u] = pc[u]
                 \/ /\ u \in so[tgt[t]].asleep /\ u \notin q.asleep
                    /\ View(tgt[t])[u] = "asleep"
                    /\ View(tgt[t])'[u] = "woken" /\ pc'[u] = "woken" /\ pc[u] = "asleep"
                 \/ /\ u \in so[tgt[t]].rasleep /\ u \notin q.rasleep
                    /\ View(tgt[t])[u] = "rasleep"
                    /\ View(tgt[t])'[u] = "rwoken" /\ pc'[u] = "rwoken" /\ pc[u] = "rasleep"
           /\ Calls(tgt[t])' = Calls(tgt[t])
           /\ pc'[Main] = pc[Main] /\ pc'[t] = p
           /\ Core # t => pc'[Core] = pc[Core]
<1> DEFINE s == tgt[t]
<1>0. s \in Socks /\ View(s)[t] = pc[t] /\ Sock(t) = so[s]
  BY Seen
<1>1. /\ \A u \in so[s].asleep :
                 /\ u \in Threads /\ u # Main /\ u # Core /\ tgt[u] = s
                 /\ pc[u] = "asleep" /\ View(s)[u] = "asleep" /\ op[u] # "none"
      /\ \A u \in so[s].rasleep :
                 /\ u \in Threads /\ u # Main /\ u # Core /\ tgt[u] = s
                 /\ pc[u] = "rasleep" /\ View(s)[u] = "rasleep" /\ op[u] # "none"
  BY <1>0, SleepersSeen
<1>2. /\ so'[s] = q /\ \A x \in Socks \ {s} : so'[x] = so[x]
  BY <1>0 DEF Moved, LifeInv, Typed
<1>3. /\ pc'[t] = p
      /\ \A u \in Threads \ {t} :
          \/ pc'[u] = pc[u]
          \/ u \in so[s].asleep /\ u \notin q.asleep /\ pc'[u] = "woken"
          \/ u \in so[s].rasleep /\ u \notin q.rasleep /\ pc'[u] = "rwoken"
  BY <1>0 DEF Moved
<1>4. \A u \in Threads : tgt[u] # s => pc'[u] = pc[u]
  BY <1>1, <1>3
<1>5. \A x \in Socks \ {s} : View(x)' = View(x) /\ Calls(x)' = Calls(x)
  <2> TAKE x \in Socks \ {s}
  <2>1. \A u \in Threads :
           (tgt[u] = x /\ pc'[u] # "exited") <=> (tgt[u] = x /\ pc[u] # "exited")
    BY <1>4
  <2>2. \A u \in Threads : tgt[u] = x => pc'[u] = pc[u]
    BY <1>4
  <2>3. View(x)' = View(x)
    BY <2>1, <2>2 DEF View
  <2>4. Calls(x)' = Calls(x)
    BY <2>3 DEF Calls
  <2> QED
    BY <2>3, <2>4
<1>6. View(s)'[t] = p
  BY <1>3 DEF View, Resting
<1>7. \A u \in Threads \ {t} :
                 \/ View(s)'[u] = View(s)[u] /\ pc'[u] = pc[u]
                 \/ /\ u \in so[s].asleep /\ u \notin q.asleep /\ View(s)[u] = "asleep"
                    /\ View(s)'[u] = "woken" /\ pc'[u] = "woken" /\ pc[u] = "asleep"
                 \/ /\ u \in so[s].rasleep /\ u \notin q.rasleep /\ View(s)[u] = "rasleep"
                    /\ View(s)'[u] = "rwoken" /\ pc'[u] = "rwoken" /\ pc[u] = "rasleep"
  BY <1>1, <1>3 DEF View
<1>8. Calls(s)' = Calls(s)
  <2>1. \A u \in Threads : View(s)'[u] = "idle" <=> View(s)[u] = "idle"
    BY <1>0, <1>6, <1>7 DEF Resting
  <2> QED
    BY <2>1 DEF Calls
<1>9. pc'[Main] = pc[Main] /\ (Core # t => pc'[Core] = pc[Core])
  BY <1>1, <1>3, ThreadsApart
<1> QED
  BY <1>2, <1>3, <1>5, <1>6, <1>7, <1>8, <1>9

\* Such a step keeps the second invariant if it keeps that of its socket.
LEMMA MovedWorking ==
    ASSUME LifeInv, Working, NEW t \in Threads, t # Main, pc[t] \notin Resting,
           NEW q, NEW p, p \in Pcs \ Resting, Moved(t, q, p),
           tgt' = tgt, op' = op, exiting' = exiting,
           \A x \in Socks \ {tgt[t]} : (Ipc(x) \in spurious') = (Ipc(x) \in spurious),
           \/ slock' = slock /\ pc[t] # "free2" /\ p # "free2"
           \/ slock = NoThread /\ slock' = t /\ p = "free2"
           \/ slock' = NoThread /\ pc[t] = "free2" /\ p # "free2",
           FreeOk(tgt[t], q, View(tgt[t])', Calls(tgt[t]), (Ipc(tgt[t]) \in spurious'), exiting)
    PROVE  Working'
<1> DEFINE s == tgt[t]
<1>1. /\ so'[s] = q
      /\ \A x \in Socks \ {s} :
            so'[x] = so[x] /\ View(x)' = View(x) /\ Calls(x)' = Calls(x)
      /\ \A u \in Threads \ {t} :
            pc'[u] = pc[u] \/ (/\ pc'[u] \in {"woken", "rwoken"}
                               /\ pc[u] \in {"asleep", "rasleep"})
      /\ Calls(s)' = Calls(s)
      /\ pc'[Main] = pc[Main] /\ pc'[t] = p
      /\ Core # t => pc'[Core] = pc[Core]
  <2>1. \A u \in Threads \ {t} :
           \/ View(s)'[u] = View(s)[u] /\ pc'[u] = pc[u]
           \/ /\ u \in so[s].asleep /\ u \notin q.asleep
              /\ View(s)[u] = "asleep"
              /\ View(s)'[u] = "woken" /\ pc'[u] = "woken" /\ pc[u] = "asleep"
           \/ /\ u \in so[s].rasleep /\ u \notin q.rasleep
              /\ View(s)[u] = "rasleep"
              /\ View(s)'[u] = "rwoken" /\ pc'[u] = "rwoken" /\ pc[u] = "rasleep"
    BY MovedViews
  <2>2. \A u \in Threads \ {t} :
            pc'[u] = pc[u] \/ (/\ pc'[u] \in {"woken", "rwoken"}
                               /\ pc[u] \in {"asleep", "rasleep"})
    BY <2>1
  <2>3. /\ so'[s] = q
        /\ \A x \in Socks \ {s} :
            so'[x] = so[x] /\ View(x)' = View(x) /\ Calls(x)' = Calls(x)
        /\ Calls(s)' = Calls(s)
        /\ pc'[Main] = pc[Main] /\ pc'[t] = p
        /\ Core # t => pc'[Core] = pc[Core]
    BY MovedViews
  <2> QED
    BY <2>2, <2>3
<1>2. ASSUME NEW x \in Socks
      PROVE  FreeOk(x, so'[x], View(x)', Calls(x)', (Ipc(x) \in spurious'), exiting')
  <2>1. CASE x = s
    BY <1>1, <2>1
  <2>2. CASE x # s
    <3>1. FreeOk(x, so[x], View(x), Calls(x), (Ipc(x) \in spurious), exiting)
      BY DEF Working
    <3>2. /\ so'[x] = so[x] /\ View(x)' = View(x) /\ Calls(x)' = Calls(x)
          /\ (Ipc(x) \in spurious') = (Ipc(x) \in spurious)
      BY <1>1, <2>2
    <3> QED
      BY <3>1, <3>2
  <2> QED
    BY <2>1, <2>2
<1>3. ListOk'
  <2>1. /\ slock # NoThread => slock \in Threads /\ pc[slock] = "free2"
        /\ \A u \in Threads : pc[u] = "free2" => slock = u
    BY DEF Working, ListOk, LifeInv, Typed
  <2>2. \A u \in Threads \ {t} : pc'[u] = "free2" <=> pc[u] = "free2"
    BY <1>1
  <2> QED
    BY <1>1, <2>1, <2>2, NoThreadApart DEF ListOk
<1>4. EndsOk'
  <2>1. /\ pc[Main] = "done" => exiting
        /\ exiting => pc[Core] = "idle"
        /\ \A u \in Threads : pc[u] = "exited" => op[u] = "none"
    BY DEF Working, EndsOk
  <2>2. exiting => t # Core
    BY <2>1 DEF Resting
  <2> QED
    BY <1>1, <2>1, <2>2 DEF EndsOk, Resting
<1> QED
  BY <1>1, <1>2, <1>3, <1>4 DEF Working

\* Handlers.
LEMMA HandlerWorking ==
    ASSUME LifeInv, Working, NEW t \in Threads, HandlerStep(t)
    PROVE  Working'
<1> DEFINE s == tgt[t]
           r == so[s]
<1>1. PICK q, p : /\ Moved(t, q, p) /\ HandledBy(op[t], r, q, p)
                  /\ t \in q.rasleep => p = "rasleep"
                  /\ pc[t] = "in" /\ op[t] = "read" /\ r.tcp = "CLOSE"
                       => SameTimers(r, q) /\ p = "out"
  BY DEF HandlerStep, Sock
<1>2. t # Main /\ pc[t] \in {"in", "rin"} /\ r.sk = "live" /\ Same /\ pc[t] \notin Resting
  BY DEF HandlerStep, Sock, Resting
<1>3. s \in Socks /\ View(s)[t] = pc[t] /\ Calls(s)[t] = op[t]
  BY <1>2, Seen
<1>4. Handled(op[t], r, q, p)
  BY <1>1 DEF HandledBy
<1>5. p \in {"out", "outfree", "wake", "done", "lockm", "rasleep"} /\ q.asleep = r.asleep
  BY <1>4 DEF Handled
<1>6. p \in Pcs \ Resting /\ p # "free2" /\ pc[t] # "free2"
  BY <1>2, <1>5 DEF Pcs, Resting
<1>7. Goes(View(s), View(s)', t, p)
  BY <1>1, <1>2, <1>5, <1>6, MovedViews DEF Goes, Same
<1>8. FreeOk(s, r, View(s), Calls(s), (Ipc(s) \in spurious), exiting)
  BY <1>3 DEF Working
<1>9. Basics(s, r, View(s), Calls(s), exiting)
  BY <1>3, BasicsSeen
<1>10. FreeOk(s, q, View(s)', Calls(s), (Ipc(s) \in spurious), exiting)
  BY <1>1, <1>2, <1>3, <1>7, <1>8, <1>9, HandlerFree
<1> QED
  BY <1>1, <1>2, <1>6, <1>10, MovedWorking DEF Same

\* Steps that change places and locks only.
LEMMA LockWorking ==
    ASSUME LifeInv, Working, NEW t \in Threads, t # Main, pc[t] \notin Resting,
           NEW q, NEW p \in Pcs \ Resting, Moved(t, q, p),
           tgt' = tgt, op' = op, exiting' = exiting,
           SameTcp(Sock(t), q), LockMove(t, op[t], pc[t], p, Sock(t), q),
           \A u \in Sock(t).asleep : u = t \/ u \in q.asleep,
           q.rasleep = Sock(t).rasleep,
           \/ slock' = slock /\ pc[t] # "free2" /\ p # "free2"
           \/ slock = NoThread /\ slock' = t /\ p = "free2",
           \/ spurious' = spurious /\ p # "woken"
           \/ spurious' = spurious \ {t} /\ p = "towait"
           \/ spurious' = spurious \cup {t} /\ p = "woken"
    PROVE  Working'
<1> DEFINE s == tgt[t]
           r == so[s]
<1>1. s \in Socks /\ View(s)[t] = pc[t] /\ Calls(s)[t] = op[t] /\ Sock(t) = r
  BY Seen
<1>2. View(s)'[t] = p /\ \A u \in Threads \ {t} : View(s)'[u] = View(s)[u]
  BY <1>1, MovedViews
<1>3. FreeOk(s, r, View(s), Calls(s), (Ipc(s) \in spurious), exiting)
  BY <1>1 DEF Working
<1>4. Basics(s, r, View(s), Calls(s), exiting)
  BY <1>1, BasicsSeen
<1>5. p \in {"towait", "woken"} => t = Ipc(s)
  <2>1. p \in {"towait", "woken"} => pc[t] \in ConnPlaces
    BY DEF LockMove, ConnPlaces
  <2> QED
    BY <1>1, <1>4, <2>1, WhoIs
<1>6. \A x \in Socks \ {s} : Ipc(x) # Ipc(s)
  BY <1>1, ThreadsApart
<1>7. \A x \in Socks \ {s} : (Ipc(x) \in spurious') = (Ipc(x) \in spurious)
  BY <1>5, <1>6
<1>8. /\ \/ (Ipc(s) \in spurious') = (Ipc(s) \in spurious)
         \/ t = Ipc(s) /\ p \in {"woken", "towait"}
      /\ p = "woken" => Ipc(s) \in spurious'
  BY <1>5
<1> DEFINE Z == View(s)'
           P == View(s)
           O == Calls(s)
           w == Ipc(s) \in spurious
           v == Ipc(s) \in spurious'
<1>9. /\ P[t] = pc[t] /\ O[t] = op[t] /\ Z[t] = p /\ \A u \in Threads \ {t} : Z[u] = P[u]
      /\ FreeOk(s, r, P, O, w, exiting) /\ Basics(s, r, P, O, exiting)
      /\ v = w \/ (t = Ipc(s) /\ p \in {"woken", "towait"})
      /\ p = "woken" => v
      /\ SameTcp(r, q) /\ LockMove(t, O[t], P[t], p, r, q)
  BY <1>1, <1>2, <1>3, <1>4, <1>8
<1> HIDE DEF Z, P, O, w, v, r
<1>10. FreeOk(s, q, Z, O, v, exiting)
  BY <1>1, <1>9, MoveFree
<1> QED
  BY <1>7, <1>10, MovedWorking DEF Z, O, v

\* Locks are taken and given up, sleepers go to sleep or wake for no reason, and
\* the collector finds a socket.
LEMMA LocksWorking ==
    ASSUME LifeInv, Working, NEW t \in Threads,
           \/ Acquire(t) \/ TouchFreed(t) \/ LockSleep(t) \/ WaitSleep(t)
           \/ WakeSpuriously(t) \/ ConnectFailed(t)
           \/ (socket_garbage_collect(t) /\ Sock(t).listed) \/ FreeLock(t)
    PROVE  Working'
<1>1. CASE Acquire(t)
  <2> DEFINE q == socket_wr_acquire(Sock(t), t)
             p == Entered(pc[t])
  <2>1. /\ t # Main /\ pc[t] \in {"found", "rwoken", "reacquire"} /\ op[t] # "gc"
        /\ Sock(t).lock = NoThread /\ pc[t] \notin Resting
        /\ Moved(t, q, p) /\ p \in {"in", "rin", "check"} /\ Same
        /\ SameTcp(Sock(t), q) /\ q.m = Sock(t).m /\ q.asleep = Sock(t).asleep
        /\ q.rasleep = Sock(t).rasleep /\ q.lock = t
    BY <1>1, AcquireFacts
  <2>2. LockMove(t, op[t], pc[t], p, Sock(t), q)
    BY <2>1 DEF LockMove, Entered
  <2>3. p \in Pcs \ Resting /\ p \notin {"free2", "woken", "towait"} /\ pc[t] # "free2"
    BY <2>1 DEF Pcs, Resting
  <2> HIDE DEF q, p
  <2> QED
    BY <2>1, <2>2, <2>3, LockWorking DEF Same
<1>2. CASE TouchFreed(t)
  <2> DEFINE h == IF Sock(t).m = t THEN NoThread ELSE Sock(t).m
             q == [Sock(t) EXCEPT !.m = h]
  <2>1. /\ t # Main /\ pc[t] \in {"in", "rin", "check"}
        /\ Moved(t, q, "out")
        /\ UNCHANGED << slock, tgt, op, spurious, exiting >>
        /\ SameTcp(Sock(t), q) /\ q.m = h /\ q.asleep = Sock(t).asleep
        /\ q.rasleep = Sock(t).rasleep /\ q.lock = t
    BY <1>2, TouchFacts
  <2>2. Sock(t).lock = t
    BY <2>1, InsideFacts DEF Holding
  <2>3. LockMove(t, op[t], pc[t], "out", Sock(t), q)
    BY <2>1, <2>2 DEF LockMove
  <2>4. "out" \in Pcs \ Resting /\ pc[t] # "free2" /\ pc[t] \notin Resting
    BY <2>1 DEF Pcs, Resting
  <2> HIDE DEF q
  <2> QED
    BY <2>1, <2>3, <2>4, LockWorking
<1>3. CASE LockSleep(t)
  <2> DEFINE q == [Sock(t) EXCEPT !.m = t]
             p == IF pc[t] = "lockm" THEN "check" ELSE "reacquire"
  <2>1. /\ t # Main /\ pc[t] \in {"lockm", "woken"} /\ Sock(t).m = NoThread
        /\ Moved(t, q, p) /\ Same
        /\ SameTcp(Sock(t), q) /\ q.m = t /\ q.asleep = Sock(t).asleep
        /\ q.rasleep = Sock(t).rasleep /\ q.lock = Sock(t).lock
    BY <1>3, LockSleepFacts
  <2>2. LockMove(t, op[t], pc[t], p, Sock(t), q)
    BY <2>1 DEF LockMove
  <2>3. /\ p \in Pcs \ Resting /\ p \notin {"free2", "woken", "towait"}
        /\ pc[t] # "free2" /\ pc[t] \notin Resting
    BY <2>1 DEF Pcs, Resting
  <2> HIDE DEF q, p
  <2> QED
    BY <2>1, <2>2, <2>3, LockWorking DEF Same
<1>4. CASE WaitSleep(t)
  <2> DEFINE q == [Sock(t) EXCEPT !.m = NoThread, !.asleep = @ \cup {t}]
  <2>1. /\ t # Main /\ pc[t] = "towait"
        /\ Moved(t, q, "asleep") /\ Same
        /\ SameTcp(Sock(t), q) /\ q.m = NoThread
        /\ q.asleep = Sock(t).asleep \cup {t}
        /\ q.rasleep = Sock(t).rasleep /\ q.lock = Sock(t).lock
    BY <1>4, WaitSleepFacts
  <2>2. LockMove(t, op[t], pc[t], "asleep", Sock(t), q)
    BY <2>1 DEF LockMove
  <2>3. "asleep" \in Pcs \ Resting /\ pc[t] # "free2" /\ pc[t] \notin Resting
    BY <2>1 DEF Pcs, Resting
  <2> HIDE DEF q
  <2> QED
    BY <2>1, <2>2, <2>3, LockWorking DEF Same
<1>5. CASE WakeSpuriously(t)
  <2> DEFINE q == [Sock(t) EXCEPT !.asleep = @ \ {t}]
  <2>1. /\ t # Main /\ pc[t] = "asleep"
        /\ Moved(t, q, "woken") /\ spurious' = spurious \cup {t}
        /\ UNCHANGED << slock, tgt, op, uaf, exiting >>
        /\ SameTcp(Sock(t), q) /\ q.m = Sock(t).m
        /\ q.asleep = Sock(t).asleep \ {t}
        /\ q.rasleep = Sock(t).rasleep /\ q.lock = Sock(t).lock
    BY <1>5, SpuriousFacts
  <2>2. LockMove(t, op[t], pc[t], "woken", Sock(t), q)
    BY <2>1 DEF LockMove
  <2>3. "woken" \in Pcs \ Resting /\ pc[t] # "free2" /\ pc[t] \notin Resting
    BY <2>1 DEF Pcs, Resting
  <2> HIDE DEF q
  <2> QED
    BY <2>1, <2>2, <2>3, LockWorking
<1>6. CASE ConnectFailed(t)
  <2> DEFINE q == socket_release(Sock(t))
  <2>1. /\ t # Main /\ pc[t] = "outfree" /\ Moved(t, q, "free1") /\ Same
        /\ SameTcp(Sock(t), q) /\ q.m = Sock(t).m /\ q.asleep = Sock(t).asleep
        /\ q.rasleep = Sock(t).rasleep /\ q.lock = NoThread
    BY <1>6, FailedFacts
  <2>2. Sock(t).lock = t
    BY <2>1, InsideFacts DEF Holding
  <2>3. LockMove(t, op[t], pc[t], "free1", Sock(t), q)
    BY <2>1, <2>2 DEF LockMove
  <2>4. "free1" \in Pcs \ Resting /\ pc[t] # "free2" /\ pc[t] \notin Resting
    BY <2>1 DEF Pcs, Resting
  <2> HIDE DEF q
  <2> QED
    BY <2>1, <2>3, <2>4, LockWorking DEF Same
<1>7. CASE (socket_garbage_collect(t) /\ Sock(t).listed) \/ FreeLock(t)
  <2> DEFINE q == Sock(t)
             p == IF pc[t] = "found" THEN "free1" ELSE "free2"
  <2>1. /\ t # Main /\ slock = NoThread
        /\ \/ pc[t] = "found" /\ op[t] = "gc" /\ Sock(t).listed /\ slock' = slock
           \/ pc[t] = "free1" /\ slock' = t
        /\ UNCHANGED << so, tgt, op, spurious, uaf, exiting >>
        /\ Moved(t, q, p)
    BY <1>7, FreeStartFacts
  <2>2. LockMove(t, op[t], pc[t], p, Sock(t), q) /\ SameTcp(Sock(t), q)
    BY <2>1 DEF LockMove, SameTcp
  <2>3. /\ p \in Pcs \ Resting /\ p \notin {"woken", "towait"}
        /\ pc[t] # "free2" /\ pc[t] \notin Resting
        /\ p = "free2" \/ slock' = slock
        /\ p = "free2" => slock' = t
    BY <2>1 DEF Pcs, Resting
  <2>4. q.asleep = Sock(t).asleep /\ q.rasleep = Sock(t).rasleep
    OBVIOUS
  <2> HIDE DEF q, p
  <2> QED
    BY <2>1, <2>2, <2>3, <2>4, LockWorking
<1> QED
  BY <1>1, <1>2, <1>3, <1>4, <1>5, <1>6, <1>7

\* The loop of connect().
LEMMA CheckWorking ==
    ASSUME LifeInv, Working, NEW t \in Threads, Check(t)
    PROVE  Working'
<1> DEFINE r == Sock(t)
           a == socket_release(r)
           d == Left(r)
<1>1. /\ t # Main /\ pc[t] = "check" /\ r.sk = "live" /\ op[t] = "connect"
      /\ spurious' = spurious \ {t} /\ UNCHANGED << slock, tgt, op, uaf, exiting >>
      /\ \/ /\ r.ss = "CONNECTING" /\ r.err = "EINPROGRESS" /\ Moved(t, a, "towait")
            /\ SameTcp(r, a) /\ a.lock = NoThread /\ a.m = r.m
            /\ a.asleep = r.asleep /\ a.rasleep = r.rasleep
         \/ \E p \in {"out", "outfree"} : Moved(t, d, p)
  BY CheckFacts
<1>2. pc[t] \notin Resting /\ pc[t] # "free2"
  BY <1>1 DEF Resting
<1>3. r.lock = t /\ GoodSock(r) /\ r.mem = "live"
  BY <1>1, InsideFacts DEF Holding
<1>4. CASE /\ r.ss = "CONNECTING" /\ r.err = "EINPROGRESS" /\ Moved(t, a, "towait")
           /\ SameTcp(r, a) /\ a.lock = NoThread /\ a.m = r.m
           /\ a.asleep = r.asleep /\ a.rasleep = r.rasleep
  <2>1. LockMove(t, op[t], pc[t], "towait", Sock(t), a)
    BY <1>1, <1>3, <1>4 DEF LockMove
  <2>2. "towait" \in Pcs \ Resting
    BY DEF Pcs, Resting
  <2> HIDE DEF a
  <2> QED
    BY <1>1, <1>2, <1>4, <2>1, <2>2, LockWorking
<1>5. CASE \E p \in {"out", "outfree"} : Moved(t, d, p)
  <2>1. PICK p \in {"out", "outfree"} : Moved(t, d, p)
    BY <1>5
  <2>2. p \in Pcs \ Resting /\ p # "free2"
    BY DEF Pcs, Resting
  <2>3. /\ d.m = NoThread /\ d.ss = IF r.err = "0" THEN "CONNECTED" ELSE r.ss
        /\ SameButState(r, d) /\ d.lock = r.lock /\ d.asleep = r.asleep /\ d.gc = r.gc
        /\ d.rasleep = r.rasleep
    BY <1>3, LeftEffect DEF SameButState
  <2> DEFINE s == tgt[t]
             P == View(s)
             O == Calls(s)
             Z == View(s)'
             w == Ipc(s) \in spurious
             v == Ipc(s) \in spurious'
  <2>4. s \in Socks /\ P[t] = "check" /\ r = so[s]
    BY <1>1, <1>2, Seen
  <2>5. FreeOk(s, r, P, O, w, exiting) /\ Basics(s, r, P, O, exiting)
    BY <2>4, BasicsSeen DEF Working
  <2>6. t = Ipc(s)
    BY <2>4, <2>5, WhoIs DEF ConnPlaces
  <2>7. Z[t] = p /\ \A u \in Threads \ {t} : Z[u] = P[u]
    BY <1>1, <1>2, <2>1, <2>2, <2>3, <2>4, MovedViews
  <2>8. \A x \in Socks \ {s} : (Ipc(x) \in spurious') = (Ipc(x) \in spurious)
    BY <1>1, <2>4, <2>6, ThreadsApart
  <2> HIDE DEF P, O, Z, w, v, r, d
  <2>9. FreeOk(s, d, Z, O, v, exiting)
    BY <1>1, <2>3, <2>4, <2>5, <2>6, <2>7, LeftFree
  <2> QED
    BY <1>1, <1>2, <2>1, <2>2, <2>8, <2>9, MovedWorking DEF Z, O, v
<1> QED
  BY <1>1, <1>4, <1>5

\* wait_wakeup, and the last steps of socket_free.
LEMMA WakeWorking ==
    ASSUME LifeInv, Working, NEW t \in Threads, Wake(t)
    PROVE  Working'
<1> DEFINE r == Sock(t)
           b == [r EXCEPT !.asleep = {}]
           q == IF pc[t] = "done" THEN socket_delete(b) ELSE b
           s == tgt[t]
           P == View(s)
           O == Calls(s)
           Z == View(s)'
           w == Ipc(s) \in spurious
<1>1. /\ t # Main /\ pc[t] \in {"wake", "done"} /\ r.m = NoThread
      /\ Moved(t, q, "out") /\ Same
      /\ \A u \in r.asleep : pc'[u] = "woken"
      /\ pc[t] = "done" => q.ss = "DISCONNECTING"
      /\ pc[t] = "wake" => q.ss = r.ss /\ q.gc = r.gc
      /\ q.lock = t /\ q.m = NoThread /\ q.asleep = {}
      /\ q.rasleep = r.rasleep
  BY WakeFacts
<1>2. SameButState(r, q)
  BY WakeFacts DEF SameButState
<1>3. pc[t] \notin Resting /\ pc[t] # "free2" /\ "out" \in Pcs \ Resting
  BY <1>1 DEF Resting, Pcs
<1>4. s \in Socks /\ P[t] = pc[t] /\ r = so[s]
  BY <1>1, <1>3, Seen
<1>5. FreeOk(s, r, P, O, w, exiting) /\ Basics(s, r, P, O, exiting)
  BY <1>4, BasicsSeen DEF Working
<1>6. Z[t] = "out" /\ \A u \in Threads \ {t} : Z[u] = IF u \in r.asleep THEN "woken" ELSE P[u]
  <2>1. \A u \in r.asleep : u \in Threads /\ pc[u] = "asleep" /\ P[u] = "asleep"
    BY <1>4, SleepersSeen
  <2> HIDE DEF q, r
  <2>2. Z[t] = "out"
    BY <1>1, <1>3, MovedViews DEF Same
  <2>3. \A u \in Threads \ {t} :
           \/ Z[u] = P[u] /\ pc'[u] = pc[u]
           \/ u \in r.asleep /\ Z[u] = "woken"
    BY <1>1, <1>3, <1>4, MovedViews DEF Same
  <2> QED
    BY <1>1, <2>1, <2>2, <2>3
<1> HIDE DEF P, O, Z, w, q, r
<1>7. FreeOk(s, q, Z, O, w, exiting)
  BY <1>1, <1>2, <1>4, <1>5, <1>6, WakeFree
<1> QED
  BY <1>1, <1>3, <1>7, MovedWorking DEF Same, Z, O, w

\* socket_free and socket_garbage_collect unlist and free the socket.
LEMMA FreeingWorking ==
    ASSUME LifeInv, Working, NEW t \in Threads, FreeUnlist(t) \/ FreeSock(t)
    PROVE  Working'
<1> DEFINE r == Sock(t)
           b == IF op[t] = "gc" THEN "gc" ELSE "connect"
           q == IF pc[t] = "free2" THEN [socket_wr_acquire(r, t) EXCEPT !.listed = FALSE]
                ELSE [r EXCEPT !.sk = "freed", !.frees = @ + 1, !.by = b]
           p == IF pc[t] = "free2" THEN "free3" ELSE "free4"
           s == tgt[t]
           P == View(s)
           O == Calls(s)
           Z == View(s)'
           w == Ipc(s) \in spurious
<1>1. /\ t # Main /\ Moved(t, q, p) /\ UNCHANGED << tgt, op, spurious, uaf, exiting >>
      /\ q.lock = t /\ q.m = r.m /\ q.asleep = r.asleep /\ q.rasleep = r.rasleep
      /\ q.gc = r.gc /\ q.ss = r.ss
      /\ q.tcp = r.tcp /\ q.err = r.err /\ q.rto = r.rto /\ q.linger = r.linger
      /\ q.stray = r.stray /\ q.queued = r.queued /\ q.untracked = r.untracked
      /\ q.reconnected = r.reconnected
      /\ \/ /\ pc[t] = "free2" /\ p = "free3" /\ r.lock = NoThread /\ slock' = NoThread
            /\ ~q.listed /\ q.sk = r.sk /\ q.by = r.by /\ q.frees = r.frees
         \/ /\ pc[t] = "free3" /\ p = "free4" /\ q.listed = r.listed /\ slock' = slock
            /\ q.sk = "freed" /\ q.frees = r.frees + 1 /\ q.by = b
  <2>1. CASE FreeUnlist(t)
    <3>1. pc[t] = "free2"
      BY <2>1 DEF FreeUnlist
    <3> DEFINE d == [socket_wr_acquire(r, t) EXCEPT !.listed = FALSE]
    <3>2. q = d /\ p = "free3"
      BY <3>1
    <3>3. /\ t # Main /\ Moved(t, d, "free3") /\ UNCHANGED << tgt, op, spurious, uaf, exiting >>
          /\ d.lock = t /\ d.m = r.m /\ d.asleep = r.asleep /\ d.rasleep = r.rasleep
          /\ d.gc = r.gc /\ d.ss = r.ss
          /\ d.tcp = r.tcp /\ d.err = r.err /\ d.rto = r.rto /\ d.linger = r.linger
          /\ d.stray = r.stray /\ d.queued = r.queued /\ d.untracked = r.untracked
          /\ d.reconnected = r.reconnected /\ r.lock = NoThread /\ slock' = NoThread
          /\ ~d.listed /\ d.sk = r.sk /\ d.by = r.by /\ d.frees = r.frees
      BY <2>1, UnlistFacts
    <3> HIDE DEF q, p, d
    <3> QED
      BY <3>1, <3>2, <3>3
  <2>2. CASE FreeSock(t)
    <3>1. pc[t] = "free3"
      BY <2>2 DEF FreeSock
    <3> DEFINE d == [r EXCEPT !.sk = "freed", !.frees = @ + 1, !.by = b]
    <3>2. q = d /\ p = "free4"
      BY <3>1, Zenon
    <3>3. /\ t # Main /\ Moved(t, d, "free4") /\ Same
          /\ d.lock = t /\ d.m = r.m /\ d.asleep = r.asleep /\ d.rasleep = r.rasleep
          /\ d.gc = r.gc /\ d.ss = r.ss
          /\ d.tcp = r.tcp /\ d.err = r.err /\ d.rto = r.rto /\ d.linger = r.linger
          /\ d.stray = r.stray /\ d.queued = r.queued /\ d.untracked = r.untracked
          /\ d.reconnected = r.reconnected /\ d.listed = r.listed
          /\ d.sk = "freed" /\ d.frees = r.frees + 1 /\ d.by = b
      BY <2>2, FreeSockFacts, Zenon
    <3> HIDE DEF q, p, d
    <3> QED
      BY <3>1, <3>2, <3>3 DEF Same
  <2> QED
    BY <2>1, <2>2
<1> HIDE DEF q, p
<1>2. pc[t] \notin Resting /\ p # "free2" /\ p \in Pcs \ Resting
  BY <1>1 DEF Resting, Pcs
<1>3. s \in Socks /\ P[t] = pc[t] /\ O[t] = op[t] /\ r = so[s]
  BY <1>1, <1>2, Seen
<1>4. FreeOk(s, r, P, O, w, exiting) /\ Basics(s, r, P, O, exiting)
  BY <1>3, BasicsSeen DEF Working
<1>5. Z[t] = p /\ \A u \in Threads \ {t} : Z[u] = P[u]
  BY <1>1, <1>2, <1>3, MovedViews
<1> HIDE DEF P, O, Z, w, r
<1>6. FreeOk(s, q, Z, O, w, exiting)
  BY <1>1, <1>3, <1>4, <1>5, FreeingFree
<1> QED
  BY <1>1, <1>2, <1>6, MovedWorking DEF Z, O, w

\* The thread that frees a socket waits for those that still hold it.
LEMMA FreeWaitWorking ==
    ASSUME LifeInv, Working, NEW t \in Threads, FreeWait(t)
    PROVE  Working'
<1> DEFINE r == Sock(t)
           q == [r EXCEPT !.asleep = {}]
           s == tgt[t]
           P == View(s)
<1>1. /\ t # Main /\ pc[t] = "free4" /\ Moved(t, q, "out") /\ Same
      /\ SameTcp(r, q) /\ q.m = r.m /\ q.asleep = {} /\ q.rasleep = r.rasleep /\ q.lock = t
  BY FreeWaitFacts
<1>2. pc[t] \notin Resting /\ pc[t] # "free2" /\ "out" \in Pcs \ Resting
  BY <1>1 DEF Resting, Pcs
<1>3. s \in Socks /\ P[t] = "free4" /\ r = so[s]
  BY <1>1, <1>2, Seen
<1>4. /\ FreeOk(s, r, P, Calls(s), (Ipc(s) \in spurious), exiting)
      /\ Basics(s, r, P, Calls(s), exiting)
  BY <1>3, BasicsSeen DEF Working
<1>5. r.asleep = {}
  <2>1. t \in {Ipc(s), Gc(s)}
    BY <1>3, <1>4, WhoIs DEF FreePlaces
  <2>2. P[Ipc(s)] # "asleep"
    BY <1>3, <1>4, <2>1 DEF FreeOk, FreesOk, GcBusy, FreePlaces, ConnPlaces
  <2> QED
    BY <1>4, <2>2 DEF FreeOk, LocksOk
<1>6. r.lock = t
  BY <1>1, InsideFacts DEF Holding
<1>7. LockMove(t, op[t], pc[t], "out", r, q)
  BY <1>1, <1>6 DEF LockMove
<1> HIDE DEF q
<1> QED
  BY <1>1, <1>2, <1>5, <1>7, LockWorking DEF Same

\* A thread ends what it was doing.
LEMMA LeavingWorking ==
    ASSUME LifeInv, Working, NEW t \in Threads, t # Main, pc[t] \notin Resting,
           pc[t] # "free2", NEW q, NEW p \in Resting, Step(t, q, p), Leave(t),
           SameTcp(Sock(t), q), LockMove(t, op[t], pc[t], "idle", Sock(t), q)
    PROVE  Working'
<1>0. PICK s \in Socks : s = tgt[t]
  BY Seen
<1> DEFINE P == View(s)
           O == Calls(s)
           Z == View(s)'
           Y == Calls(s)'
           r == Sock(t)
           w == Ipc(s) \in spurious
<1>1. s \in Socks /\ P[t] = pc[t] /\ O[t] = op[t] /\ r = so[s]
  BY <1>0, Seen
<1>2. so'[s] = q /\ \A x \in Socks \ {s} : so'[x] = so[x]
  BY <1>0 DEF Step, LifeInv, Typed
<1>3. /\ pc'[t] = p /\ \A u \in Threads \ {t} : pc'[u] = pc[u]
      /\ tgt'[t] = NoThread /\ \A u \in Threads \ {t} : tgt'[u] = tgt[u]
      /\ op'[t] = "none" /\ \A u \in Threads \ {t} : op'[u] = op[u]
      /\ slock' = slock /\ spurious' = spurious /\ exiting' = exiting
  BY DEF Step, Leave, LifeInv, Typed
<1>4. \A x \in Socks :
         View(x)'[t] = "idle" /\ \A u \in Threads \ {t} : View(x)'[u] = View(x)[u]
  BY <1>3 DEF View, Resting
<1>5. \A x \in Socks \ {s} : View(x)' = View(x) /\ Calls(x)' = Calls(x)
  <2> TAKE x \in Socks \ {s}
  <2>1. View(x)[t] = "idle"
    BY <1>0 DEF View
  <2>2. \A u \in Threads : View(x)'[u] = View(x)[u]
    BY <1>4, <2>1
  <2>3. View(x)' = View(x)
    BY <2>2 DEF View
  <2>4. \A u \in Threads : View(x)[u] # "idle" => op'[u] = op[u]
    BY <1>3, <2>1
  <2>5. Calls(x)' = Calls(x)
    BY <2>3, <2>4 DEF Calls
  <2> QED
    BY <2>3, <2>5
<1>6. \A u \in Threads : Y[u] \in {O[u], "none"}
  BY <1>3, <1>4 DEF Calls
<1>7. FreeOk(s, r, P, O, w, exiting) /\ Basics(s, r, P, O, exiting)
  BY <1>1, BasicsSeen DEF Working
<1>8. /\ SameTcp(r, q) /\ LockMove(t, O[t], P[t], "idle", r, q) /\ Z[t] = "idle"
      /\ \A u \in Threads \ {t} : Z[u] = P[u]
      /\ Y[Rto(s)] \in {O[Rto(s)], "none"}
  BY <1>1, <1>4, <1>6, ThreadsApart
<1> HIDE DEF P, O, Z, Y, r, w
<1>9. FreeOk(s, q, Z, Y, w, exiting)
  BY <1>1, <1>7, <1>8, MoveFree
<1>10. ASSUME NEW x \in Socks
       PROVE  FreeOk(x, so'[x], View(x)', Calls(x)', (Ipc(x) \in spurious'), exiting')
  <2>1. CASE x = s
    BY <1>2, <1>3, <1>9, <2>1 DEF Z, Y, w
  <2>2. CASE x # s
    <3>1. FreeOk(x, so[x], View(x), Calls(x), (Ipc(x) \in spurious), exiting)
      BY DEF Working
    <3> QED
      BY <1>2, <1>3, <1>5, <2>2, <3>1
  <2> QED
    BY <2>1, <2>2
<1>11. ListOk'
  <2>1. /\ slock # NoThread => slock \in Threads /\ pc[slock] = "free2"
        /\ \A u \in Threads : pc[u] = "free2" => slock = u
    BY DEF Working, ListOk, LifeInv, Typed
  <2> QED
    BY <1>3, <2>1 DEF ListOk, Resting
<1>12. EndsOk'
  <2>1. /\ pc[Main] = "done" => exiting
        /\ exiting => pc[Core] = "idle"
        /\ \A u \in Threads : pc[u] = "exited" => op[u] = "none"
        /\ Main \in Threads /\ Core \in Threads
    BY ThreadsApart DEF Working, EndsOk
  <2>2. exiting => t # Core
    BY <2>1 DEF Resting
  <2> QED
    BY <1>3, <2>1, <2>2 DEF EndsOk
<1> QED
  BY <1>3, <1>10, <1>11, <1>12, ThreadsApart DEF Working

\* A thread lets the socket go: a call returns, or a collector finds it unlisted.
LEMMA LeaveWorking ==
    ASSUME LifeInv, Working, NEW t \in Threads,
           Release(t) \/ (socket_garbage_collect(t) /\ ~Sock(t).listed)
    PROVE  Working'
<1>1. CASE Release(t)
  <2> DEFINE q == socket_release(Sock(t))
             p == IF op[t] = "close" THEN "exited" ELSE "idle"
  <2>1. /\ t # Main /\ pc[t] = "out" /\ Step(t, q, p) /\ Leave(t)
        /\ q.lock = NoThread /\ SameTcp(Sock(t), q) /\ q.m = Sock(t).m
        /\ q.asleep = Sock(t).asleep /\ Sock(t).lock = t
    BY <1>1, ReleaseFacts
  <2>2. p \in Resting /\ pc[t] \notin Resting /\ pc[t] # "free2"
    BY <2>1 DEF Resting
  <2>3. LockMove(t, op[t], pc[t], "idle", Sock(t), q)
    BY <2>1 DEF LockMove
  <2> HIDE DEF q, p
  <2> QED
    BY <2>1, <2>2, <2>3, LeavingWorking
<1>2. CASE socket_garbage_collect(t) /\ ~Sock(t).listed
  <2>1. /\ t # Main /\ pc[t] = "found" /\ op[t] = "gc"
        /\ Step(t, Sock(t), "idle") /\ Leave(t)
    BY <1>2, UnfoundFacts
  <2>2. "idle" \in Resting /\ pc[t] \notin Resting /\ pc[t] # "free2"
    BY <2>1 DEF Resting
  <2>3. LockMove(t, op[t], pc[t], "idle", Sock(t), Sock(t)) /\ SameTcp(Sock(t), Sock(t))
    BY <2>1 DEF LockMove, SameTcp
  <2> QED
    BY <2>1, <2>2, <2>3, LeavingWorking
<1> QED
  BY <1>1, <1>2

\* The beginning of a call, a segment or a handler, seen from all sockets.
LEMMA BeganViews ==
    ASSUME LifeInv, Working, NEW t \in Threads, NEW s \in Socks, NEW o, NEW q,
           pc[t] \in Resting, Began(t, o, s, q)
    PROVE  /\ so'[s] = q /\ View(s)[t] = "idle" /\ View(s)'[t] = "found"
           /\ Calls(s)'[t] = o
           /\ \A u \in Threads \ {t} : /\ View(s)'[u] = View(s)[u]
                                       /\ Calls(s)'[u] = Calls(s)[u]
           /\ \A x \in Socks \ {s} :
                 so'[x] = so[x] /\ View(x)' = View(x) /\ Calls(x)' = Calls(x)
           /\ pc'[t] = "found" /\ \A u \in Threads \ {t} : pc'[u] = pc[u] /\ op'[u] = op[u]
<1>1. so'[s] = q /\ \A x \in Socks \ {s} : so'[x] = so[x]
  BY DEF Began, LifeInv, Typed
<1>2. /\ pc'[t] = "found" /\ \A u \in Threads \ {t} : pc'[u] = pc[u]
      /\ tgt'[t] = s /\ \A u \in Threads \ {t} : tgt'[u] = tgt[u]
      /\ op'[t] = o /\ \A u \in Threads \ {t} : op'[u] = op[u]
  BY DEF Began, LifeInv, Typed
<1>3. \A x \in Socks :
         /\ View(x)[t] = "idle" /\ View(x)'[t] = IF x = s THEN "found" ELSE "idle"
         /\ \A u \in Threads \ {t} : View(x)'[u] = View(x)[u]
  BY <1>2 DEF View, Resting
<1>4. /\ Calls(s)'[t] = o
      /\ \A u \in Threads \ {t} : Calls(s)'[u] = Calls(s)[u]
  BY <1>2, <1>3 DEF Calls
<1>5. \A x \in Socks \ {s} : View(x)' = View(x) /\ Calls(x)' = Calls(x)
  <2> TAKE x \in Socks \ {s}
  <2>1. \A u \in Threads : View(x)'[u] = View(x)[u]
    BY <1>3
  <2>2. View(x)' = View(x)
    BY <2>1 DEF View
  <2>3. \A u \in Threads : View(x)[u] # "idle" => op'[u] = op[u]
    BY <1>2, <1>3
  <2>4. Calls(x)' = Calls(x)
    BY <2>2, <2>3 DEF Calls
  <2> QED
    BY <2>2, <2>4
<1> QED
  BY <1>1, <1>2, <1>3, <1>4, <1>5

\* A thread that looks a socket up and finds it begins a call on it.
LEMMA BeganWorking ==
    ASSUME LifeInv, Working, NEW t \in Threads, t # Main, NEW s \in Socks, NEW o, NEW q,
           pc[t] \in Resting, Began(t, o, s, q), ~exiting,
           FreeOk(s, q, View(s)', Calls(s)', (Ipc(s) \in spurious), exiting)
    PROVE  Working'
<1>1. /\ so'[s] = q
      /\ \A x \in Socks \ {s} :
            so'[x] = so[x] /\ View(x)' = View(x) /\ Calls(x)' = Calls(x)
      /\ pc'[t] = "found" /\ \A u \in Threads \ {t} : pc'[u] = pc[u] /\ op'[u] = op[u]
  BY BeganViews
<1>2. slock' = slock /\ spurious' = spurious /\ exiting' = exiting
  BY DEF Began
<1>3. ASSUME NEW x \in Socks
      PROVE  FreeOk(x, so'[x], View(x)', Calls(x)', (Ipc(x) \in spurious'), exiting')
  <2>1. CASE x = s
    BY <1>1, <1>2, <2>1
  <2>2. CASE x # s
    <3>1. FreeOk(x, so[x], View(x), Calls(x), (Ipc(x) \in spurious), exiting)
      BY DEF Working
    <3> QED
      BY <1>1, <1>2, <2>2, <3>1
  <2> QED
    BY <2>1, <2>2
<1>4. ListOk'
  <2>1. /\ slock # NoThread => slock \in Threads /\ pc[slock] = "free2"
        /\ \A u \in Threads : pc[u] = "free2" => slock = u
    BY DEF Working, ListOk, LifeInv, Typed
  <2> QED
    BY <1>1, <1>2, <2>1 DEF ListOk, Resting
<1>5. EndsOk'
  <2>1. \A u \in Threads : pc[u] = "exited" => op[u] = "none"
    BY DEF Working, EndsOk
  <2>2. pc[Main] # "done" /\ Main \in Threads
    BY ThreadsApart DEF Working, EndsOk
  <2> QED
    BY <1>1, <1>2, <2>1, <2>2 DEF EndsOk
<1> QED
  BY <1>1, <1>3, <1>4, <1>5, ThreadsApart DEF Working

\* An application's call, or a segment on the core thread, begins.
LEMMA CallWorking ==
    ASSUME LifeInv, Working, NEW t, NEW o, NEW s \in Socks,
           \/ /\ t \in Callers /\ Call(t, o, s)
              /\ o \in {"connect", "close", "read", "write", "poll", "query"}
           \/ t = Core /\ o = "segment" /\ Segment(s)
    PROVE  Working'
<1>1. /\ t \in Threads /\ t # Main /\ t \notin TimerThreads
      /\ pc[t] = "idle" /\ ~exiting /\ Began(t, o, s, so[s])
  BY CallFacts
<1>2. pc[t] \in Resting
  BY <1>1 DEF Resting
<1> DEFINE P == View(s)
           O == Calls(s)
           Z == View(s)'
           Y == Calls(s)'
           r == so[s]
           w == Ipc(s) \in spurious
<1>3. /\ P[t] = "idle" /\ Z[t] = "found"
      /\ \A u \in Threads \ {t} : Z[u] = P[u] /\ Y[u] = O[u]
  BY <1>1, <1>2, BeganViews
<1>4. Y[Rto(s)] = O[Rto(s)]
  BY <1>1, <1>3, ThreadsApart
<1>5. FreeOk(s, r, P, O, w, exiting) /\ Basics(s, r, P, O, exiting)
  BY BasicsSeen DEF Working
<1>6. SameTcp(r, r) /\ LockMove(t, O[t], P[t], "found", r, r)
  BY <1>1, <1>3 DEF SameTcp, LockMove
<1> HIDE DEF P, O, Z, Y, r, w
<1>7. FreeOk(s, r, Z, Y, w, exiting)
  BY <1>1, <1>3, <1>4, <1>5, <1>6, MoveFree
<1> QED
  BY <1>1, <1>2, <1>7, BeganWorking DEF Z, Y, r, w

\* Where the threads are that work on a quiet socket.
LEMMA QuietSeen ==
    ASSUME LifeInv, Working, NEW s \in Socks, Quiet(s), ~exiting,
           NEW t \in {Linger(s), Gc(s)}, NEW o \in {"linger", "gc"}, NEW q,
           Began(t, o, s, q)
    PROVE  /\ \A u \in Threads : View(s)[u] \in {"idle", "asleep", "rasleep"}
           /\ pc[t] \in Resting
<1>1. \A u \in Threads : View(s)[u] \in {"idle", "asleep", "rasleep"}
  BY DEF View, Quiet
<1>2. ASSUME pc[t] \notin Resting
      PROVE  FALSE
  <2>1. /\ tgt[t] \in Socks /\ op[t] # "none" /\ Role(t, tgt[t], op[t], pc[t])
        /\ t \in Threads /\ t # Main /\ op[t] \in Ops /\ t \notin Callers /\ t # Core
    BY <1>2, BusyFacts, ThreadsApart DEF LifeInv, Typed
  <2>2. op[t] \in {"conn", "rto", "linger", "gc"}
    BY <2>1, ThreadsApart DEF Role, IpcOps, Ops
  <2>3. tgt[t] = s
    BY <2>1, <2>2, ThreadsApart DEF Role
  <2>4. pc[t] \in {"asleep", "rasleep"}
    BY <1>2, <2>1, <2>3 DEF Quiet, Resting
  <2> QED
    BY <2>1, <2>2, <2>4 DEF Role, ConnPlaces, ReadPlaces
<1> QED
  BY <1>1, <1>2

\* A timer expires and its handler's thread begins.
LEMMA ExpiryWorking ==
    ASSUME LifeInv, Working, NEW s \in Socks,
           ExpireRto(s) \/ ExpireLinger(s) \/ ExpireGc(s)
    PROVE  Working'
<1> DEFINE P == View(s)
           O == Calls(s)
           Z == View(s)'
           Y == Calls(s)'
           r == so[s]
           w == Ipc(s) \in spurious
<1>1. FreeOk(s, r, P, O, w, exiting) /\ Basics(s, r, P, O, exiting)
  BY BasicsSeen DEF Working
<1>2. CASE ExpireRto(s)
  <2>1. PICK q, o : /\ o \in {"conn", "rto"} /\ Rto(s) \in Threads /\ Rto(s) # Main
                    /\ pc[Rto(s)] = "idle" /\ ~exiting /\ SameState(r, q)
                    /\ q.linger = r.linger /\ q.untracked = r.untracked
                    /\ \/ r.rto = o /\ q.rto = "fired" /\ q.stray = r.stray
                       \/ r.stray /\ o = "rto" /\ ~q.stray /\ q.rto = r.rto
                    /\ Began(Rto(s), o, s, q)
    BY <1>2, ExpireRtoFacts
  <2>2. pc[Rto(s)] \in Resting
    BY <2>1 DEF Resting
  <2>3. /\ P[Rto(s)] = "idle" /\ Z[Rto(s)] = "found" /\ Y[Rto(s)] = o
        /\ \A u \in Threads \ {Rto(s)} : Z[u] = P[u]
    BY <2>1, <2>2, BeganViews
  <2> HIDE DEF P, O, Z, Y, r, w
  <2>4. FreeOk(s, q, Z, Y, w, exiting)
    BY <1>1, <2>1, <2>3, ExpiryFree DEF SameState, SameLife
  <2> QED
    BY <2>1, <2>2, <2>4, BeganWorking DEF Z, Y, w
<1>3. CASE ExpireLinger(s)
  <2>1. PICK q : /\ Linger(s) \in Threads /\ Linger(s) # Main
                 /\ ~exiting /\ Quiet(s) /\ r.linger = "armed" /\ SameState(r, q)
                 /\ q.linger = "fired" /\ q.untracked = r.untracked
                 /\ q.rto = r.rto /\ q.stray = r.stray
                 /\ Began(Linger(s), "linger", s, q)
    BY <1>3, ExpireLingerFacts
  <2>2. /\ \A u \in Threads : P[u] \in {"idle", "asleep", "rasleep"}
        /\ pc[Linger(s)] \in Resting
    BY <2>1, QuietSeen
  <2>3. /\ P[Linger(s)] = "idle" /\ Z[Linger(s)] = "found"
        /\ \A u \in Threads \ {Linger(s)} : Z[u] = P[u] /\ Y[u] = O[u]
    BY <2>1, <2>2, BeganViews
  <2>4. Y[Rto(s)] = O[Rto(s)]
    BY <2>3, ThreadsApart
  <2> HIDE DEF P, O, Z, Y, r, w
  <2>5. FreeOk(s, q, Z, Y, w, exiting)
    BY <1>1, <2>1, <2>2, <2>3, <2>4, ExpiryFree DEF SameState, SameLife
  <2> QED
    BY <2>1, <2>2, <2>5, BeganWorking DEF Z, Y, w
<1>4. CASE ExpireGc(s)
  <2>1. PICK q : /\ Gc(s) \in Threads /\ Gc(s) # Main
                 /\ ~exiting /\ Quiet(s) /\ r.gc > 0 /\ SameButGc(r, q)
                 /\ q.gc = r.gc - 1 /\ Began(Gc(s), "gc", s, q)
    BY <1>4, ExpireGcFacts
  <2>2. /\ \A u \in Threads : P[u] \in {"idle", "asleep", "rasleep"}
        /\ pc[Gc(s)] \in Resting
    BY <2>1, QuietSeen
  <2>3. /\ P[Gc(s)] = "idle" /\ Z[Gc(s)] = "found"
        /\ \A u \in Threads \ {Gc(s)} : Z[u] = P[u] /\ Y[u] = O[u]
    BY <2>1, <2>2, BeganViews
  <2>4. Y[Rto(s)] = O[Rto(s)]
    BY <2>3, ThreadsApart
  <2> HIDE DEF P, O, Z, Y, r, w
  <2>5. FreeOk(s, q, Z, Y, w, exiting)
    BY <1>1, <2>1, <2>2, <2>3, <2>4, ExpiryFree DEF SameButGc
  <2> QED
    BY <2>1, <2>2, <2>5, BeganWorking DEF Z, Y, w
<1> QED
  BY <1>2, <1>3, <1>4

\* A new socket: nobody works on it yet.
LEMMA CreateWorking ==
    ASSUME LifeInv, Working, NEW s \in Socks, Create(s)
    PROVE  Working'
<1> DEFINE q == [alloc_socket EXCEPT !.sk = "live", !.listed = TRUE]
<1>1. /\ so[s] = Unallocated /\ so' = [so EXCEPT ![s] = q] /\ Same /\ UNCHANGED pc
      /\ q.sk = "live" /\ q.listed
      /\ q.frees = 0 /\ q.by = "none" /\ q.lock = NoThread /\ q.m = NoThread
      /\ q.asleep = {} /\ q.ss = "UNCONNECTED"
      /\ q.tcp = "CLOSE" /\ q.rto = "none" /\ q.linger = "none" /\ ~q.stray
      /\ ~q.queued /\ q.gc = 0
  BY CreateFacts
<1>2. so[s].mem = "none"
  BY <1>1 DEF Unallocated
<1>3. \A u \in Threads : View(s)[u] = "idle"
  BY <1>2 DEF View, LifeInv, Targets, Resting
<1> HIDE DEF q
<1>4. FreeOk(s, q, View(s), Calls(s), (Ipc(s) \in spurious), exiting)
  BY <1>1, <1>3, CreateFree
<1>5. so'[s] = q /\ \A x \in Socks \ {s} : so'[x] = so[x]
  BY <1>1 DEF LifeInv, Typed
<1>6. \A x \in Socks : View(x)' = View(x) /\ Calls(x)' = Calls(x)
  BY <1>1 DEF View, Calls, Same
<1>7. \A x \in Socks :
         FreeOk(x, so'[x], View(x)', Calls(x)', (Ipc(x) \in spurious'), exiting')
  <2> TAKE x \in Socks
  <2>1. CASE x = s
    BY <1>1, <1>4, <1>5, <1>6, <2>1 DEF Same
  <2>2. CASE x # s
    <3>1. FreeOk(x, so[x], View(x), Calls(x), (Ipc(x) \in spurious), exiting)
      BY DEF Working
    <3> QED
      BY <1>1, <1>5, <1>6, <2>2, <3>1 DEF Same
  <2> QED
    BY <2>1, <2>2
<1>8. ListOk' /\ EndsOk' /\ pc'[Main] # "exited"
  BY <1>1 DEF Working, ListOk, EndsOk, Same
<1> QED
  BY <1>7, <1>8 DEF Working

\* Main aborts a socket.
LEMMA AbortWorking ==
    ASSUME LifeInv, Working, NEW s \in Socks, abort_sockets(s)
    PROVE  Working'
<1>1. PICK q : /\ so' = [so EXCEPT ![s] = q] /\ SameLife(so[s], q)
               /\ q.tcp = "CLOSING" /\ q.rto = "none" /\ q.linger = "none"
               /\ q.stray = so[s].stray /\ q.untracked = so[s].untracked
               /\ q.ss = so[s].ss /\ q.reconnected = so[s].reconnected
               /\ pc[Main] = "idle" /\ pc[Core] = "idle" /\ exiting' = TRUE
               /\ pc' = [pc EXCEPT ![Main] = "done"]
               /\ tgt' = [tgt EXCEPT ![Main] = s]
               /\ op' = [op EXCEPT ![Main] = "abort"]
               /\ UNCHANGED << slock, spurious, uaf >>
  BY AbortFacts
<1>0. Main \in Threads /\ Core \in Threads /\ Core # Main
  BY ThreadsApart
<1>2. so'[s] = q /\ \A x \in Socks \ {s} : so'[x] = so[x]
  BY <1>1 DEF LifeInv, Typed
<1>3. /\ pc'[Main] = "done" /\ tgt'[Main] = s /\ op'[Main] = "abort"
      /\ \A u \in Threads \ {Main} : pc'[u] = pc[u] /\ tgt'[u] = tgt[u] /\ op'[u] = op[u]
  BY <1>0, <1>1 DEF LifeInv, Typed
<1>4. \A x \in Socks :
         /\ View(x)[Main] = "idle" /\ View(x)'[Main] = IF x = s THEN "done" ELSE "idle"
         /\ \A u \in Threads \ {Main} : View(x)'[u] = View(x)[u]
  BY <1>0, <1>1, <1>3 DEF View
<1>5. \A x \in Socks \ {s} : View(x)' = View(x)
  <2> TAKE x \in Socks \ {s}
  <2>1. \A u \in Threads : View(x)'[u] = View(x)[u]
    BY <1>4
  <2> QED
    BY <2>1 DEF View
<1>6. \A x \in Socks :
         FreeOk(x, so'[x], View(x)', Calls(x)', (Ipc(x) \in spurious'), exiting')
  <2> TAKE x \in Socks
  <2>1. FreeOk(x, so[x], View(x), Calls(x), (Ipc(x) \in spurious), exiting)
    BY DEF Working
  <2>2. Basics(x, so[x], View(x), Calls(x), exiting)
    BY BasicsSeen
  <2> DEFINE P == View(x)
             O == Calls(x)
             Z == View(x)'
             Y == Calls(x)'
             w == Ipc(x) \in spurious
  <2>3. CASE x = s
    <3>1. Z[Main] = "done" /\ \A u \in Threads \ {Main} : Z[u] = P[u]
      BY <1>4, <2>3
    <3>2. FreeOk(s, so[s], P, O, w, exiting) /\ Basics(s, so[s], P, O, exiting)
      BY <2>1, <2>2, <2>3
    <3> HIDE DEF P, O, Z, Y, w
    <3>3. FreeOk(s, q, Z, Y, w, TRUE)
      BY <1>1, <3>1, <3>2, AbortFree
    <3> QED
      BY <1>1, <1>2, <2>3, <3>3 DEF Z, Y, w
  <2>4. CASE x # s
    <3>1. so'[x] = so[x] /\ Z = P
      BY <1>2, <1>5, <2>4
    <3> HIDE DEF P, O, Z, Y, w
    <3>2. FreeOk(x, so[x], P, Y, w, TRUE)
      BY <2>1, ExitFree DEF P, O, w
    <3> QED
      BY <1>1, <3>1, <3>2 DEF Z, Y, w
  <2> QED
    BY <2>3, <2>4
<1>7. ListOk'
  <2>1. /\ slock # NoThread => slock \in Threads /\ pc[slock] = "free2"
        /\ \A u \in Threads : pc[u] = "free2" => slock = u
    BY DEF Working, ListOk, LifeInv, Typed
  <2> QED
    BY <1>0, <1>1, <1>3, <2>1 DEF ListOk
<1>8. EndsOk' /\ pc'[Main] # "exited"
  BY <1>0, <1>1, <1>3 DEF Working, EndsOk
<1> QED
  BY <1>6, <1>7, <1>8 DEF Working

\* Main wakes the sleepers of a socket it aborted; after the last one it ends
\* the process.
LEMMA AbortWakeWorking ==
    ASSUME LifeInv, Working, AbortWake
    PROVE  Working' \/ Ended'
<1>0. Main \in Threads /\ Core \in Threads /\ Core # Main
  BY ThreadsApart
<1>1. PICK s \in Socks : s = tgt[Main]
  BY AbortWakeFacts
<1>2. PICK q : /\ so' = [so EXCEPT ![s] = q] /\ q.ss = "DISCONNECTING"
               /\ q.asleep = {} /\ q.m = NoThread /\ so[s].m = NoThread
               /\ q.lock = so[s].lock /\ SameButState(so[s], q)
  BY <1>1, AbortWakeFacts DEF SameButState
<1>3. pc[Main] = "done" /\ exiting /\ Leave(Main)
  BY AbortWakeFacts DEF Working, EndsOk
<1>4. pc' = [u \in Threads |-> IF Unaborted = {} THEN "exited"
                               ELSE IF u = Main THEN "idle"
                               ELSE IF u \in so[s].asleep THEN "woken" ELSE pc[u]]
  BY <1>1 DEF AbortWake, Sock
<1>5. CASE Unaborted = {}
  BY <1>3, <1>4, <1>5 DEF Ended, Leave
<1>6. CASE Unaborted # {}
  <2>1. /\ pc'[Main] = "idle"
        /\ \A u \in Threads \ {Main} :
              pc'[u] = IF u \in so[s].asleep THEN "woken" ELSE pc[u]
    BY <1>0, <1>4, <1>6
  <2>2. \A u \in so[s].asleep :
           u \in Threads /\ u # Main /\ u # Core /\ tgt[u] = s /\ pc[u] = "asleep"
    BY SleepersSeen
  <2>3. /\ tgt'[Main] = NoThread /\ op'[Main] = "none"
        /\ \A u \in Threads \ {Main} : tgt'[u] = tgt[u] /\ op'[u] = op[u]
        /\ slock' = slock /\ spurious' = spurious /\ exiting' = exiting
    BY <1>0, <1>3 DEF Leave, LifeInv, Typed
  <2>4. so'[s] = q /\ \A x \in Socks \ {s} : so'[x] = so[x]
    BY <1>2 DEF LifeInv, Typed
  <2>5. \A x \in Socks \ {s} : \A u \in Threads : View(x)'[u] = View(x)[u]
    BY <1>0, <1>1, <2>1, <2>2, <2>3 DEF View
  <2>6. \A x \in Socks \ {s} : View(x)' = View(x)
    BY <2>5 DEF View
  <2>7. /\ View(s)[Main] = "done" /\ View(s)'[Main] = "idle"
        /\ \A u \in Threads \ {Main} :
              View(s)'[u] = IF u \in so[s].asleep THEN "woken" ELSE View(s)[u]
    BY <1>0, <1>1, <1>3, <2>1, <2>2, <2>3 DEF View
  <2>8. \A x \in Socks :
           FreeOk(x, so'[x], View(x)', Calls(x)', (Ipc(x) \in spurious'), exiting')
    <3> TAKE x \in Socks
    <3>0. exiting = TRUE /\ exiting' = TRUE
      BY <1>3, <2>3 DEF LifeInv, Typed
    <3>1. FreeOk(x, so[x], View(x), Calls(x), (Ipc(x) \in spurious), TRUE)
      BY <3>0 DEF Working
    <3>2. Basics(x, so[x], View(x), Calls(x), TRUE)
      BY <3>0, BasicsSeen
    <3> DEFINE P == View(x)
               O == Calls(x)
               Z == View(x)'
               Y == Calls(x)'
               w == Ipc(x) \in spurious
    <3>3. CASE x = s
      <4>1. /\ P[Main] = "done" /\ Z[Main] = "idle"
            /\ \A u \in Threads \ {Main} : Z[u] = IF u \in so[s].asleep THEN "woken" ELSE P[u]
        BY <2>7, <3>3
      <4>2. FreeOk(s, so[s], P, O, w, TRUE) /\ Basics(s, so[s], P, O, TRUE)
        BY <3>1, <3>2, <3>3
      <4> HIDE DEF P, O, Z, Y, w
      <4>3. FreeOk(s, q, Z, Y, w, TRUE)
        BY <1>2, <4>1, <4>2, AbortWakeFree
      <4> QED
        BY <2>3, <2>4, <3>0, <3>3, <4>3 DEF Z, Y, w
    <3>4. CASE x # s
      <4>1. so'[x] = so[x] /\ Z = P
        BY <2>4, <2>6, <3>4
      <4> HIDE DEF P, O, Z, Y, w
      <4>2. FreeOk(x, so[x], P, Y, w, TRUE)
        BY <3>1, ExitFree DEF P, O, w
      <4> QED
        BY <2>3, <3>0, <4>1, <4>2 DEF Z, Y, w
    <3> QED
      BY <3>3, <3>4
  <2>9. ListOk'
    <3>1. /\ slock # NoThread => slock \in Threads /\ pc[slock] = "free2"
          /\ \A u \in Threads : pc[u] = "free2" => slock = u
      BY DEF Working, ListOk, LifeInv, Typed
    <3> QED
      BY <1>0, <1>3, <2>1, <2>2, <2>3, <3>1 DEF ListOk
  <2>10. EndsOk' /\ pc'[Main] # "exited"
    BY <1>0, <1>3, <2>1, <2>2, <2>3 DEF Working, EndsOk
  <2> QED
    BY <2>8, <2>9, <2>10 DEF Working
<1> QED
  BY <1>5, <1>6

----------------------------------------------------------------------------
(* The invariants *)

\* What the second invariant says of frees, before and after a step.
LEMMA WorkingFrees == (Working => FreedOnce) /\ (Working' => FreedOnce')
  BY DEF Working, FreeOk, FreesOk, FreedOnce

\* The use of a freed struct sock by a handler: the handler of a retransmission
\* or linger timer, which found it freed by connect(), or which tcp_done could
\* not cancel.
LEMMA TouchUses ==
    ASSUME LifeInv, Working, FreedUses, NEW t \in Threads, TouchFreed(t)
    PROVE  FreedUses'
<1>1. CASE t \notin TimerThreads
  BY <1>1 DEF TouchFreed, FreedUses
<1>2. CASE t \in TimerThreads
  <2>1. /\ pc[t] \in {"in", "rin", "check"} /\ Sock(t).sk = "freed"
        /\ uaf' = uaf \cup {[by |-> Sock(t).by, untracked |-> Sock(t).untracked]}
    BY <1>2 DEF TouchFreed
  <2> DEFINE s == tgt[t]
             P == View(s)
             r == so[s]
  <2>2. s \in Socks /\ P[t] = pc[t] /\ Sock(t) = r
    BY <2>1, Seen DEF Resting
  <2>3. Basics(s, r, P, Calls(s), exiting) /\ TimedOk(s, r, P, exiting)
    BY <2>2, BasicsSeen DEF Working, FreeOk
  <2>4. r.by \in {"connect", "gc"}
    BY <2>1, <2>2, <2>3 DEF Basics, GoodSock
  <2>5. t \in {Rto(s), Linger(s)} /\ P[t] = "in"
    <3>1. /\ P[t] \in ConnPlaces \cup ReadPlaces => t = Ipc(s)
          /\ Calls(s)[t] \in IpcOps => t = Ipc(s)
          /\ P[Gc(s)] \in FreePlaces \cup {"idle", "found", "out"}
      BY <2>2, <2>3, WhoIs
    <3>2. t # Ipc(s) /\ t \notin Callers /\ t # Core /\ t # Main /\ t # Gc(s)
      BY <1>2, <2>1, <2>2, <3>1, ThreadsApart DEF FreePlaces
    <3>3. P[t] = "in" /\ pc[t] \notin Resting
      BY <2>1, <2>2, <3>1, <3>2 DEF ConnPlaces, ReadPlaces, Resting
    <3>4. Role(t, s, op[t], pc[t]) /\ op[t] # "none" /\ op[t] \in Ops
      BY <3>3, BusyFacts DEF LifeInv, Typed
    <3> QED
      BY <3>2, <3>3, <3>4 DEF Role, IpcOps, Ops
  <2>6. r.by = "gc" => r.untracked
    BY <2>1, <2>2, <2>3, <2>5 DEF TimedOk, GcFreed
  <2> QED
    BY <2>1, <2>2, <2>4, <2>6 DEF FreedUses
<1> QED
  BY <1>1, <1>2

\* The end of the process frees nothing.
LEMMA AbortWakeOnce ==
    ASSUME LifeInv, FreedOnce, AbortWake
    PROVE  FreedOnce'
<1>1. tgt[Main] \in Socks
  BY AbortWakeFacts
<1>2. PICK q : /\ so' = [so EXCEPT ![tgt[Main]] = q]
               /\ q.sk = so[tgt[Main]].sk /\ q.frees = so[tgt[Main]].frees
               /\ q.listed = so[tgt[Main]].listed
               /\ q.reconnected = so[tgt[Main]].reconnected
  BY AbortWakeFacts
<1>3. so'[tgt[Main]] = q /\ \A x \in Socks \ {tgt[Main]} : so'[x] = so[x]
  BY <1>1, <1>2 DEF LifeInv, Typed
<1> QED
  BY <1>1, <1>2, <1>3 DEF FreedOnce

\* After the end nothing happens.
LEMMA EndedNext ==
    ASSUME Ended, Next
    PROVE  FALSE
<1>1. exiting /\ \A t \in Threads : pc[t] = "exited"
  BY DEF Ended
<1>2. Main \in Threads /\ Core \in Threads /\ Callers \subseteq Threads
  BY ThreadsApart
<1>3. ~CallNext
  BY <1>1 DEF CallNext, Call
<1>4. \A s \in Socks : ~Create(s) /\ ~Segment(s) /\ ~abort_sockets(s)
  BY <1>1, <1>2, ThreadsApart DEF Create, Segment, abort_sockets
<1>5. \A s \in Socks : ~ExpireRto(s) /\ ~ExpireLinger(s) /\ ~ExpireGc(s)
  BY <1>1 DEF ExpireRto, ExpireLinger, ExpireGc
<1>6. ~AbortWake
  BY <1>1, <1>2 DEF AbortWake
<1>7. ~SegmentIn
  BY <1>1, <1>2 DEF SegmentIn, Inside
<1>8. ASSUME NEW t \in Threads
      PROVE  ~ThreadStep(t) /\ ~WakeSpuriously(t)
  <2>0. pc[t] = "exited"
    BY <1>1
  <2>1. ~Acquire(t) /\ ~Release(t) /\ ~TouchFreed(t)
    BY <2>0 DEF Acquire, Release, TouchFreed
  <2>2. ~Wake(t) /\ ~LockSleep(t) /\ ~Check(t) /\ ~WaitSleep(t) /\ ~WakeSpuriously(t)
    BY <2>0 DEF Wake, LockSleep, Check, WaitSleep, WakeSpuriously
  <2>3. \A o : ~Inside(t, o)
    BY <2>0 DEF Inside
  <2>4. /\ ~ConnectIn(t) /\ ~CloseIn(t) /\ ~WriteIn(t) /\ ~ReadIn(t) /\ ~ReadAgain(t)
        /\ ~PollIn(t) /\ ~QueryIn(t) /\ ~ConnRtoIn(t) /\ ~RtoIn(t) /\ ~LingerIn(t)
    BY <2>0, <2>3, Zenon DEF ConnectIn, CloseIn, WriteIn, ReadIn, ReadAgain, PollIn, QueryIn,
                      ConnRtoIn, RtoIn, LingerIn
  <2>5. /\ ~socket_garbage_collect(t) /\ ~ConnectFailed(t) /\ ~FreeLock(t)
        /\ ~FreeUnlist(t) /\ ~FreeSock(t) /\ ~FreeWait(t)
    BY <2>0 DEF socket_garbage_collect, ConnectFailed, FreeLock, FreeUnlist, FreeSock, FreeWait
  <2> QED
    BY <2>1, <2>2, <2>4, <2>5 DEF ThreadStep
<1> QED
  BY <1>3, <1>4, <1>5, <1>6, <1>7, <1>8 DEF Next

\* A step of a thread.
LEMMA ThreadFree ==
    ASSUME LifeInv, Working, FreedUses, NEW t \in Threads,
           ThreadStep(t) \/ WakeSpuriously(t) \/ (t = Core /\ SegmentIn)
    PROVE  Working' /\ FreedUses'
<1>1. CASE \/ ConnectIn(t) \/ CloseIn(t) \/ WriteIn(t) \/ ReadIn(t) \/ ReadAgain(t)
           \/ PollIn(t) \/ QueryIn(t) \/ ConnRtoIn(t) \/ RtoIn(t) \/ LingerIn(t)
           \/ t = Core /\ SegmentIn
  <2>1. HandlerStep(t)
    BY <1>1, Handlers
  <2>2. uaf' = uaf
    BY <2>1 DEF HandlerStep, Same
  <2> QED
    BY <2>1, <2>2, HandlerWorking DEF FreedUses
<1>2. CASE TouchFreed(t)
  BY <1>2, TouchUses, LocksWorking
<1>3. CASE \/ Acquire(t) \/ LockSleep(t) \/ WaitSleep(t) \/ WakeSpuriously(t)
           \/ ConnectFailed(t) \/ FreeLock(t)
  <2>1. uaf' = uaf
    BY <1>3 DEF Acquire, LockSleep, WaitSleep, WakeSpuriously, ConnectFailed, FreeLock, Same
  <2> QED
    BY <1>3, <2>1, LocksWorking DEF FreedUses
<1>4. CASE socket_garbage_collect(t)
  <2>1. uaf' = uaf
    BY <1>4 DEF socket_garbage_collect, Same, Leave
  <2> QED
    BY <1>4, <2>1, LocksWorking, LeaveWorking DEF FreedUses
<1>5. CASE Release(t)
  <2>1. uaf' = uaf
    BY <1>5 DEF Release, Leave
  <2> QED
    BY <1>5, <2>1, LeaveWorking DEF FreedUses
<1>6. CASE Wake(t) \/ Check(t) \/ FreeUnlist(t) \/ FreeSock(t) \/ FreeWait(t)
  <2>1. uaf' = uaf
    BY <1>6 DEF Wake, Check, FreeUnlist, FreeSock, FreeWait, Same
  <2> QED
    BY <1>6, <2>1, WakeWorking, CheckWorking, FreeingWorking, FreeWaitWorking DEF FreedUses
<1> QED
  BY <1>1, <1>2, <1>3, <1>4, <1>5, <1>6 DEF ThreadStep

\* Every step preserves the invariant.
LEMMA NextFree == FreeInv /\ [Next]_vars => FreeInv'
<1> SUFFICES ASSUME FreeInv, [Next]_vars
             PROVE  FreeInv'
  OBVIOUS
<1>0. LifeInv /\ FreedOnce /\ FreedUses /\ LifeInv'
  BY NextLife DEF FreeInv
<1>1. CASE UNCHANGED vars
  <2>1. \A s \in Socks : View(s)' = View(s)
    BY <1>1 DEF vars, View
  <2>2. \A s \in Socks : Calls(s)' = Calls(s)
    BY <1>1, <2>1 DEF vars, Calls
  <2>3. Working => Working'
    BY <1>1, <2>1, <2>2 DEF vars, Working, ListOk, EndsOk
  <2>4. Ended => Ended'
    BY <1>1 DEF vars, Ended
  <2>5. FreedOnce' /\ FreedUses'
    BY <1>0, <1>1 DEF vars, FreedOnce, FreedUses
  <2> QED
    BY <1>0, <2>3, <2>4, <2>5 DEF FreeInv
<1>2. CASE Next /\ Ended
  BY <1>2, EndedNext
<1>3. CASE Next /\ Working
  <2>1. CASE CallNext
    <3>1. PICK s \in Socks, t \in Callers :
             \E o \in {"connect", "close", "read", "write", "poll", "query"} : Call(t, o, s)
      BY <2>1 DEF CallNext
    <3>2. PICK o \in {"connect", "close", "read", "write", "poll", "query"} : Call(t, o, s)
      BY <3>1
    <3>3. Working'
      BY <1>0, <1>3, <3>2, CallWorking
    <3>4. uaf' = uaf
      BY <3>2 DEF Call, Begin
    <3> QED
      BY <1>0, <3>3, <3>4, WorkingFrees DEF FreeInv, FreedUses
  <2>2. CASE \/ \E t \in Threads : ThreadStep(t) \/ WakeSpuriously(t)
             \/ SegmentIn
    <3>1. PICK t \in Threads :
             ThreadStep(t) \/ WakeSpuriously(t) \/ (t = Core /\ SegmentIn)
      BY <2>2, ThreadsApart
    <3>2. Working' /\ FreedUses'
      BY <1>0, <1>3, <3>1, ThreadFree
    <3> QED
      BY <1>0, <3>2, WorkingFrees DEF FreeInv
  <2>3. CASE \E s \in Socks : \/ Create(s) \/ Segment(s) \/ abort_sockets(s)
                              \/ ExpireRto(s) \/ ExpireLinger(s) \/ ExpireGc(s)
    <3>1. PICK s \in Socks : \/ Create(s) \/ Segment(s) \/ abort_sockets(s)
                             \/ ExpireRto(s) \/ ExpireLinger(s) \/ ExpireGc(s)
      BY <2>3
    <3>2. Working'
      BY <1>0, <1>3, <3>1, CallWorking, CreateWorking, AbortWorking, ExpiryWorking
    <3>3. uaf' = uaf
      BY <3>1 DEF Create, Segment, abort_sockets, ExpireRto, ExpireLinger, ExpireGc,
                  Begin, Same
    <3> QED
      BY <1>0, <3>2, <3>3, WorkingFrees DEF FreeInv, FreedUses
  <2>4. CASE AbortWake
    <3>1. (Working' \/ Ended') /\ FreedOnce'
      BY <1>0, <1>3, <2>4, AbortWakeWorking, AbortWakeOnce
    <3>2. uaf' = uaf
      BY <2>4 DEF AbortWake, Leave
    <3> QED
      BY <1>0, <3>1, <3>2 DEF FreeInv, FreedUses
  <2> QED
    BY <1>3, <2>1, <2>2, <2>3, <2>4 DEF Next
<1> QED
  BY <1>1, <1>2, <1>3 DEF FreeInv

\* No socket exists and nobody works at the start.
LEMMA InitFree == Init => FreeInv
<1> SUFFICES ASSUME Init
             PROVE  FreeInv
  OBVIOUS
<1>1. LifeInv
  BY InitLife
<1>2. /\ \A t \in Threads : pc[t] = "idle" /\ op[t] = "none"
      /\ \A s \in Socks : so[s] = Unallocated
      /\ slock = NoThread /\ spurious = {} /\ uaf = {} /\ exiting = FALSE
  BY DEF Init
<1>3. \A s \in Socks : \A u \in Threads : View(s)[u] = "idle"
  BY <1>2 DEF View
<1>4. \A s \in Socks : FreeOk(s, so[s], View(s), Calls(s), (Ipc(s) \in spurious), exiting)
  <2> TAKE s \in Socks
  <2> DEFINE r == so[s]
             P == View(s)
             O == Calls(s)
             w == Ipc(s) \in spurious
  <2>1. /\ ~r.listed /\ r.sk = "none" /\ r.frees = 0 /\ r.by = "none"
        /\ r.lock = NoThread /\ r.m = NoThread /\ r.asleep = {} /\ r.ss = "UNCONNECTED"
        /\ r.tcp = "CLOSE" /\ r.rto = "none" /\ r.linger = "none" /\ ~r.stray
        /\ ~r.queued /\ r.gc = 0
    BY <1>2 DEF Unallocated
  <2>2. /\ \A u \in Threads : P[u] = "idle"
        /\ Ipc(s) \in Threads /\ Rto(s) \in Threads /\ Linger(s) \in Threads
        /\ Gc(s) \in Threads
    BY <1>3, ThreadsApart
  <2> HIDE DEF r, P, O, w
  <2>3. ~GcBusy(s, P) /\ ~GcFreed(r)
    BY <2>1, <2>2 DEF GcBusy, GcFreed, FreePlaces
  <2>4. LocksOk(s, r, P) /\ FreesOk(s, r, P) /\ GivenUpOk(s, r, P, exiting)
    BY <2>1, <2>2, <2>3 DEF LocksOk, FreesOk, GivenUpOk
  <2>5. FreshOk(s, r, P, exiting) /\ ConnectingOk(s, r, P, O, w, exiting)
    BY <2>1, <2>2 DEF FreshOk, ConnectingOk, ConnPlaces, ReadPlaces
  <2>6. TimedOk(s, r, P, exiting)
    BY <2>1, <2>2, <2>3 DEF TimedOk
  <2>7. FreeOk(s, r, P, O, w, exiting)
    BY <2>4, <2>5, <2>6 DEF FreeOk
  <2> QED
    BY <2>7 DEF r, P, O, w
<1>5. Working
  BY <1>2, <1>4, ThreadsApart DEF Working, ListOk, EndsOk
<1> QED
  BY <1>1, <1>2, <1>5, WorkingFrees DEF FreeInv, FreedUses

\* Where a thread waits, and where the thread is that it waits for: a writer of
\* the list, the thread that has the socket lock, or a connect().
LEMMA WaitsWhere ==
    ASSUME LifeInv, Working, NEW t \in Threads, WaitsFor(t) \in Threads
    PROVE  LET x == WaitsFor(t)
           IN  /\ pc[t] \in {"free1", "free2", "found", "rwoken", "reacquire",
                             "lockm", "woken", "wake", "done", "free4"}
               /\ pc[t] \in {"lockm", "woken", "wake", "done", "free4"} =>
                     pc[x] \in {"check", "towait", "reacquire"}
               /\ pc[t] \in {"free2", "rwoken", "reacquire"} =>
                     pc[x] \in Holding /\ tgt[x] = tgt[t] /\ x # Main
               /\ pc[t] \in {"free1", "found"} =>
                     pc[x] \in Holding \cup {"free2"}
<1> DEFINE x == WaitsFor(t)
<1>1. x # NoThread
  BY NoThreadApart
<1>2. \/ pc[t] = "free2" /\ x = Sock(t).lock
      \/ pc[t] \in {"found", "rwoken", "reacquire"} /\ op[t] # "gc" /\ x = Sock(t).lock
      \/ pc[t] \in {"lockm", "woken", "wake", "done", "free4"} /\ x = Sock(t).m
      \/ pc[t] = "free1" /\ x = slock
      \/ pc[t] = "found" /\ op[t] = "gc" /\ x = slock
  BY <1>1 DEF WaitsFor
<1>3. pc[t] \notin Resting
  BY <1>2 DEF Resting
<1> DEFINE s == tgt[t]
           r == so[s]
           P == View(s)
<1>4. s \in Socks /\ Sock(t) = r /\ LocksOk(s, r, P)
  BY <1>3, Seen DEF Working, FreeOk
<1>5. Sock(t).lock # NoThread => /\ Sock(t).lock # Main /\ Sock(t).lock \in Threads
                                 /\ P[Sock(t).lock] \in Holding
  BY <1>4 DEF LocksOk, LifeInv, Typed, Socket
<1>6. Sock(t).m # NoThread => Sock(t).m = Ipc(s) /\ P[Ipc(s)] \in {"check", "towait", "reacquire"}
  BY <1>4 DEF LocksOk
<1>7. \A u \in Threads : P[u] # "idle" => tgt[u] = s /\ pc[u] = P[u]
  BY DEF View
<1>8. Ipc(s) \in Threads /\ "idle" \notin Holding
  BY <1>4, ThreadsApart DEF Holding
<1>9. x = Sock(t).lock => pc[x] \in Holding /\ tgt[x] = s /\ x # Main
  BY <1>1, <1>5, <1>7, <1>8
<1>10. x = Sock(t).m => pc[x] \in {"check", "towait", "reacquire"}
  BY <1>1, <1>6, <1>7, <1>8
<1>11. x = slock => pc[x] = "free2"
  BY <1>1 DEF Working, ListOk
<1> HIDE DEF x, s
<1>12. /\ pc[t] \in {"free1", "free2", "found", "rwoken", "reacquire",
                     "lockm", "woken", "wake", "done", "free4"}
       /\ pc[t] \in {"lockm", "woken", "wake", "done", "free4"} =>
             pc[x] \in {"check", "towait", "reacquire"}
       /\ pc[t] \in {"free2", "rwoken", "reacquire"} =>
             pc[x] \in Holding /\ tgt[x] = s /\ x # Main
       /\ pc[t] \in {"free1", "found"} => pc[x] \in Holding \cup {"free2"}
  BY <1>2, <1>9, <1>10, <1>11
<1> QED
  BY <1>12 DEF x, s

\* A circle has a connect() in it that was woken, has the lock of the wait queue
\* and waits for the lock of its socket, whose holder waits for the former: only
\* a connect() that was woken for no reason meets such a holder.
LEMMA FreeNoDeadlock == FreeInv => NoDeadlock
<1> SUFFICES ASSUME FreeInv, NEW S \in Circles, ~exiting
             PROVE  S \cap spurious # {}
  BY DEF NoDeadlock
<1>1. LifeInv /\ Working
  BY DEF FreeInv, Ended
<1>2. S \subseteq Threads /\ S # {} /\ \A t \in S : WaitsFor(t) \in S
  BY DEF Circles, Waiting
<1>3. \A t \in S :
         /\ WaitsFor(t) \in S
         /\ pc[t] \in {"free1", "free2", "found", "rwoken", "reacquire",
                       "lockm", "woken", "wake", "done", "free4"}
         /\ pc[t] \in {"lockm", "woken", "wake", "done", "free4"} =>
               pc[WaitsFor(t)] \in {"check", "towait", "reacquire"}
         /\ pc[t] \in {"free2", "rwoken", "reacquire"} =>
               /\ pc[WaitsFor(t)] \in Holding
               /\ tgt[WaitsFor(t)] = tgt[t] /\ WaitsFor(t) # Main
         /\ pc[t] \in {"free1", "found"} => pc[WaitsFor(t)] \in Holding \cup {"free2"}
  BY <1>1, <1>2, WaitsWhere
<1>4. \A t \in S : pc[t] \in {"lockm", "woken", "wake", "done", "free4"} =>
                      pc[WaitsFor(t)] = "reacquire"
  BY <1>3
<1>5. \A t \in S : pc[t] \in {"free2", "rwoken", "reacquire"} =>
                      pc[WaitsFor(t)] \in {"lockm", "wake", "done", "free4"}
  BY <1>3 DEF Holding
<1>6. \A t \in S : pc[t] \in {"free1", "found"} =>
                      pc[WaitsFor(t)] \in {"lockm", "wake", "done", "free4", "free2"}
  BY <1>3 DEF Holding
<1>7. PICK y \in S : pc[y] = "reacquire"
  BY <1>2, <1>3, <1>4, <1>5, <1>6
<1> DEFINE s == tgt[y]
           g == WaitsFor(y)
           P == View(s)
<1>8. g \in Threads /\ tgt[g] = s /\ pc[g] \in {"lockm", "wake", "done", "free4"}
  BY <1>2, <1>3, <1>5, <1>7
<1>9. s \in Socks /\ P[y] = "reacquire" /\ y \in Threads
  BY <1>1, <1>2, <1>7, Seen DEF Resting
<1>10. P[g] = pc[g]
  BY <1>8 DEF View
<1>11. y = Ipc(s)
  BY <1>1, <1>9, BasicsSeen, WhoIs DEF ConnPlaces
<1>12. ConnectingOk(s, so[s], P, Calls(s), (Ipc(s) \in spurious), exiting)
  BY <1>1, <1>9 DEF Working, FreeOk
<1>13. Ipc(s) \in spurious
  BY <1>8, <1>9, <1>10, <1>11, <1>12 DEF ConnectingOk, ConnPlaces
<1> QED
  BY <1>7, <1>11, <1>13

\* The inductive invariant holds, whatever sockets and threads there are.
THEOREM FreeInvariant == Spec => []FreeInv
<1>1. Init => FreeInv
  BY InitFree
<1>2. FreeInv /\ [Next]_vars => FreeInv'
  BY NextFree
<1> QED
  BY <1>1, <1>2, PTL DEF Spec

\* A struct sock is freed once (socket_free, socket_garbage_collect, _connect),
\* and is in the list only while it lives, unless connect() is called on a
\* socket that was given up.
THEOREM SocketsFreedOnce == Spec => []FreedOnce
<1>1. FreeInv => FreedOnce
  BY DEF FreeInv
<1> QED
  BY <1>1, FreeInvariant, PTL

\* A timer that tcp_done cancels (tcp_clear_timers) never finds its struct sock
\* freed by the collector.
THEOREM CancelledTimersSafe == Spec => []FreedUses
<1>1. FreeInv => FreedUses
  BY DEF FreeInv
<1> QED
  BY <1>1, FreeInvariant, PTL

\* The lock of the list, the locks of sockets and those of their wait queues
\* (include/wait.h) are never waited for in a circle, unless a connect() was
\* woken for no reason or the process is about to end.
THEOREM NoCircularWait == Spec => []NoDeadlock
<1>1. FreeInv => NoDeadlock
  BY FreeNoDeadlock
<1> QED
  BY <1>1, FreeInvariant, PTL

=============================================================================
