-------------------------------- MODULE Ipc --------------------------------
(***************************************************************************)
(* Applications and the stack: the library (tools/libhfip.c) turns socket  *)
(* calls into messages over one Unix connection per socket, and one thread *)
(* of the stack per connection (src/ipc.c) reads a message, makes the call *)
(* and answers.  The connections are byte streams: a read() takes whatever *)
(* is there, up to the size of its buffer.                                 *)
(*                                                                         *)
(* One process with several threads.  What a call answers is left out;     *)
(* whose call it was, and of which type, is kept.                          *)
(***************************************************************************)
EXTENDS Naturals, Sequences, FiniteSets

CONSTANTS
    App,      \* threads of the application
    Conns,    \* connections, one per socket() of the application
    NoConn

ASSUME IpcConstants ==
    IsFiniteSet(App) /\ App # {} /\ IsFiniteSet(Conns) /\ NoConn \notin Conns

VARIABLES
    lib,          \* hfip_socks: the library's entry for each connection
    call,         \* of each thread: the call it is in
    up, down,     \* the two directions of each connection
    srv,          \* of each connection: the thread of the stack that serves it
    listed,       \* the list of ipc.c
    stack,        \* the socket of the stack behind each connection
    data,         \* what the peer of that socket has for read()
    crashed,      \* the process of the application has died
    overlapped,   \* connections that two threads have used at the same time
    torn,         \* connections where the tail of a long write came in pieces
    mixed,        \* connections where a call lost its request or its answer
    zeroed        \* connections where TCP was given bytes nobody wrote

vars == << lib, call, up, down, srv, listed, stack, data, crashed,
           overlapped, torn, mixed, zeroed >>

client == << lib, call >>
server == << srv, listed, stack >>
history == << overlapped, torn, mixed, zeroed >>

----------------------------------------------------------------------------
(* Messages and answers *)

\* The type of a message for a call: "socket", "write", "read", "close", "query"
\* for connect(), fcntl(), getsockopt(), getpeername() and getsockname(), which
\* send a message and wait for its answer, "poll" for a poll() with a timeout and
\* "pollwait" for one without (-1). A read() of the kernel's descriptor 0,
\* "stdin", sends a "read"; a poll() without a timeout for descriptors of the
\* kernel as well, "pollboth", a "poll" of 100 ms, again and again.
IpcType(type) ==
    CASE type = "stdin" -> "read"
      [] type = "pollboth" -> "poll"
      [] OTHER -> type

Idle == [pc |-> "idle", type |-> "query", conn |-> NoConn, rest |-> << >>]

\* A write longer than the buffer of the stack's thread is a head that fills
\* the buffer and a tail; the tail is two items, which may arrive one by one.
Message(type, a, long) ==
    LET item(p) == [type |-> type, from |-> a, part |-> p]
    IN  IF long THEN << item("head"), item("tail"), item("tail") >>
        ELSE << item("whole") >>

NoThread == [pc |-> "none", msg |-> << >>]

Init ==
    /\ lib = [c \in Conns |-> "none"]
    /\ call = [a \in App |-> Idle]
    /\ up = [c \in Conns |-> << >>] /\ down = [c \in Conns |-> << >>]
    /\ srv = [c \in Conns |-> NoThread]
    /\ listed = {}
    /\ stack = [c \in Conns |-> "none"] /\ data = [c \in Conns |-> "none"]
    /\ crashed = FALSE
    /\ overlapped = {} /\ torn = {} /\ mixed = {} /\ zeroed = {}

Drop(s, k) == SubSeq(s, k + 1, Len(s))

----------------------------------------------------------------------------
(* The library *)

\* The threads in a call on c.
Using(c) == {a \in App : call[a].conn = c}

\* An entry that socket() freed without taking it off the list is read by
\* every later call: nothing is said of the program from there on.
Defined == ~ \E c \in Conns : lib[c] = "freed"

Begin(a, type, c, long) ==
    /\ call[a].pc = "idle" /\ ~crashed /\ Defined
    /\ call' = [call EXCEPT ![a] = [pc |-> "send", type |-> type, conn |-> c,
                                    rest |-> Message(IpcType(type), a, long)]]
    /\ overlapped' = IF Using(c) = {} THEN overlapped ELSE overlapped \cup {c}
    /\ UNCHANGED << up, down, server, data, crashed, torn, mixed, zeroed >>

\* socket(): the entry is in the list, with 0 for its number, before the stack
\* has answered.
socket(a, c) ==
    /\ lib[c] = "none"
    /\ Begin(a, "socket", c, FALSE)
    /\ lib' = [lib EXCEPT ![c] = "new"]

\* A call finds the entry of its number. A program does not use a number it
\* has closed.
Request(a, type, c, long) == lib[c] = "open" /\ Begin(a, type, c, long) /\ UNCHANGED lib

close(a, c) == Request(a, "close", c, FALSE)
write(a, c) == \E long \in BOOLEAN : Request(a, "write", c, long)
read(a, c) == Request(a, "read", c, FALSE)

\* connect(), getsockopt(), getpeername(), getsockname() and fcntl().
query(a, c) == Request(a, "query", c, FALSE)

\* poll() for something to read: with a timeout, or without one and then for this
\* socket alone or for descriptors of the kernel too.
poll(a, c) == \E type \in {"poll", "pollwait", "pollboth"} : Request(a, type, c, FALSE)

\* A read() of the kernel's descriptor 0 finds the entry of a socket() that
\* another thread is in.
ReadStdin(a, c) == lib[c] = "new" /\ Begin(a, "stdin", c, FALSE) /\ UNCHANGED lib

\* The kernel copies a message into the connection in one or more pieces.
Send(a) ==
    LET c == call[a].conn
        rest == call[a].rest
    IN  /\ call[a].pc = "send"
        /\ \E k \in 1 .. Len(rest) :
              /\ up' = [up EXCEPT ![c] = @ \o SubSeq(rest, 1, k)]
              /\ call' = [call EXCEPT ![a].rest = Drop(rest, k),
                                      ![a].pc = IF k = Len(rest) THEN "wait" ELSE @]
              /\ torn' = IF Len(rest) - k = 1 THEN torn \cup {c} ELSE torn
        /\ UNCHANGED << lib, down, server, data, crashed, overlapped, mixed, zeroed >>

\* What a call leaves behind when it returns, successfully or not.
Returned(l, type, ok) ==
    CASE type = "socket" -> IF ok THEN "open" ELSE "freed"
      [] type = "close" -> "closed"
      [] OTHER -> l

\* poll() gives up before the stack has answered.
ReceiveOrGiveUp(a) ==
    /\ call[a].pc = "wait" /\ lib[call[a].conn] # "closed"
    /\ LET c == call[a].conn
       IN  \/ /\ call[a].type = "poll"
              /\ UNCHANGED << lib, down, mixed >>
           \/ /\ down[c] # << >>
              /\ down' = [down EXCEPT ![c] = Tail(@)]
              /\ mixed' = IF /\ Head(down[c]).from = a
                             /\ Head(down[c]).type = IpcType(call[a].type)
                          THEN mixed ELSE mixed \cup {c}
              /\ lib' = [lib EXCEPT ![c] = Returned(@, call[a].type, Head(down[c]).ok)]
    /\ call' = [call EXCEPT ![a] = Idle]
    /\ UNCHANGED << up, server, data, crashed, overlapped, torn, zeroed >>

\* transmit_hfip and its likes: one read() takes an answer, or several, and
\* looks at the type of the first.
Receive(a) ==
    LET c == call[a].conn
        r == Head(down[c])
    IN  /\ call[a].pc = "wait" /\ lib[c] # "closed" /\ down[c] # << >>
        /\ \E k \in 1 .. Len(down[c]) :
              /\ down' = [down EXCEPT ![c] = Drop(@, k)]
              /\ mixed' = IF r.from = a /\ r.type = IpcType(call[a].type) /\ k = 1
                          THEN mixed ELSE mixed \cup {c}
        /\ lib' = [lib EXCEPT ![c] =
                      Returned(@, call[a].type, r.ok /\ r.type = IpcType(call[a].type))]
        /\ call' = [call EXCEPT ![a] = Idle]
        /\ UNCHANGED << up, server, data, crashed, overlapped, torn, zeroed >>

\* The loop of poll(): no socket has an event, nor has a descriptor of the kernel,
\* and the stack is asked again.
PollAgain(a) ==
    LET c == call[a].conn
        r == Head(down[c])
    IN  /\ call[a].pc = "wait" /\ call[a].type = "pollboth"
        /\ lib[c] # "closed" /\ down[c] # << >> /\ r.type = "poll" /\ ~r.ok
        /\ \E k \in 1 .. Len(down[c]) :
              /\ down' = [down EXCEPT ![c] = Drop(@, k)]
              /\ mixed' = IF r.from = a /\ k = 1 THEN mixed ELSE mixed \cup {c}
        /\ call' = [call EXCEPT ![a].pc = "send", ![a].rest = Message("poll", a, FALSE)]
        /\ UNCHANGED << lib, up, server, data, crashed, overlapped, torn, zeroed >>

\* The connection was closed under the call by another thread.
ReceiveClosed(a) ==
    /\ call[a].pc \in {"send", "wait"} /\ lib[call[a].conn] = "closed"
    /\ call' = [call EXCEPT ![a] = Idle]
    /\ mixed' = mixed \cup {call[a].conn}
    /\ UNCHANGED << lib, up, down, server, data, crashed, overlapped, torn, zeroed >>

\* The process dies, whatever its threads are doing.
Crash ==
    /\ ~crashed
    /\ crashed' = TRUE
    /\ call' = [a \in App |-> Idle]
    /\ UNCHANGED << lib, up, down, server, data, history >>

\* No more bytes will come up the connection.
Ended(c) == crashed \/ lib[c] = "closed"

----------------------------------------------------------------------------
(* The stack *)

\* start_ipc_listener and ipc_alloc_thread.
Accept(c) ==
    /\ lib[c] # "none" /\ srv[c].pc = "none"
    /\ srv' = [srv EXCEPT ![c].pc = "read"]
    /\ listed' = listed \cup {c}
    /\ UNCHANGED << client, up, down, stack, data, crashed, history >>

\* socket_ipc_open: one read() takes a message and whatever came with it. A
\* head fills the buffer; a tail that was left over is no message.
ReadMessage(c) ==
    LET m == Head(up[c])
    IN  /\ srv[c].pc = "read" /\ up[c] # << >>
        /\ \E k \in 1 .. IF m.part = "head" THEN 1 ELSE Len(up[c]) :
              /\ up' = [up EXCEPT ![c] = Drop(@, k)]
              /\ mixed' = IF k > 1 \/ m.part = "tail" THEN mixed \cup {c} ELSE mixed
        /\ srv' = [srv EXCEPT ![c] =
                      CASE m.part = "whole" -> [pc |-> "run", msg |-> << m >>]
                        [] m.part = "head" -> [pc |-> "tail", msg |-> << m >>]
                        [] m.part = "tail" -> @]
        /\ UNCHANGED << client, down, listed, stack, data, crashed,
                        overlapped, torn, zeroed >>

\* The size of the message's header is subtracted twice.
TailLengthShort(n) == IF n > 1 THEN 1 ELSE n

\* How much of the n items that have come the read of the tail takes.
TailLength(n) == IF n > 2 THEN 2 ELSE n

\* ipc_write reads the tail, once: the write is made with what it got, whatever
\* that was, and with zeros for the rest.
ReadTail(c) ==
    /\ srv[c].pc = "tail"
    /\ up[c] # << >> \/ Ended(c)
    /\ LET k == TailLength(Len(up[c]))
           own(i) == up[c][i].part = "tail" /\ up[c][i].from = srv[c].msg[1].from
       IN  /\ up' = [up EXCEPT ![c] = Drop(@, k)]
           /\ zeroed' = IF k = 2 /\ own(1) /\ own(2) THEN zeroed ELSE zeroed \cup {c}
           /\ mixed' = IF \A i \in 1 .. k : own(i) THEN mixed ELSE mixed \cup {c}
    /\ srv' = [srv EXCEPT ![c].pc = "run"]
    /\ UNCHANGED << client, down, listed, stack, data, crashed, overlapped, torn >>

\* The read of the tail fails when the process died with answers unread: the
\* thread closes the connection and ends, and stays in the list.
ReadTailFails(c) ==
    /\ srv[c].pc = "tail" /\ crashed /\ up[c] = << >> /\ down[c] # << >>
    /\ srv' = [srv EXCEPT ![c] = [pc |-> "ended", msg |-> << >>]]
    /\ UNCHANGED << client, up, down, listed, stack, data, crashed, history >>

\* A call that failed, or a poll() that found nothing, is not answered.
AnswerIfOk(c, r) == IF Ended(c) \/ ~r.ok THEN down[c] ELSE Append(down[c], r)

\* ipc_write_rc and its likes: what cannot be sent is dropped.
Answer(c, r) == IF Ended(c) THEN down[c] ELSE Append(down[c], r)

\* demux_ipc_socket_call: the thread has a message of this type to handle.
\* When it is answered the thread reads on: socket_ipc_open ends a thread whose
\* handler returned -1, and no handler but ipc_write does.
Handles(c, type) == srv[c].pc = "run" /\ srv[c].msg[1].type = type

Answered(c, ok) ==
    /\ down' = [down EXCEPT ![c] = Answer(c, [type |-> srv[c].msg[1].type,
                                             from |-> srv[c].msg[1].from, ok |-> ok])]
    /\ srv' = [srv EXCEPT ![c] = [pc |-> "read", msg |-> << >>]]
    /\ UNCHANGED << client, up, listed, crashed, history >>

ipc_socket(c) ==
    /\ Handles(c, "socket")
    /\ \E ok \in BOOLEAN :
          /\ stack' = [stack EXCEPT ![c] = IF ok THEN "live" ELSE @]
          /\ Answered(c, ok)
    /\ UNCHANGED data

\* IPC_CLOSE is answered and nothing is closed.
AnswerClose(c) ==
    /\ Handles(c, "close") /\ Answered(c, TRUE) /\ UNCHANGED << stack, data >>

ipc_close(c) ==
    /\ Handles(c, "close")
    /\ stack' = [stack EXCEPT ![c] = IF @ = "live" THEN "closed" ELSE @]
    /\ Answered(c, TRUE) /\ UNCHANGED data

\* _write, once the message is complete. The peer will have something to say.
ipc_write(c) ==
    /\ Handles(c, "write")
    /\ data' = [data EXCEPT ![c] = IF stack[c] = "live" /\ @ = "none" THEN "asked" ELSE @]
    /\ Answered(c, TRUE) /\ UNCHANGED stack

\* What _poll finds of the socket behind c: something to read, or no socket.
HasEvent(c) == stack[c] = "live" => data[c] = "ready"

\* _read waits for the peer, and so does _poll without a timeout: neither looks
\* at the connection to the client meanwhile.
Blocks(c) == (Handles(c, "read") \/ Handles(c, "pollwait")) /\ ~HasEvent(c)

ipc_read(c) ==
    /\ Handles(c, "read") /\ ~Blocks(c)
    /\ data' = [data EXCEPT ![c] = IF @ = "ready" THEN "none" ELSE @]
    /\ Answered(c, TRUE) /\ UNCHANGED stack

\* With a timeout the loop of _poll ends, with an event or without.
ipc_poll(c) ==
    /\ Handles(c, "poll") \/ (Handles(c, "pollwait") /\ ~Blocks(c))
    /\ Answered(c, HasEvent(c)) /\ UNCHANGED << stack, data >>

\* ipc_connect, ipc_fcntl, ipc_getsockopt, ipc_getpeername, ipc_getsockname.
ipc_query(c) ==
    /\ Handles(c, "query") /\ Answered(c, TRUE) /\ UNCHANGED << stack, data >>

\* The thread ends without ipc_free_thread.
EofListed(c) ==
    /\ srv[c].pc = "read" /\ up[c] = << >> /\ Ended(c)
    /\ srv' = [srv EXCEPT ![c] = [pc |-> "ended", msg |-> << >>]]
    /\ UNCHANGED << client, up, down, listed, stack, data, crashed, history >>

\* The end of the connection: ipc_free_thread.
Eof(c) ==
    /\ srv[c].pc = "read" /\ up[c] = << >> /\ Ended(c)
    /\ srv' = [srv EXCEPT ![c] = [pc |-> "ended", msg |-> << >>]]
    /\ listed' = listed \ {c}
    /\ UNCHANGED << client, up, down, stack, data, crashed, history >>

\* The peer answers what was written to it.
PeerAnswers(c) ==
    /\ data[c] = "asked"
    /\ data' = [data EXCEPT ![c] = "ready"]
    /\ UNCHANGED << client, up, down, server, crashed, history >>

----------------------------------------------------------------------------

Server(c) ==
    \/ ReadMessage(c) \/ ReadTail(c) \/ ReadTailFails(c) \/ Eof(c)
    \/ ipc_socket(c) \/ ipc_close(c) \/ ipc_write(c) \/ ipc_read(c)
    \/ ipc_poll(c) \/ ipc_query(c)

Next ==
    \/ \E a \in App, c \in Conns :
          \/ socket(a, c) \/ close(a, c) \/ write(a, c) \/ read(a, c)
          \/ query(a, c) \/ poll(a, c) \/ ReadStdin(a, c)
    \/ \E a \in App : Send(a) \/ Receive(a) \/ PollAgain(a) \/ ReceiveClosed(a)
    \/ \E c \in Conns : Accept(c) \/ Server(c) \/ PeerAnswers(c)
    \/ Crash

Spec == Init /\ [][Next]_vars

\* Threads that can go on do so: those of the application in a call, the
\* listener, and the thread of each connection. The peer answers.
Fairness ==
    /\ \A a \in App : WF_vars(Send(a) \/ Receive(a) \/ PollAgain(a) \/ ReceiveClosed(a))
    /\ \A c \in Conns :
          WF_vars(Accept(c)) /\ WF_vars(Server(c)) /\ WF_vars(PeerAnswers(c))

FairSpec == Spec /\ Fairness

----------------------------------------------------------------------------
(* Properties *)

Disturbed == overlapped \cup torn

\* Every request is read by the stack and every answer by the call it belongs
\* to, although neither side marks the ends of messages or numbers them, on
\* every connection that only one thread at a time uses and whose long writes
\* arrive whole.
OwnAnswer == mixed \subseteq Disturbed

\* TCP is given only bytes that the application wrote, on those connections
\* and while the application lives.
WrittenWhole == zeroed \subseteq Disturbed \/ crashed

\* When the thread of a connection has ended, its socket was closed: none is
\* left without an owner, except by a crash or by overlapping calls.
NoOrphan ==
    \A c \in Conns :
        srv[c].pc = "ended" /\ stack[c] = "live" => crashed \/ c \in Disturbed

\* A call returns, on those connections, unless it is a read(), or a poll()
\* without a timeout, for which the peer will have nothing: what the peer was
\* asked for comes, and then neither goes on waiting.
CallsReturn ==
    \A a \in App, c \in Conns :
        call[a].conn = c ~>
            \/ call[a].conn # c \/ c \in Disturbed
            \/ call[a].type \in {"read", "pollwait", "pollboth"} /\ data[c] = "none"

\* Once the application has closed a connection or died, the thread of the
\* connection ends and leaves the list, or its last read() failed. The only
\* threads that stay are in a read(), or a poll() without a timeout, for which the
\* peer will have nothing: they do not see that their client is gone.
ThreadsEnd ==
    \A c \in Conns :
        (srv[c].pc # "none" /\ Ended(c)) ~>
            \/ srv[c].pc = "ended" /\ (c \notin listed \/ down[c] # << >>)
            \/ Blocks(c) /\ data[c] = "none"

=============================================================================
