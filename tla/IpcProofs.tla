----------------------------- MODULE IpcProofs -----------------------------
(***************************************************************************)
(* Module Ipc for any number of threads and connections: on a connection   *)
(* that one thread at a time uses and whose long writes arrive whole, every *)
(* request is read as it was sent and every answer by the call it is for,  *)
(* TCP gets the bytes that were written, and no socket is left behind.     *)
(***************************************************************************)
EXTENDS Ipc, TLAPS, SequenceTheorems

----------------------------------------------------------------------------
(* The inductive invariant *)

Types == {"socket", "write", "read", "close", "poll", "pollwait", "query"}
CallTypes == Types \cup {"stdin", "pollboth"}
Item == [type : Types, from : App, part : {"whole", "head", "tail"}]
Calls == [pc : {"idle", "send", "wait"}, type : CallTypes,
          conn : Conns \cup {NoConn}, rest : Seq(Item)]
Servers == [pc : {"none", "read", "tail", "run", "ended"}, msg : Seq(Item)]

Entries == {"none", "new", "open", "closed", "freed"}

\* Of the answers and the sockets of the stack nothing but the domain is needed.
IpcTypes ==
    /\ DOMAIN down = Conns /\ DOMAIN stack = Conns
    /\ lib \in [Conns -> Entries]
    /\ call \in [App -> Calls]
    /\ up \in [Conns -> Seq(Item)]
    /\ srv \in [Conns -> Servers]
    /\ \A a \in App : call[a].pc = "idle" <=> call[a].conn = NoConn
    /\ crashed => \A a \in App : call[a].conn = NoConn

Piece(t, a, p) == [type |-> t, from |-> a, part |-> p]

\* The thread of the stack has nothing to do for now.
Quiet(s, u) == s.pc \in {"none", "read", "ended"} /\ u = << >>

\* A request of type t of thread a is on its way to the stack, or its thread
\* s has it: u is in the connection and left is still to be sent.
OnWay(s, u, t, a, left) ==
    LET whole == << Piece(t, a, "whole") >>
        head == << Piece(t, a, "head") >>
        tail == << Piece(t, a, "tail"), Piece(t, a, "tail") >>
    IN  \/ /\ s.pc \in {"none", "read"}
           /\ \/ u = whole /\ left = << >>
              \/ u = head /\ left = tail
              \/ u = head \o tail /\ left = << >>
        \/ /\ s.pc = "tail" /\ s.msg = head
           /\ \/ u = << >> /\ left = tail
              \/ u = tail /\ left = << >>
        \/ /\ s.pc = "run" /\ s.msg \in {whole, head}
           /\ u = << >> /\ left = << >>

\* Where the call k of thread a is on a connection with these two directions,
\* the thread s and the socket z of the stack.
CallOk(a, k, s, u, d, z) ==
    LET t == IpcType(k.type)
    IN  \/ /\ k.pc = "send" /\ d = << >> /\ Quiet(s, u)
           /\ k.rest \in {Message(t, a, FALSE), Message(t, a, TRUE)}
        \/ k.pc = "send" /\ d = << >> /\ k.rest # << >> /\ OnWay(s, u, t, a, k.rest)
        \/ k.pc = "wait" /\ d = << >> /\ OnWay(s, u, t, a, << >>)
        \/ /\ k.pc = "wait" /\ Quiet(s, u)
           /\ Len(d) = 1 /\ d = << d[1] >> /\ d[1].from = a /\ d[1].type = t
           /\ t = "close" => z # "live"

\* One call at a time, and nothing under way without it.
ConnOk(c) ==
    /\ \A a, b \in Using(c) : a = b
    /\ c \notin mixed /\ (c \in zeroed => crashed)
    /\ srv[c].pc = "ended" => Ended(c)
    /\ lib[c] = "closed" => Using(c) = {} /\ (crashed \/ stack[c] # "live")
    /\ crashed =>
          \/ Quiet(srv[c], up[c])
          \/ \E t \in Types, a \in App, left \in Seq(Item) :
                OnWay(srv[c], up[c], t, a, left)
    /\ ~crashed /\ Using(c) = {} => Quiet(srv[c], up[c]) /\ down[c] = << >>
    /\ \A a \in Using(c) : CallOk(a, call[a], srv[c], up[c], down[c], stack[c])

IpcInv == IpcTypes /\ \A c \in Conns \ Disturbed : ConnOk(c)

----------------------------------------------------------------------------
(* Messages *)

\* What is left of a sequence after its first k elements.
LEMMA DropType ==
    ASSUME NEW S, NEW s \in Seq(S), NEW k \in Nat
    PROVE  Drop(s, k) \in Seq(S)
<1>1. CASE k >= Len(s)
  <2>1. SubSeq(s, k + 1, Len(s)) = << >>
    BY <1>1
  <2> QED
    BY <2>1 DEF Drop
<1>2. CASE k < Len(s)
  BY <1>2 DEF Drop
<1> QED
  BY <1>1, <1>2

\* The items of a message.
LEMMA PieceType ==
    ASSUME NEW t \in Types, NEW a \in App, NEW p \in {"whole", "head", "tail"}
    PROVE  /\ Piece(t, a, p) \in Item /\ Piece(t, a, p).part = p
           /\ Piece(t, a, p).type = t /\ Piece(t, a, p).from = a
  BY DEF Piece, Item

\* A message is one item, or a head and a tail of two.
LEMMA Messages ==
    ASSUME NEW t \in Types, NEW a \in App
    PROVE  /\ Message(t, a, FALSE) = << Piece(t, a, "whole") >>
           /\ Message(t, a, TRUE) = << Piece(t, a, "head"), Piece(t, a, "tail"), Piece(t, a, "tail") >>
           /\ \A long \in BOOLEAN : Message(t, a, long) \in Seq(Item) /\ Message(t, a, long) # << >>
<1>1. /\ Message(t, a, FALSE) = << Piece(t, a, "whole") >>
      /\ Message(t, a, TRUE) = << Piece(t, a, "head"), Piece(t, a, "tail"), Piece(t, a, "tail") >>
  BY DEF Message, Piece
<1> DEFINE w == Piece(t, a, "whole")
           h == Piece(t, a, "head")
           e == Piece(t, a, "tail")
<1>2. w \in Item /\ h \in Item /\ e \in Item
  BY PieceType
<1> HIDE DEF w, h, e
<1>3. /\ << w >> \in Seq(Item) /\ << h, e, e >> \in Seq(Item)
      /\ << w >> # << >> /\ << h, e, e >> # << >>
  BY <1>2
<1> QED
  BY <1>1, <1>3 DEF w, h, e

\* The types of calls and their messages.
LEMMA MessageTypes ==
    /\ \A t \in CallTypes : IpcType(t) \in Types
    /\ IpcType("close") = "close"
    /\ \A t \in CallTypes : IpcType(t) = "close" => t = "close"
    /\ IpcType("pollboth") = "poll" /\ "poll" \in Types /\ "poll" # "close"
    /\ Idle \in Calls /\ Idle.pc = "idle" /\ Idle.conn = NoConn
    /\ NoConn \notin Conns
  BY IpcConstants DEF CallTypes, Types, IpcType, Idle, Calls

----------------------------------------------------------------------------
(* Types *)

\* A call begins.
LEMMA BeginTypes ==
    ASSUME IpcTypes, NEW a \in App, NEW c \in Conns, NEW t \in CallTypes,
           NEW long \in BOOLEAN, Begin(a, t, c, long)
    PROVE  /\ call' \in [App -> Calls]
           /\ \A b \in App : call'[b].pc = "idle" <=> call'[b].conn = NoConn
           /\ ~crashed' /\ UNCHANGED << up, down, srv, stack >>
           /\ call'[a] = [pc |-> "send", type |-> t, conn |-> c,
                          rest |-> Message(IpcType(t), a, long)]
           /\ call'[a].conn = c
           /\ \A b \in App \ {a} : call'[b] = call[b]
<1> DEFINE r == Message(IpcType(t), a, long)
           k == [pc |-> "send", type |-> t, conn |-> c, rest |-> r]
<1>1. r \in Seq(Item)
  BY MessageTypes, Messages
<1>2. call' = [call EXCEPT ![a] = k] /\ ~crashed' /\ UNCHANGED << up, down, srv, stack >>
  BY DEF Begin, server
<1> HIDE DEF r
<1>3. k \in Calls /\ k.pc = "send" /\ k.conn = c
  BY <1>1 DEF Calls
<1> HIDE DEF k
<1>4. call' \in [App -> Calls] /\ call'[a] = k /\ \A b \in App \ {a} : call'[b] = call[b]
  BY <1>2, <1>3 DEF IpcTypes
<1>5. \A b \in App : call'[b].pc = "idle" <=> call'[b].conn = NoConn
  BY <1>3, <1>4, MessageTypes DEF IpcTypes
<1> QED
  BY <1>2, <1>3, <1>4, <1>5 DEF k, r

\* A call that has returned.
LEMMA IdleTypes ==
    ASSUME IpcTypes, NEW a \in App, call' = [call EXCEPT ![a] = Idle]
    PROVE  /\ call' \in [App -> Calls]
           /\ \A b \in App : call'[b].pc = "idle" <=> call'[b].conn = NoConn
           /\ crashed => \A b \in App : call'[b].conn = NoConn
           /\ call'[a].conn = NoConn
           /\ \A b \in App \ {a} : call'[b] = call[b]
  BY MessageTypes DEF IpcTypes

\* A piece of a message is sent.
LEMMA SendTypes ==
    ASSUME IpcTypes, NEW a \in App, Send(a)
    PROVE  /\ IpcTypes' /\ call[a].conn \in Conns
           /\ \A b \in App : call'[b].conn = call[b].conn
           /\ \A b \in App \ {a} : call'[b] = call[b]
           /\ UNCHANGED << lib, down, srv, stack, crashed, overlapped, mixed, zeroed >>
           /\ \A d \in Conns \ {call[a].conn} : up'[d] = up[d]
           /\ \E k \in 1 .. Len(call[a].rest) :
                 /\ up'[call[a].conn] = up[call[a].conn] \o SubSeq(call[a].rest, 1, k)
                 /\ call'[a].rest = Drop(call[a].rest, k)
                 /\ call'[a].pc = IF k = Len(call[a].rest) THEN "wait" ELSE "send"
                 /\ call'[a].type = call[a].type
                 /\ torn' = IF Len(call[a].rest) - k = 1 THEN torn \cup {call[a].conn} ELSE torn
<1> DEFINE c == call[a].conn
           rest == call[a].rest
<1>1. /\ call[a] \in Calls /\ rest \in Seq(Item) /\ c \in Conns /\ call[a].pc = "send"
      /\ up \in [Conns -> Seq(Item)]
  <2>1. call[a] \in Calls /\ call[a].pc = "send" /\ call[a].conn # NoConn
    BY DEF IpcTypes, Send
  <2> QED
    BY <2>1 DEF Calls, IpcTypes
<1>2. PICK k \in 1 .. Len(rest) :
         /\ up' = [up EXCEPT ![c] = @ \o SubSeq(rest, 1, k)]
         /\ call' = [call EXCEPT ![a].rest = Drop(rest, k),
                                 ![a].pc = IF k = Len(rest) THEN "wait" ELSE @]
         /\ torn' = IF Len(rest) - k = 1 THEN torn \cup {c} ELSE torn
  BY DEF Send
<1>3. UNCHANGED << lib, down, srv, stack, crashed, overlapped, mixed, zeroed >>
  BY DEF Send, server
<1> DEFINE x == up[c] \o SubSeq(rest, 1, k)
           y == Drop(rest, k)
           z == IF k = Len(rest) THEN "wait" ELSE "send"
           n == [call[a] EXCEPT !.rest = y, !.pc = z]
<1>4. x \in Seq(Item) /\ y \in Seq(Item) /\ z \in {"send", "wait"}
  <2>1. k \in Nat /\ SubSeq(rest, 1, k) \in Seq(Item)
    BY <1>1
  <2>2. y \in Seq(Item)
    BY <1>1, <2>1, DropType
  <2> QED
    BY <1>1, <2>1, <2>2
<1>5. up' = [up EXCEPT ![c] = x] /\ call' = [call EXCEPT ![a] = n]
  <2>1. call' = [call EXCEPT ![a] = [call[a] EXCEPT !.rest = y, !.pc = IF k = Len(rest) THEN "wait" ELSE @]]
    BY <1>2
  <2>2. [call[a] EXCEPT !.rest = y, !.pc = IF k = Len(rest) THEN "wait" ELSE @] = n
    BY <1>1 DEF Calls
  <2> QED
    BY <1>2, <2>1, <2>2
<1> HIDE DEF x, y, z
<1>6. n \in Calls /\ n.conn = c /\ n.rest = y /\ n.pc = z /\ n.type = call[a].type
  BY <1>1, <1>4 DEF Calls
<1> HIDE DEF n
<1>7. /\ up' \in [Conns -> Seq(Item)] /\ up'[c] = x /\ \A d \in Conns \ {c} : up'[d] = up[d]
      /\ call' \in [App -> Calls] /\ call'[a] = n /\ \A b \in App \ {a} : call'[b] = call[b]
  BY <1>1, <1>4, <1>5, <1>6 DEF IpcTypes
<1>8. \A b \in App : call'[b].conn = call[b].conn
  BY <1>6, <1>7
<1>9. IpcTypes'
  <2>1. \A b \in App : call'[b].pc = "idle" <=> call'[b].conn = NoConn
    <3>1. call'[a].pc # "idle" /\ call'[a].conn # NoConn
      BY <1>1, <1>4, <1>6, <1>7, MessageTypes
    <3> QED
      BY <1>7, <3>1 DEF IpcTypes
  <2> QED
    BY <1>3, <1>7, <1>8, <2>1 DEF IpcTypes
<1> QED
  BY <1>1, <1>2, <1>3, <1>6, <1>7, <1>8, <1>9 DEF x, y, z

\* A step of the stack's thread of connection c.
LEMMA ServerTypes ==
    ASSUME IpcTypes, NEW c \in Conns, NEW s \in Servers, NEW u \in Seq(Item),
           srv' = [srv EXCEPT ![c] = s], up' = [up EXCEPT ![c] = u],
           DOMAIN down' = Conns, DOMAIN stack' = Conns,
           UNCHANGED << lib, call, crashed >>
    PROVE  /\ IpcTypes' /\ srv'[c] = s /\ up'[c] = u
           /\ \A d \in Conns \ {c} : srv'[d] = srv[d] /\ up'[d] = up[d]
  BY DEF IpcTypes

----------------------------------------------------------------------------
(* One connection at a time *)

\* A step that is about connection c leaves the others as they are.
LEMMA OtherConns ==
    ASSUME IpcInv, NEW c \in Conns, IpcTypes', crashed' = crashed,
           \A d \in Conns \ {c} :
              /\ lib'[d] = lib[d] /\ srv'[d] = srv[d] /\ up'[d] = up[d]
              /\ down'[d] = down[d] /\ stack'[d] = stack[d]
              /\ d \in Disturbed => d \in Disturbed'
              /\ d \in mixed' => d \in mixed
              /\ d \in zeroed' => d \in zeroed,
           \A a \in App : \/ call'[a] = call[a]
                          \/ call[a].conn \in {c, NoConn} /\ call'[a].conn \in {c, NoConn},
           c \notin Disturbed' => ConnOk(c)'
    PROVE  IpcInv'
<1> SUFFICES ASSUME NEW d \in Conns \ Disturbed', d # c PROVE ConnOk(d)'
  BY DEF IpcInv
<1>1. ConnOk(d) /\ d # NoConn
  BY MessageTypes DEF IpcInv
<1>2. /\ lib'[d] = lib[d] /\ srv'[d] = srv[d] /\ up'[d] = up[d]
      /\ down'[d] = down[d] /\ stack'[d] = stack[d]
      /\ (d \in mixed' => d \in mixed) /\ (d \in zeroed' => d \in zeroed)
  OBVIOUS
<1>3. \A a \in App : call'[a].conn = d => call'[a] = call[a]
  BY <1>1
<1>4. Using(d)' = Using(d) /\ \A a \in Using(d) : call'[a] = call[a]
  <2>1. \A a \in App : call'[a].conn = d <=> call[a].conn = d
    BY <1>1, <1>3
  <2> QED
    BY <1>3, <2>1 DEF Using
<1>5. Ended(d)' <=> Ended(d)
  BY <1>2 DEF Ended
<1> QED
  BY <1>1, <1>2, <1>4, <1>5 DEF ConnOk

\* When the stack's thread of a connection has something to do, it is the
\* request of the only call, or of a process that has died.
LEMMA BusyConn ==
    ASSUME IpcInv, NEW c \in Conns \ Disturbed, ~Quiet(srv[c], up[c])
    PROVE  \E t \in Types, a \in App, left \in Seq(Item) :
              /\ OnWay(srv[c], up[c], t, a, left)
              /\ ~crashed => /\ Using(c) = {a} /\ lib[c] # "closed" /\ down[c] = << >>
                             /\ IpcType(call[a].type) = t
                             /\ \/ call[a].pc = "wait" /\ left = << >>
                                \/ call[a].pc = "send" /\ left = call[a].rest /\ left # << >>
<1>1. ConnOk(c)
  BY DEF IpcInv
<1>2. CASE crashed
  BY <1>1, <1>2 DEF ConnOk
<1>3. CASE ~crashed
  <2>1. Using(c) # {} /\ lib[c] # "closed"
    BY <1>1, <1>3 DEF ConnOk
  <2>2. PICK a : a \in Using(c)
    BY <2>1
  <2>3. a \in App /\ Using(c) = {a} /\ CallOk(a, call[a], srv[c], up[c], down[c], stack[c])
    BY <1>1, <2>2 DEF ConnOk, Using
  <2>4. call[a] \in Calls
    BY <2>3 DEF IpcInv, IpcTypes
  <2>5. IpcType(call[a].type) \in Types /\ call[a].rest \in Seq(Item) /\ << >> \in Seq(Item)
    BY <2>4, MessageTypes DEF Calls
  <2> DEFINE t == IpcType(call[a].type)
  <2>6. CASE call[a].pc = "send" /\ down[c] = << >> /\ call[a].rest # << >> /\ OnWay(srv[c], up[c], t, a, call[a].rest)
    BY <2>1, <2>3, <2>5, <2>6
  <2>7. CASE call[a].pc = "wait" /\ down[c] = << >> /\ OnWay(srv[c], up[c], t, a, << >>)
    BY <2>1, <2>3, <2>5, <2>7
  <2> QED
    BY <2>3, <2>6, <2>7 DEF CallOk
<1> QED
  BY <1>2, <1>3

\* The stack's thread goes on with such a request: further along the way, or
\* to its answer.
LEMMA BusyStep ==
    ASSUME IpcInv, NEW c \in Conns \ Disturbed, UNCHANGED << lib, call, crashed >>,
           NEW t \in Types, NEW a \in App, NEW left \in Seq(Item),
           ~crashed => /\ Using(c) = {a} /\ lib[c] # "closed" /\ down[c] = << >>
                       /\ IpcType(call[a].type) = t
                       /\ \/ call[a].pc = "wait" /\ left = << >>
                          \/ call[a].pc = "send" /\ left = call[a].rest /\ left # << >>,
           c \notin mixed', c \in zeroed' => crashed, srv'[c].pc = "ended" => Ended(c),
           \/ OnWay(srv'[c], up'[c], t, a, left) /\ down'[c] = down[c]
           \/ crashed /\ Quiet(srv'[c], up'[c])
           \/ crashed /\ OnWay(srv'[c], up'[c], t, a, << >>)
           \/ /\ ~crashed /\ Quiet(srv'[c], up'[c]) /\ left = << >>
              /\ Len(down'[c]) = 1 /\ down'[c] = << down'[c][1] >>
              /\ down'[c][1].from = a /\ down'[c][1].type = t
              /\ t = "close" => stack'[c] # "live"
    PROVE  ConnOk(c)'
<1>0. ConnOk(c) /\ << >> \in Seq(Item)
  BY DEF IpcInv
<1>1. Using(c)' = Using(c) /\ (Ended(c)' <=> Ended(c))
  BY DEF Using, Ended
<1>2. CASE crashed
  <2>1. Using(c) = {}
    BY <1>2, MessageTypes DEF Using, IpcInv, IpcTypes
  <2> QED
    BY <1>0, <1>1, <1>2, <2>1 DEF ConnOk
<1>3. CASE ~crashed
  <2>1. Using(c) = {a} /\ lib[c] # "closed" /\ IpcType(call[a].type) = t
    BY <1>3
  <2>2. CallOk(a, call[a], srv'[c], up'[c], down'[c], stack'[c])
    BY <1>3 DEF CallOk
  <2> QED
    BY <1>0, <1>1, <1>3, <2>1, <2>2 DEF ConnOk
<1> QED
  BY <1>2, <1>3

\* It stays without anything to do.
LEMMA IdleStep ==
    ASSUME IpcInv, NEW c \in Conns \ Disturbed, UNCHANGED << lib, call, crashed >>,
           Quiet(srv[c], up[c]), Quiet(srv'[c], up'[c]), srv'[c].pc = "ended" => Ended(c),
           c \notin mixed', c \in zeroed' => crashed,
           down'[c] = down[c], stack'[c] = stack[c]
    PROVE  ConnOk(c)'
<1>0. ConnOk(c)
  BY DEF IpcInv
<1>1. Using(c)' = Using(c) /\ (Ended(c)' <=> Ended(c))
  BY DEF Using, Ended
<1>2. ASSUME NEW a \in Using(c) PROVE CallOk(a, call[a], srv'[c], up'[c], down'[c], stack'[c])
  <2>1. CallOk(a, call[a], srv[c], up[c], down[c], stack[c])
    BY <1>0 DEF ConnOk
  <2>2. \A t, left : ~OnWay(srv[c], up[c], t, a, left)
    BY DEF OnWay, Quiet, Piece
  <2> QED
    BY <2>1, <2>2 DEF CallOk
<1> QED
  BY <1>0, <1>1, <1>2 DEF ConnOk

----------------------------------------------------------------------------
(* The stack's thread of a connection *)

\* A sequence as a whole.
LEMMA WholeSequence ==
    ASSUME NEW S, NEW s \in Seq(S)
    PROVE  SubSeq(s, 1, Len(s)) = s /\ Drop(s, Len(s)) = << >> /\ << >> \o s = s
<1>1. SubSeq(s, 1, Len(s)) = s
  <2>1. /\ SubSeq(s, 1, Len(s)) \in Seq(S) /\ Len(SubSeq(s, 1, Len(s))) = Len(s)
        /\ \A i \in 1 .. Len(s) : SubSeq(s, 1, Len(s))[i] = s[i]
    OBVIOUS
  <2> QED
    BY <2>1, SeqEqual
<1>2. Drop(s, Len(s)) = << >>
  BY DEF Drop
<1> QED
  BY <1>1, <1>2, ConcatEmptySeq

\* The few sequences that occur, taken apart.
LEMMA Shapes ==
    ASSUME NEW w, NEW e
    PROVE  /\ Head(<< w >>) = w /\ Len(<< w >>) = 1 /\ Drop(<< w >>, 1) = << >>
           /\ SubSeq(<< w >>, 1, 1) = << w >> /\ << >> \o << w >> = << w >>
           /\ << w >> \o << e, e >> = << w, e, e >>
           /\ Head(<< w, e, e >>) = w /\ Len(<< w, e, e >>) = 3
           /\ Drop(<< w, e, e >>, 1) = << e, e >> /\ Drop(<< w, e, e >>, 3) = << >>
           /\ SubSeq(<< w, e, e >>, 1, 1) = << w >>
           /\ SubSeq(<< w, e, e >>, 1, 3) = << w, e, e >>
           /\ << >> \o << w, e, e >> = << w, e, e >>
           /\ Len(<< e, e >>) = 2 /\ Drop(<< e, e >>, 2) = << >>
           /\ SubSeq(<< e, e >>, 1, 2) = << e, e >> /\ << >> \o << e, e >> = << e, e >>
           /\ Drop(<< >>, 0) = << >>
<1> DEFINE S == {w, e}
           x == << w >>
           y == << e, e >>
           z == << w, e, e >>
<1>1. /\ x \in Seq(S) /\ y \in Seq(S) /\ z \in Seq(S)
      /\ Len(x) = 1 /\ Len(y) = 2 /\ Len(z) = 3
      /\ x[1] = w /\ y[1] = e /\ y[2] = e /\ z[1] = w /\ z[2] = e /\ z[3] = e
      /\ Head(x) = w /\ Head(z) = w
  OBVIOUS
<1> HIDE DEF x, y, z, S
<1>2. /\ SubSeq(x, 1, 1) = x /\ SubSeq(y, 1, 2) = y /\ SubSeq(z, 1, 3) = z
      /\ Drop(x, 1) = << >> /\ Drop(y, 2) = << >> /\ Drop(z, 3) = << >>
      /\ << >> \o x = x /\ << >> \o y = y /\ << >> \o z = z
  BY <1>1, WholeSequence
<1>3. x \o y = z
  <2>0. /\ x \o y \in Seq(S) /\ Len(x \o y) = Len(x) + Len(y)
        /\ \A i \in 1 .. Len(x) + Len(y) :
              (x \o y)[i] = IF i <= Len(x) THEN x[i] ELSE y[i - Len(x)]
    BY <1>1, ConcatProperties, Zenon
  <2>1. x \o y \in Seq(S) /\ Len(x \o y) = 3
    BY <1>1, <2>0
  <2>2. (x \o y)[1] = w /\ (x \o y)[2] = e /\ (x \o y)[3] = e
    BY <1>1, <2>0
  <2>3. \A i \in 1 .. 3 : (x \o y)[i] = z[i]
    <3>1. \A i \in 1 .. 3 : i = 1 \/ i = 2 \/ i = 3
      OBVIOUS
    <3> QED
      BY <1>1, <2>2, <3>1
  <2> QED
    BY <1>1, <2>1, <2>3, SeqEqual
<1>4. SubSeq(z, 1, 1) = x
  <2>1. SubSeq(z, 1, 1) \in Seq(S) /\ Len(SubSeq(z, 1, 1)) = 1 /\ SubSeq(z, 1, 1)[1] = w
    BY <1>1
  <2>2. \A i \in 1 .. 1 : SubSeq(z, 1, 1)[i] = x[i]
    BY <1>1, <2>1
  <2> QED
    BY <1>1, <2>1, <2>2, SeqEqual
<1>5. SubSeq(z, 2, 3) = y
  <2>1. /\ SubSeq(z, 2, 3) \in Seq(S) /\ Len(SubSeq(z, 2, 3)) = 2
        /\ SubSeq(z, 2, 3)[1] = e /\ SubSeq(z, 2, 3)[2] = e
    BY <1>1
  <2>2. \A i \in 1 .. 2 : SubSeq(z, 2, 3)[i] = y[i]
    BY <1>1, <2>1
  <2> QED
    BY <1>1, <2>1, <2>2, SeqEqual
<1>6. Drop(z, 1) = y /\ Drop(<< >>, 0) = << >>
  BY <1>1, <1>5 DEF Drop
<1> QED
  BY <1>1, <1>2, <1>3, <1>4, <1>6 DEF x, y, z

\* socket_ipc_open reads a message, and nothing that does not belong to it.
LEMMA ReadMessageStep ==
    ASSUME IpcInv, NEW c \in Conns, ReadMessage(c)
    PROVE  IpcInv'
<1> DEFINE m == Head(up[c])
           s == CASE m.part = "whole" -> [pc |-> "run", msg |-> << m >>]
                  [] m.part = "head" -> [pc |-> "tail", msg |-> << m >>]
                  [] m.part = "tail" -> srv[c]
<1>1. /\ srv[c].pc = "read" /\ up[c] # << >> /\ up[c] \in Seq(Item) /\ srv[c] \in Servers
      /\ UNCHANGED << lib, call, down, stack, crashed, overlapped, torn, zeroed >>
      /\ srv' = [srv EXCEPT ![c] = s]
      /\ DOMAIN down = Conns /\ DOMAIN stack = Conns
  BY DEF ReadMessage, client, IpcInv, IpcTypes
<1>2. PICK k \in 1 .. (IF m.part = "head" THEN 1 ELSE Len(up[c])) :
         /\ up' = [up EXCEPT ![c] = Drop(@, k)]
         /\ mixed' = IF k > 1 \/ m.part = "tail" THEN mixed \cup {c} ELSE mixed
  BY DEF ReadMessage
<1> DEFINE u == Drop(up[c], k)
<1>3. m \in Item /\ k \in Nat /\ u \in Seq(Item)
  <2>1. m \in Item /\ k \in Nat
    BY <1>1
  <2> QED
    BY <1>1, <2>1, DropType
<1>4. s \in Servers
  <2>1. m.part \in {"whole", "head", "tail"} /\ << m >> \in Seq(Item)
    BY <1>3 DEF Item
  <2> HIDE DEF m
  <2> QED
    BY <1>1, <2>1 DEF Servers
<1>5. /\ IpcTypes' /\ srv'[c] = s /\ up'[c] = u
      /\ \A d \in Conns \ {c} : srv'[d] = srv[d] /\ up'[d] = up[d]
  <2>1. up' = [up EXCEPT ![c] = u]
    BY <1>2
  <2> HIDE DEF s, u
  <2> QED
    BY <1>1, <1>3, <1>4, <2>1, ServerTypes DEF IpcInv
<1>6. Disturbed' = Disturbed
  BY <1>1 DEF Disturbed
<1>7. ASSUME c \notin Disturbed PROVE ConnOk(c)'
  <2>1. ~Quiet(srv[c], up[c])
    BY <1>1 DEF Quiet
  <2>2. PICK t \in Types, a \in App, left \in Seq(Item) :
              /\ OnWay(srv[c], up[c], t, a, left)
              /\ ~crashed => /\ Using(c) = {a} /\ lib[c] # "closed" /\ down[c] = << >>
                             /\ IpcType(call[a].type) = t
                             /\ \/ call[a].pc = "wait" /\ left = << >>
                                \/ call[a].pc = "send" /\ left = call[a].rest /\ left # << >>
    BY <1>7, <2>1, BusyConn
  <2> DEFINE w == Piece(t, a, "whole")
             h == Piece(t, a, "head")
             e == Piece(t, a, "tail")
  <2>3. w.part = "whole" /\ h.part = "head" /\ e.part = "tail"
    BY PieceType
  <2>4. \/ up[c] = << w >> /\ left = << >>
        \/ up[c] = << h >> /\ left = << e, e >>
        \/ up[c] = << h >> \o << e, e >> /\ left = << >>
    BY <1>1, <2>2 DEF OnWay
  <2> HIDE DEF w, h, e
  <2>5. k = 1 /\ m.part # "tail"
    <3>1. up[c] \in {<< w >>, << h >>, << h, e, e >>}
      BY <2>4, Shapes
    <3>2. m \in {w, h} /\ (m = w => up[c] = << w >>)
      BY <2>3, <3>1, Shapes
    <3>3. m = w => Len(up[c]) = 1
      BY <3>2, Shapes
    <3> DEFINE n == IF m.part = "head" THEN 1 ELSE Len(up[c])
    <3>4. n = 1 /\ m.part # "tail"
      BY <2>3, <3>2, <3>3
    <3>5. k \in 1 .. n
      OBVIOUS
    <3> HIDE DEF n
    <3> QED
      BY <3>4, <3>5
  <2>6. OnWay(s, u, t, a, left)
    <3>1. CASE up[c] = << w >> /\ left = << >>
      <4>1. u = << >> /\ m = w /\ s.pc = "run" /\ s.msg = << w >>
        BY <2>3, <2>5, <3>1, Shapes
      <4> QED
        BY <3>1, <4>1 DEF OnWay, w
    <3>2. CASE up[c] = << h >> /\ left = << e, e >>
      <4>1. u = << >> /\ m = h /\ s.pc = "tail" /\ s.msg = << h >>
        BY <2>3, <2>5, <3>2, Shapes
      <4> QED
        BY <3>2, <4>1 DEF OnWay, h, e
    <3>3. CASE up[c] = << h >> \o << e, e >> /\ left = << >>
      <4>1. up[c] = << h, e, e >>
        BY <3>3, Shapes
      <4>2. u = << e, e >> /\ m = h
        BY <2>5, <4>1, Shapes
      <4>3. s.pc = "tail" /\ s.msg = << h >>
        BY <2>3, <4>2
      <4> QED
        BY <3>3, <4>2, <4>3 DEF OnWay, h, e
    <3> QED
      BY <2>4, <3>1, <3>2, <3>3
  <2>7. c \notin mixed' /\ (c \in zeroed' => crashed) /\ s.pc # "ended"
    <3>1. ConnOk(c)
      BY <1>7 DEF IpcInv
    <3>2. mixed' = mixed
      BY <1>2, <2>5
    <3> HIDE DEF s
    <3> QED
      BY <1>1, <2>6, <3>1, <3>2 DEF ConnOk, OnWay
  <2> HIDE DEF s, u
  <2>8. OnWay(srv'[c], up'[c], t, a, left) /\ down'[c] = down[c] /\ srv'[c].pc # "ended"
    BY <1>1, <1>5, <2>6, <2>7
  <2> QED
    BY <1>1, <1>7, <2>2, <2>7, <2>8, BusyStep
<1> QED
  BY <1>1, <1>2, <1>5, <1>6, <1>7, OtherConns

\* ipc_write reads the tail: both its items and nothing else, unless the process
\* died before it had sent them.
LEMMA ReadTailStep ==
    ASSUME IpcInv, NEW c \in Conns, ReadTail(c)
    PROVE  IpcInv'
<1> DEFINE k == TailLength(Len(up[c]))
           u == Drop(up[c], k)
           s == [srv[c] EXCEPT !.pc = "run"]
           own(i) == up[c][i].part = "tail" /\ up[c][i].from = srv[c].msg[1].from
<1>1. /\ srv[c].pc = "tail" /\ up[c] \in Seq(Item) /\ srv[c] \in Servers
      /\ up[c] # << >> \/ Ended(c)
      /\ UNCHANGED << lib, call, down, stack, crashed, overlapped, torn >>
      /\ srv' = [srv EXCEPT ![c] = s] /\ up' = [up EXCEPT ![c] = u]
      /\ zeroed' = IF k = 2 /\ own(1) /\ own(2) THEN zeroed ELSE zeroed \cup {c}
      /\ mixed' = IF \A i \in 1 .. k : own(i) THEN mixed ELSE mixed \cup {c}
      /\ DOMAIN down = Conns /\ DOMAIN stack = Conns
  BY DEF ReadTail, client, IpcInv, IpcTypes
<1>2. u \in Seq(Item)
  <2>1. k \in Nat
    BY <1>1 DEF TailLength
  <2> QED
    BY <1>1, <2>1, DropType
<1>3. s \in Servers /\ s.pc = "run" /\ s.msg = srv[c].msg
  BY <1>1 DEF Servers
<1>4. /\ IpcTypes' /\ srv'[c] = s /\ up'[c] = u
      /\ \A d \in Conns \ {c} : srv'[d] = srv[d] /\ up'[d] = up[d]
  <2> HIDE DEF s, u
  <2> QED
    BY <1>1, <1>2, <1>3, ServerTypes DEF IpcInv
<1>5. Disturbed' = Disturbed
  BY <1>1 DEF Disturbed
<1>6. ASSUME c \notin Disturbed PROVE ConnOk(c)'
  <2>1. ~Quiet(srv[c], up[c])
    BY <1>1 DEF Quiet
  <2>2. PICK t \in Types, a \in App, left \in Seq(Item) :
              /\ OnWay(srv[c], up[c], t, a, left)
              /\ ~crashed => /\ Using(c) = {a} /\ lib[c] # "closed" /\ down[c] = << >>
                             /\ IpcType(call[a].type) = t
                             /\ \/ call[a].pc = "wait" /\ left = << >>
                                \/ call[a].pc = "send" /\ left = call[a].rest /\ left # << >>
    BY <1>6, <2>1, BusyConn
  <2> DEFINE h == Piece(t, a, "head")
             e == Piece(t, a, "tail")
  <2>3. h.from = a /\ e.part = "tail" /\ e.from = a
    BY PieceType
  <2>4. /\ srv[c].msg = << h >>
        /\ \/ up[c] = << >> /\ left = << e, e >>
           \/ up[c] = << e, e >> /\ left = << >>
    BY <1>1, <2>2 DEF OnWay
  <2>5. ConnOk(c)
    BY <1>6 DEF IpcInv
  <2> HIDE DEF h, e
  <2>6. OnWay(s, << >>, t, a, << >>)
    BY <1>3, <2>4 DEF OnWay, h
  <2>7. CASE up[c] = << >> /\ left = << e, e >>
    <3>1. crashed
      BY <1>1, <2>2, <2>7 DEF Ended
    <3>2. k = 0 /\ u = << >>
      <4>1. Len(up[c]) = 0
        BY <2>7
      <4>2. k = 0
        BY <4>1 DEF TailLength
      <4> HIDE DEF k
      <4> QED
        BY <2>7, <4>2, Shapes
    <3>3. c \notin mixed'
      BY <1>1, <2>5, <3>2 DEF ConnOk
    <3> HIDE DEF s, u
    <3>4. OnWay(srv'[c], up'[c], t, a, << >>) /\ srv'[c].pc # "ended"
      BY <1>3, <1>4, <2>6, <3>2
    <3> QED
      BY <1>1, <1>6, <2>2, <3>1, <3>3, <3>4, BusyStep
  <2>8. CASE up[c] = << e, e >> /\ left = << >>
    <3>1. k = 2 /\ u = << >>
      BY <2>8, Shapes DEF TailLength
    <3>2. own(1) /\ own(2)
      BY <2>3, <2>4, <2>8
    <3>3. \A i \in 1 .. k : i = 1 \/ i = 2
      BY <3>1
    <3>4. zeroed' = zeroed /\ mixed' = mixed
      BY <1>1, <3>1, <3>2, <3>3
    <3>5. c \notin mixed' /\ (c \in zeroed' => crashed)
      BY <2>5, <3>4 DEF ConnOk
    <3> HIDE DEF s, u
    <3>6. /\ OnWay(srv'[c], up'[c], t, a, left) /\ srv'[c].pc # "ended"
          /\ down'[c] = down[c]
      BY <1>1, <1>3, <1>4, <2>6, <2>8, <3>1
    <3> QED
      BY <1>1, <1>6, <2>2, <3>5, <3>6, BusyStep
  <2> QED
    BY <2>4, <2>7, <2>8
<1> QED
  BY <1>1, <1>4, <1>5, <1>6, OtherConns

\* A handler answers: the answer is the only one in the connection, and it is
\* for the call that made the request.
LEMMA AnswerStep ==
    ASSUME IpcInv, NEW c \in Conns, NEW ok, srv[c].pc = "run", Answered(c, ok),
           DOMAIN stack' = Conns, \A d \in Conns \ {c} : stack'[d] = stack[d],
           srv[c].msg[1].type = "close" => stack'[c] # "live"
    PROVE  IpcInv'
<1> DEFINE s == [pc |-> "read", msg |-> << >>]
           r == [type |-> srv[c].msg[1].type, from |-> srv[c].msg[1].from, ok |-> ok]
<1>1. /\ UNCHANGED << lib, call, up, crashed, overlapped, torn, mixed, zeroed >>
      /\ srv' = [srv EXCEPT ![c] = s] /\ down' = [down EXCEPT ![c] = Answer(c, r)]
      /\ DOMAIN down = Conns /\ up \in [Conns -> Seq(Item)]
  BY DEF Answered, client, history, IpcInv, IpcTypes
<1>2. s \in Servers /\ s.pc = "read"
  BY DEF Servers
<1>3. /\ IpcTypes' /\ srv'[c] = s
      /\ \A d \in Conns \ {c} : srv'[d] = srv[d] /\ down'[d] = down[d]
      /\ down'[c] = Answer(c, r)
  <2> HIDE DEF s, r
  <2>1. up' = [up EXCEPT ![c] = up[c]] /\ up[c] \in Seq(Item)
    BY <1>1
  <2>2. DOMAIN down' = Conns /\ down'[c] = Answer(c, r) /\ \A d \in Conns \ {c} : down'[d] = down[d]
    BY <1>1
  <2>3. /\ IpcTypes' /\ srv'[c] = s /\ up'[c] = up[c]
        /\ \A d \in Conns \ {c} : srv'[d] = srv[d] /\ up'[d] = up[d]
    <3>1. IpcTypes /\ UNCHANGED << lib, call, crashed >>
      BY <1>1 DEF IpcInv
    <3> QED
      BY <1>1, <1>2, <2>1, <2>2, <3>1, ServerTypes
  <2> QED
    BY <2>2, <2>3
<1>4. Disturbed' = Disturbed
  BY <1>1 DEF Disturbed
<1>5. ASSUME c \notin Disturbed PROVE ConnOk(c)'
  <2>1. ~Quiet(srv[c], up[c])
    BY DEF Quiet
  <2>2. PICK t \in Types, a \in App, left \in Seq(Item) :
              /\ OnWay(srv[c], up[c], t, a, left)
              /\ ~crashed => /\ Using(c) = {a} /\ lib[c] # "closed" /\ down[c] = << >>
                             /\ IpcType(call[a].type) = t
                             /\ \/ call[a].pc = "wait" /\ left = << >>
                                \/ call[a].pc = "send" /\ left = call[a].rest /\ left # << >>
    BY <1>5, <2>1, BusyConn
  <2>3. up[c] = << >> /\ left = << >> /\ srv[c].msg \in {<< Piece(t, a, "whole") >>, << Piece(t, a, "head") >>}
    BY <2>2 DEF OnWay
  <2>4. srv[c].msg[1].type = t /\ srv[c].msg[1].from = a
    BY <2>3, PieceType
  <2>5. r.type = t /\ r.from = a
    BY <2>4
  <2>6. c \notin mixed' /\ (c \in zeroed' => crashed)
    BY <1>1, <1>5 DEF IpcInv, ConnOk
  <2> HIDE DEF s, r
  <2>7. Quiet(srv'[c], up'[c]) /\ srv'[c].pc # "ended"
    BY <1>1, <1>2, <1>3, <2>3 DEF Quiet
  <2>8. ASSUME ~crashed
        PROVE  /\ Len(down'[c]) = 1 /\ down'[c] = << down'[c][1] >>
               /\ down'[c][1].from = a /\ down'[c][1].type = t
    <3>1. ~Ended(c) /\ down[c] = << >>
      BY <2>2, <2>8 DEF Ended
    <3>2. Answer(c, r) = Append(<< >>, r)
      BY <3>1 DEF Answer
    <3>3. down'[c] = << r >>
      BY <1>3, <3>2
    <3>4. Len(<< r >>) = 1 /\ << r >>[1] = r
      OBVIOUS
    <3> QED
      BY <2>5, <3>3, <3>4
  <2> QED
    BY <1>1, <1>5, <2>2, <2>3, <2>4, <2>6, <2>7, <2>8, BusyStep
<1> QED
  BY <1>1, <1>3, <1>4, <1>5, OtherConns

\* The handlers of demux_ipc_socket_call.
LEMMA HandlerSteps ==
    ASSUME IpcInv, NEW c \in Conns,
           \/ ipc_socket(c) \/ ipc_close(c) \/ ipc_write(c) \/ ipc_read(c)
           \/ ipc_poll(c) \/ ipc_query(c)
    PROVE  IpcInv'
<1>0. DOMAIN stack = Conns
  BY DEF IpcInv, IpcTypes
<1>1. CASE ipc_socket(c)
  <2>1. PICK ok \in BOOLEAN : /\ stack' = [stack EXCEPT ![c] = IF ok THEN "live" ELSE @]
                              /\ Answered(c, ok)
    BY <1>1 DEF ipc_socket
  <2>2. DOMAIN stack' = Conns /\ \A d \in Conns \ {c} : stack'[d] = stack[d]
    BY <1>0, <2>1
  <2>3. srv[c].pc = "run" /\ srv[c].msg[1].type # "close"
    BY <1>1 DEF ipc_socket, Handles
  <2> QED
    BY <2>1, <2>2, <2>3, AnswerStep
<1>2. CASE ipc_close(c)
  <2>1. /\ stack' = [stack EXCEPT ![c] = IF @ = "live" THEN "closed" ELSE @]
        /\ Answered(c, TRUE) /\ srv[c].pc = "run"
    BY <1>2 DEF ipc_close, Handles
  <2>2. /\ DOMAIN stack' = Conns /\ \A d \in Conns \ {c} : stack'[d] = stack[d]
        /\ stack'[c] # "live"
    BY <1>0, <2>1
  <2> QED
    BY <2>1, <2>2, AnswerStep
<1>3. CASE ipc_write(c) \/ ipc_read(c) \/ ipc_query(c)
  <2>1. /\ stack' = stack /\ Answered(c, TRUE) /\ srv[c].pc = "run"
        /\ srv[c].msg[1].type # "close"
    BY <1>3 DEF ipc_write, ipc_read, ipc_query, Handles
  <2> QED
    BY <1>0, <2>1, AnswerStep
<1>4. CASE ipc_poll(c)
  <2>1. /\ stack' = stack /\ Answered(c, HasEvent(c)) /\ srv[c].pc = "run"
        /\ srv[c].msg[1].type # "close"
    BY <1>4 DEF ipc_poll, Handles
  <2> QED
    BY <1>0, <2>1, AnswerStep
<1> QED
  BY <1>1, <1>2, <1>3, <1>4

\* A thread for the connection starts, with or without a request waiting.
LEMMA AcceptStep ==
    ASSUME IpcInv, NEW c \in Conns, Accept(c)
    PROVE  IpcInv'
<1> DEFINE s == [srv[c] EXCEPT !.pc = "read"]
<1>1. /\ srv[c].pc = "none" /\ up[c] \in Seq(Item) /\ srv[c] \in Servers
      /\ UNCHANGED << lib, call, up, down, stack, crashed, overlapped, torn, mixed, zeroed >>
      /\ srv' = [srv EXCEPT ![c] = s] /\ up' = [up EXCEPT ![c] = up[c]]
      /\ DOMAIN down = Conns /\ DOMAIN stack = Conns
  BY DEF Accept, client, history, IpcInv, IpcTypes
<1>2. s \in Servers /\ s.pc = "read"
  BY <1>1 DEF Servers
<1> HIDE DEF s
<1>3. /\ IpcTypes' /\ srv'[c] = s /\ up'[c] = up[c]
      /\ \A d \in Conns \ {c} : srv'[d] = srv[d] /\ up'[d] = up[d]
  <2>1. IpcTypes /\ UNCHANGED << lib, call, crashed >> /\ DOMAIN down' = Conns /\ DOMAIN stack' = Conns
    BY <1>1 DEF IpcInv
  <2> QED
    BY <1>1, <1>2, <2>1, ServerTypes
<1>4. Disturbed' = Disturbed
  BY <1>1 DEF Disturbed
<1>5. ASSUME c \notin Disturbed PROVE ConnOk(c)'
  <2>1. c \notin mixed' /\ (c \in zeroed' => crashed) /\ srv'[c].pc # "ended"
    BY <1>1, <1>2, <1>3, <1>5 DEF IpcInv, ConnOk
  <2>2. CASE Quiet(srv[c], up[c])
    <3>1. Quiet(srv'[c], up'[c])
      BY <1>2, <1>3, <2>2 DEF Quiet
    <3> QED
      BY <1>1, <1>5, <2>1, <2>2, <3>1, IdleStep
  <2>3. CASE ~Quiet(srv[c], up[c])
    <3>1. PICK t \in Types, a \in App, left \in Seq(Item) :
              /\ OnWay(srv[c], up[c], t, a, left)
              /\ ~crashed => /\ Using(c) = {a} /\ lib[c] # "closed" /\ down[c] = << >>
                             /\ IpcType(call[a].type) = t
                             /\ \/ call[a].pc = "wait" /\ left = << >>
                                \/ call[a].pc = "send" /\ left = call[a].rest /\ left # << >>
      BY <1>5, <2>3, BusyConn
    <3>2. OnWay(srv'[c], up'[c], t, a, left)
      BY <1>1, <1>2, <1>3, <3>1 DEF OnWay
    <3> QED
      BY <1>1, <1>5, <2>1, <3>1, <3>2, BusyStep
  <2> QED
    BY <2>2, <2>3
<1> QED
  BY <1>1, <1>3, <1>4, <1>5, OtherConns

\* The thread of a connection ends.
LEMMA EndStep ==
    ASSUME IpcInv, NEW c \in Conns, Eof(c) \/ ReadTailFails(c)
    PROVE  IpcInv'
<1> DEFINE s == [pc |-> "ended", msg |-> << >>]
<1>1. /\ srv[c].pc \in {"read", "tail"} /\ up[c] = << >> /\ srv[c] \in Servers
      /\ Ended(c) /\ (srv[c].pc = "tail" => crashed)
      /\ UNCHANGED << lib, call, up, down, stack, crashed, overlapped, torn, mixed, zeroed >>
      /\ srv' = [srv EXCEPT ![c] = s] /\ up' = [up EXCEPT ![c] = up[c]]
      /\ DOMAIN down = Conns /\ DOMAIN stack = Conns /\ up[c] \in Seq(Item)
  BY DEF Eof, ReadTailFails, client, history, Ended, IpcInv, IpcTypes
<1>2. s \in Servers /\ s.pc = "ended"
  BY DEF Servers
<1> HIDE DEF s
<1>3. /\ IpcTypes' /\ srv'[c] = s /\ up'[c] = up[c]
      /\ \A d \in Conns \ {c} : srv'[d] = srv[d] /\ up'[d] = up[d]
  <2>1. IpcTypes /\ UNCHANGED << lib, call, crashed >> /\ DOMAIN down' = Conns /\ DOMAIN stack' = Conns
    BY <1>1 DEF IpcInv
  <2> QED
    BY <1>1, <1>2, <2>1, ServerTypes
<1>4. Disturbed' = Disturbed
  BY <1>1 DEF Disturbed
<1>5. ASSUME c \notin Disturbed PROVE ConnOk(c)'
  <2>1. c \notin mixed' /\ (c \in zeroed' => crashed) /\ Ended(c)
    BY <1>1, <1>5 DEF IpcInv, ConnOk
  <2>2. Quiet(srv'[c], up'[c])
    BY <1>1, <1>2, <1>3 DEF Quiet
  <2>3. CASE Quiet(srv[c], up[c])
    BY <1>1, <1>5, <2>1, <2>2, <2>3, IdleStep
  <2>4. CASE ~Quiet(srv[c], up[c])
    <3>1. crashed
      BY <1>1, <2>4 DEF Quiet
    <3>2. PICK t \in Types, a \in App, left \in Seq(Item) : OnWay(srv[c], up[c], t, a, left)
      BY <1>5, <2>4, BusyConn
    <3> QED
      BY <1>1, <1>5, <2>1, <2>2, <3>1, BusyStep
  <2> QED
    BY <2>3, <2>4
<1> QED
  BY <1>1, <1>3, <1>4, <1>5, OtherConns

----------------------------------------------------------------------------
(* The library *)

\* A call begins: on a connection that stays undisturbed it is the only one,
\* and nothing of an earlier one is left there.
LEMMA BeginStep ==
    ASSUME IpcInv, NEW a \in App, NEW c \in Conns, NEW t \in CallTypes,
           NEW long \in BOOLEAN, Begin(a, t, c, long),
           lib[c] # "closed", lib' \in [Conns -> Entries], lib'[c] # "closed",
           \A d \in Conns \ {c} : lib'[d] = lib[d]
    PROVE  IpcInv'
<1>1. /\ call' \in [App -> Calls]
      /\ \A b \in App : call'[b].pc = "idle" <=> call'[b].conn = NoConn
      /\ ~crashed' /\ UNCHANGED << up, down, srv, stack >>
      /\ call'[a] = [pc |-> "send", type |-> t, conn |-> c,
                     rest |-> Message(IpcType(t), a, long)]
      /\ call'[a].conn = c
      /\ \A b \in App \ {a} : call'[b] = call[b]
  BY BeginTypes DEF IpcInv
<1>2. /\ ~crashed /\ crashed' = crashed /\ UNCHANGED << torn, mixed, zeroed >>
      /\ overlapped' = IF Using(c) = {} THEN overlapped ELSE overlapped \cup {c}
      /\ call[a].pc = "idle"
  BY DEF Begin
<1>3. call[a].conn = NoConn
  BY <1>2 DEF IpcInv, IpcTypes
<1>4. IpcTypes'
  BY <1>1, <1>2, <1>3 DEF IpcInv, IpcTypes
<1>5. Disturbed \subseteq Disturbed'
  BY <1>2 DEF Disturbed
<1>6. ASSUME c \notin Disturbed' PROVE ConnOk(c)'
  <2>1. c \notin Disturbed /\ Using(c) = {}
    BY <1>2, <1>5, <1>6 DEF Disturbed
  <2>2. ConnOk(c)
    BY <2>1 DEF IpcInv
  <2>3. Quiet(srv[c], up[c]) /\ down[c] = << >> /\ srv[c].pc # "ended"
    BY <1>2, <2>1, <2>2 DEF ConnOk, Ended
  <2>4. Using(c)' = {a}
    <3>1. \A b \in App : call'[b].conn = c <=> b = a
      BY <1>1, <2>1 DEF Using
    <3> QED
      BY <3>1 DEF Using
  <2>5. CallOk(a, call'[a], srv[c], up[c], down[c], stack[c])
    <3>1. /\ call'[a].pc = "send" /\ call'[a].type = t
          /\ call'[a].rest \in {Message(IpcType(t), a, FALSE), Message(IpcType(t), a, TRUE)}
      <4> DEFINE r == Message(IpcType(t), a, long)
      <4>1. r \in {Message(IpcType(t), a, FALSE), Message(IpcType(t), a, TRUE)}
        <5>1. long = TRUE \/ long = FALSE
          OBVIOUS
        <5> QED
          BY <5>1
      <4> HIDE DEF r
      <4>2. call'[a] = [pc |-> "send", type |-> t, conn |-> c, rest |-> r]
        BY <1>1 DEF r
      <4>3. call'[a].pc = "send" /\ call'[a].type = t /\ call'[a].rest = r
        BY <4>2
      <4> QED
        BY <4>1, <4>3, Zenon
    <3> QED
      BY <2>3, <3>1 DEF CallOk
  <2> QED
    BY <1>1, <1>2, <1>3, <2>2, <2>3, <2>4, <2>5 DEF ConnOk
<1> QED
  BY <1>1, <1>2, <1>3, <1>4, <1>5, <1>6, OtherConns

\* The calls of the library.
LEMMA CallSteps ==
    ASSUME IpcInv, NEW a \in App, NEW c \in Conns,
           \/ socket(a, c) \/ close(a, c) \/ write(a, c) \/ read(a, c)
           \/ query(a, c) \/ poll(a, c) \/ ReadStdin(a, c)
    PROVE  IpcInv'
<1>0. lib \in [Conns -> Entries]
  BY DEF IpcInv, IpcTypes
<1>1. CASE socket(a, c)
  <2>1. Begin(a, "socket", c, FALSE) /\ lib[c] # "closed" /\ lib' = [lib EXCEPT ![c] = "new"]
    BY <1>1 DEF socket
  <2>2. /\ lib' \in [Conns -> Entries] /\ lib'[c] # "closed"
        /\ \A d \in Conns \ {c} : lib'[d] = lib[d]
    BY <1>0, <2>1 DEF Entries
  <2>3. "socket" \in CallTypes
    BY DEF CallTypes, Types
  <2> QED
    BY <2>1, <2>2, <2>3, BeginStep
<1>2. CASE ~socket(a, c)
  <2>1. \E t \in CallTypes, long \in BOOLEAN :
           Begin(a, t, c, long) /\ lib[c] # "closed" /\ UNCHANGED lib
    BY <1>2 DEF close, write, read, query, poll, ReadStdin, Request, Types, CallTypes
  <2>2. PICK t \in CallTypes, long \in BOOLEAN :
           Begin(a, t, c, long) /\ lib[c] # "closed" /\ UNCHANGED lib
    BY <2>1
  <2>3. /\ lib' \in [Conns -> Entries] /\ lib'[c] # "closed"
        /\ \A d \in Conns \ {c} : lib'[d] = lib[d]
    BY <1>0, <2>2
  <2> QED
    BY <2>2, <2>3, BeginStep
<1> QED
  BY <1>1, <1>2

\* A thread in a call on an undisturbed connection.
LEMMA UserOk ==
    ASSUME IpcInv, NEW a \in App, call[a].conn \in Conns \ Disturbed
    PROVE  LET c == call[a].conn
           IN  /\ ConnOk(c) /\ ~crashed /\ Using(c) = {a} /\ lib[c] # "closed"
               /\ srv[c].pc # "ended" /\ IpcType(call[a].type) \in Types
               /\ CallOk(a, call[a], srv[c], up[c], down[c], stack[c])
<1> DEFINE c == call[a].conn
<1>1. ConnOk(c) /\ c # NoConn /\ a \in Using(c)
  BY MessageTypes DEF IpcInv, Using
<1>2. ~crashed /\ call[a] \in Calls
  BY <1>1 DEF IpcInv, IpcTypes
<1>3. IpcType(call[a].type) \in Types
  BY <1>2, MessageTypes DEF Calls
<1> HIDE DEF c
<1>4. Using(c) = {a} /\ lib[c] # "closed" /\ CallOk(a, call[a], srv[c], up[c], down[c], stack[c])
  BY <1>1 DEF ConnOk
<1>5. srv[c].pc # "ended"
  BY <1>1, <1>2, <1>4 DEF ConnOk, Ended
<1> QED
  BY <1>1, <1>2, <1>3, <1>4, <1>5 DEF c

\* A message is sent, whole or head first.
LEMMA SendStep ==
    ASSUME IpcInv, NEW a \in App, Send(a)
    PROVE  IpcInv'
<1>0. PICK c \in Conns : c = call[a].conn
  BY SendTypes DEF IpcInv
<1> DEFINE rest == call[a].rest
           t == IpcType(call[a].type)
<1>1. /\ IpcTypes'
      /\ \A b \in App : call'[b].conn = call[b].conn
      /\ \A b \in App \ {a} : call'[b] = call[b]
      /\ UNCHANGED << lib, down, srv, stack, crashed, overlapped, mixed, zeroed >>
      /\ \A d \in Conns \ {c} : up'[d] = up[d]
  BY <1>0, SendTypes DEF IpcInv
<1>2. PICK k \in 1 .. Len(rest) :
         /\ up'[c] = up[c] \o SubSeq(rest, 1, k)
         /\ call'[a].rest = Drop(rest, k)
         /\ call'[a].pc = IF k = Len(rest) THEN "wait" ELSE "send"
         /\ call'[a].type = call[a].type
         /\ torn' = IF Len(rest) - k = 1 THEN torn \cup {c} ELSE torn
  BY <1>0, SendTypes DEF IpcInv
<1>3. Disturbed \subseteq Disturbed'
  BY <1>1, <1>2 DEF Disturbed
<1>4. ASSUME c \notin Disturbed' PROVE ConnOk(c)'
  <2>1. Len(rest) - k # 1 /\ c \notin Disturbed
    BY <1>1, <1>2, <1>3, <1>4 DEF Disturbed
  <2>2. /\ ConnOk(c) /\ ~crashed /\ Using(c) = {a} /\ lib[c] # "closed"
        /\ srv[c].pc # "ended" /\ t \in Types
        /\ CallOk(a, call[a], srv[c], up[c], down[c], stack[c])
    BY <1>0, <2>1, UserOk
  <2>3. call[a].pc = "send"
    BY DEF Send
  <2> DEFINE w == Piece(t, a, "whole")
             h == Piece(t, a, "head")
             e == Piece(t, a, "tail")
  <2>4. /\ down[c] = << >>
        /\ \/ /\ Quiet(srv[c], up[c])
              /\ rest = << w >> \/ rest = << h, e, e >>
           \/ rest # << >> /\ OnWay(srv[c], up[c], t, a, rest)
    BY <2>2, <2>3, Messages DEF CallOk
  <2>5. CallOk(a, call'[a], srv[c], up'[c], down[c], stack[c])
    <3>1. CASE Quiet(srv[c], up[c]) /\ rest = << w >>
      <4> HIDE DEF w, h, e, t
      <4>0. Len(rest) = 1 /\ up[c] = << >>
        BY <3>1, Shapes DEF Quiet
      <4>1. k = 1 /\ SubSeq(rest, 1, k) = << w >> /\ k = Len(rest)
        <5>1. k = 1
          BY <1>2, <4>0
        <5> QED
          BY <3>1, <4>0, <5>1, Shapes
      <4>2. up'[c] = << w >> /\ call'[a].pc = "wait"
        BY <1>2, <4>0, <4>1, Shapes
      <4>3. OnWay(srv[c], up'[c], t, a, << >>)
        BY <2>2, <3>1, <4>2 DEF OnWay, w, Quiet
      <4> QED
        BY <1>2, <2>4, <4>2, <4>3 DEF CallOk, t
    <3>2. CASE Quiet(srv[c], up[c]) /\ rest = << h, e, e >>
      <4> HIDE DEF w, h, e, t
      <4>0. up[c] = << >> /\ srv[c].pc \in {"none", "read"} /\ Len(rest) = 3 /\ k \in {1, 2, 3}
        <5>1. Len(rest) = 3
          BY <3>2, Shapes
        <5> QED
          BY <1>2, <2>2, <3>2, <5>1 DEF Quiet
      <4>1. CASE k = 1
        <5>1. up'[c] = << h >> /\ call'[a].rest = << e, e >> /\ call'[a].pc = "send"
          <6>1. SubSeq(rest, 1, k) = << h >> /\ Drop(rest, k) = << e, e >>
            BY <3>2, <4>1, Shapes
          <6>2. call'[a].pc = "send" /\ call'[a].rest = Drop(rest, k)
            BY <1>2, <4>0, <4>1
          <6>3. up'[c] = << >> \o << h >>
            BY <1>2, <4>0, <6>1
          <6> QED
            BY <6>1, <6>2, <6>3, Shapes
        <5>2. OnWay(srv[c], up'[c], t, a, << e, e >>) /\ << e, e >> # << >>
          BY <4>0, <5>1 DEF OnWay, h, e
        <5> QED
          BY <1>2, <2>4, <5>1, <5>2 DEF CallOk, t
      <4>2. CASE k = 3
        <5>1. up'[c] = << h >> \o << e, e >> /\ call'[a].pc = "wait"
          BY <1>2, <3>2, <4>0, <4>2, Shapes
        <5>2. OnWay(srv[c], up'[c], t, a, << >>)
          BY <4>0, <5>1 DEF OnWay, h, e
        <5> QED
          BY <1>2, <2>4, <5>1, <5>2 DEF CallOk, t
      <4> QED
        BY <2>1, <4>0, <4>1, <4>2
    <3>3. CASE rest # << >> /\ OnWay(srv[c], up[c], t, a, rest)
      <4>1. /\ rest = << e, e >>
            /\ \/ srv[c].pc \in {"none", "read"} /\ up[c] = << h >>
               \/ srv[c].pc = "tail" /\ srv[c].msg = << h >> /\ up[c] = << >>
        BY <3>3 DEF OnWay
      <4> HIDE DEF w, h, e, t
      <4>2. Len(rest) = 2
        BY <4>1, Shapes
      <4>3. k = 2
        BY <1>2, <2>1, <4>2
      <4>4. SubSeq(rest, 1, k) = << e, e >> /\ call'[a].pc = "wait"
        BY <1>2, <4>1, <4>2, <4>3, Shapes
      <4>5. \/ srv[c].pc \in {"none", "read"} /\ up'[c] = << h >> \o << e, e >>
            \/ srv[c].pc = "tail" /\ srv[c].msg = << h >> /\ up'[c] = << e, e >>
        BY <1>2, <4>1, <4>4, Shapes
      <4>6. OnWay(srv[c], up'[c], t, a, << >>)
        BY <4>5 DEF OnWay, h, e
      <4> QED
        BY <1>2, <2>4, <4>4, <4>6 DEF CallOk, t
    <3> QED
      BY <2>4, <3>1, <3>2, <3>3
  <2>6. Using(c)' = {a}
    BY <1>1, <2>2 DEF Using
  <2> QED
    BY <1>1, <2>2, <2>5, <2>6 DEF ConnOk
<1> QED
  <2>1. \A b \in App : \/ call'[b] = call[b]
                       \/ call[b].conn \in {c, NoConn} /\ call'[b].conn \in {c, NoConn}
    BY <1>0, <1>1
  <2> QED
    BY <1>1, <1>3, <1>4, <2>1, OtherConns

\* A call returns with its own answer, and leaves the connection empty.
LEMMA ReceiveStep ==
    ASSUME IpcInv, NEW a \in App, Receive(a)
    PROVE  IpcInv'
<1>0. /\ call[a].pc = "wait" /\ call[a].conn \in Conns /\ call[a] \in Calls
      /\ call[a].type \in CallTypes
  <2>1. call[a] \in Calls /\ call[a].pc = "wait" /\ call[a].conn # NoConn
    BY DEF IpcInv, IpcTypes, Receive
  <2> QED
    BY <2>1 DEF Calls
<1>1. PICK c \in Conns : c = call[a].conn
  BY <1>0
<1> DEFINE r == Head(down[c])
           l == Returned(lib[c], call[a].type, r.ok /\ r.type = IpcType(call[a].type))
<1>2. /\ lib[c] # "closed" /\ down[c] # << >>
      /\ lib' = [lib EXCEPT ![c] = l] /\ call' = [call EXCEPT ![a] = Idle]
      /\ UNCHANGED << up, srv, stack, crashed, overlapped, torn, zeroed >>
  BY <1>1 DEF Receive, server
<1>3. PICK k \in 1 .. Len(down[c]) :
              /\ down' = [down EXCEPT ![c] = Drop(@, k)]
              /\ mixed' = IF r.from = a /\ r.type = IpcType(call[a].type) /\ k = 1
                          THEN mixed ELSE mixed \cup {c}
  BY <1>1 DEF Receive
<1>4. /\ call' \in [App -> Calls]
      /\ \A b \in App : call'[b].pc = "idle" <=> call'[b].conn = NoConn
      /\ crashed => \A b \in App : call'[b].conn = NoConn
      /\ call'[a].conn = NoConn
      /\ \A b \in App \ {a} : call'[b] = call[b]
  BY <1>2, IdleTypes DEF IpcInv
<1>5. l \in Entries /\ (l = "closed" => call[a].type = "close") /\ lib \in [Conns -> Entries]
  <2>1. lib \in [Conns -> Entries]
    BY DEF IpcInv, IpcTypes
  <2> QED
    BY <1>2, <2>1 DEF Returned, Entries
<1> HIDE DEF l
<1>6. /\ lib' \in [Conns -> Entries] /\ lib'[c] = l /\ \A d \in Conns \ {c} : lib'[d] = lib[d]
      /\ DOMAIN down' = Conns /\ down'[c] = Drop(down[c], k)
      /\ \A d \in Conns \ {c} : down'[d] = down[d]
  BY <1>2, <1>3, <1>5 DEF IpcInv, IpcTypes
<1>7. IpcTypes'
  BY <1>2, <1>4, <1>6 DEF IpcInv, IpcTypes
<1>8. Disturbed' = Disturbed
  BY <1>2 DEF Disturbed
<1>9. ASSUME c \notin Disturbed PROVE ConnOk(c)'
  <2> DEFINE t == IpcType(call[a].type)
  <2>1. /\ ConnOk(c) /\ ~crashed /\ Using(c) = {a}
        /\ srv[c].pc # "ended" /\ t \in Types
        /\ CallOk(a, call[a], srv[c], up[c], down[c], stack[c])
    BY <1>1, <1>9, UserOk
  <2>2. /\ Quiet(srv[c], up[c]) /\ Len(down[c]) = 1 /\ down[c] = << down[c][1] >>
        /\ down[c][1].from = a /\ down[c][1].type = t
        /\ t = "close" => stack[c] # "live"
    BY <1>0, <1>2, <2>1 DEF CallOk
  <2>3. k = 1 /\ r = down[c][1] /\ Drop(down[c], k) = << >>
    <3>1. k = 1
      BY <1>3, <2>2
    <3>2. Head(<< down[c][1] >>) = down[c][1] /\ Drop(<< down[c][1] >>, 1) = << >>
      BY Shapes
    <3> QED
      BY <2>2, <3>1, <3>2
  <2>4. mixed' = mixed /\ down'[c] = << >>
    BY <1>3, <1>6, <2>2, <2>3
  <2>5. Using(c)' = {}
    BY <1>1, <1>4, <2>1, MessageTypes DEF Using
  <2>6. l = "closed" => stack[c] # "live"
    BY <1>5, <2>2, MessageTypes
  <2> QED
    BY <1>2, <1>6, <2>1, <2>2, <2>4, <2>5, <2>6 DEF ConnOk
<1> QED
  <2>1. \A b \in App : \/ call'[b] = call[b]
                       \/ call[b].conn \in {c, NoConn} /\ call'[b].conn \in {c, NoConn}
    BY <1>1, <1>4
  <2> QED
    BY <1>2, <1>3, <1>6, <1>7, <1>8, <1>9, <2>1, OtherConns

\* poll() takes its own answer and asks again, on a connection that is empty.
LEMMA PollAgainStep ==
    ASSUME IpcInv, NEW a \in App, PollAgain(a)
    PROVE  IpcInv'
<1>0. /\ call[a].pc = "wait" /\ call[a].type = "pollboth"
      /\ call[a].conn \in Conns /\ call[a] \in Calls
  <2>1. /\ call[a] \in Calls /\ call[a].pc = "wait" /\ call[a].type = "pollboth"
        /\ call[a].conn # NoConn
    BY DEF IpcInv, IpcTypes, PollAgain
  <2> QED
    BY <2>1 DEF Calls
<1>1. PICK c \in Conns : c = call[a].conn
  BY <1>0
<1> DEFINE r == Head(down[c])
           q == Message("poll", a, FALSE)
           n == [call[a] EXCEPT !.pc = "send", !.rest = q]
<1>2. /\ lib[c] # "closed" /\ down[c] # << >> /\ r.type = "poll"
      /\ call' = [call EXCEPT ![a] = n]
      /\ UNCHANGED << lib, up, srv, stack, crashed, overlapped, torn, zeroed >>
  BY <1>1 DEF PollAgain, server
<1>3. PICK k \in 1 .. Len(down[c]) :
              /\ down' = [down EXCEPT ![c] = Drop(@, k)]
              /\ mixed' = IF r.from = a /\ k = 1 THEN mixed ELSE mixed \cup {c}
  BY <1>1 DEF PollAgain
<1>4. q \in Seq(Item) /\ q \in {Message("poll", a, FALSE), Message("poll", a, TRUE)}
  BY MessageTypes, Messages
<1> HIDE DEF q
<1>5. n \in Calls /\ n.pc = "send" /\ n.conn = c /\ n.rest = q /\ n.type = "pollboth"
  BY <1>0, <1>1, <1>4 DEF Calls
<1> HIDE DEF n
<1>6. /\ call' \in [App -> Calls] /\ call'[a] = n
      /\ \A b \in App \ {a} : call'[b] = call[b]
      /\ \A b \in App : call'[b].conn = call[b].conn
      /\ DOMAIN down' = Conns /\ down'[c] = Drop(down[c], k)
      /\ \A d \in Conns \ {c} : down'[d] = down[d]
  BY <1>1, <1>2, <1>3, <1>5 DEF IpcInv, IpcTypes
<1>7. IpcTypes'
  <2>1. \A b \in App : call'[b].pc = "idle" <=> call'[b].conn = NoConn
    <3>1. call'[a].pc # "idle" /\ call'[a].conn # NoConn
      BY <1>5, <1>6, MessageTypes
    <3> QED
      BY <1>6, <3>1 DEF IpcInv, IpcTypes
  <2> QED
    BY <1>2, <1>6, <2>1 DEF IpcInv, IpcTypes
<1>8. Disturbed' = Disturbed
  BY <1>2 DEF Disturbed
<1>9. ASSUME c \notin Disturbed PROVE ConnOk(c)'
  <2>1. /\ ConnOk(c) /\ ~crashed /\ Using(c) = {a} /\ srv[c].pc # "ended"
        /\ CallOk(a, call[a], srv[c], up[c], down[c], stack[c])
    BY <1>1, <1>9, UserOk
  <2>2. /\ Quiet(srv[c], up[c]) /\ Len(down[c]) = 1 /\ down[c] = << down[c][1] >>
        /\ down[c][1].from = a
    BY <1>0, <1>2, <2>1 DEF CallOk
  <2>3. k = 1 /\ r = down[c][1] /\ Drop(down[c], k) = << >>
    <3>1. k = 1
      BY <1>3, <2>2
    <3>2. Head(<< down[c][1] >>) = down[c][1] /\ Drop(<< down[c][1] >>, 1) = << >>
      BY Shapes
    <3> QED
      BY <2>2, <3>1, <3>2
  <2>4. mixed' = mixed /\ down'[c] = << >>
    BY <1>3, <1>6, <2>2, <2>3
  <2>5. Using(c)' = {a}
    BY <1>6, <2>1 DEF Using
  <2>6. CallOk(a, call'[a], srv[c], up[c], down'[c], stack[c])
    BY <1>4, <1>5, <1>6, <2>2, <2>4, MessageTypes DEF CallOk
  <2> QED
    BY <1>2, <2>1, <2>2, <2>4, <2>5, <2>6 DEF ConnOk
<1> QED
  <2>1. \A b \in App : \/ call'[b] = call[b]
                       \/ call[b].conn \in {c, NoConn} /\ call'[b].conn \in {c, NoConn}
    BY <1>1, <1>6
  <2> QED
    BY <1>2, <1>3, <1>6, <1>7, <1>8, <1>9, <2>1, OtherConns

\* A connection closed under a call is one that two threads have used.
LEMMA ReceiveClosedStep ==
    ASSUME IpcInv, NEW a \in App, ReceiveClosed(a)
    PROVE  IpcInv'
<1>0. call[a].conn \in Conns /\ call[a].pc # "idle"
  <2>1. call[a] \in Calls /\ call[a].pc # "idle" /\ call[a].conn # NoConn
    BY DEF IpcInv, IpcTypes, ReceiveClosed
  <2> QED
    BY <2>1 DEF Calls
<1>1. PICK c \in Conns : c = call[a].conn
  BY <1>0
<1>2. /\ lib[c] = "closed" /\ call' = [call EXCEPT ![a] = Idle] /\ mixed' = mixed \cup {c}
      /\ UNCHANGED << lib, up, down, srv, stack, crashed, overlapped, torn, zeroed >>
  BY <1>1 DEF ReceiveClosed, server
<1>3. c \in Disturbed
  BY <1>1, <1>2, UserOk
<1>4. /\ call' \in [App -> Calls]
      /\ \A b \in App : call'[b].pc = "idle" <=> call'[b].conn = NoConn
      /\ crashed => \A b \in App : call'[b].conn = NoConn
      /\ call'[a].conn = NoConn
      /\ \A b \in App \ {a} : call'[b] = call[b]
  BY <1>2, IdleTypes DEF IpcInv
<1>5. IpcTypes'
  BY <1>2, <1>4 DEF IpcInv, IpcTypes
<1>6. Disturbed' = Disturbed
  BY <1>2 DEF Disturbed
<1> QED
  <2>1. \A b \in App : \/ call'[b] = call[b]
                       \/ call[b].conn \in {c, NoConn} /\ call'[b].conn \in {c, NoConn}
    BY <1>1, <1>4
  <2> QED
    BY <1>2, <1>3, <1>5, <1>6, <2>1, OtherConns

\* The process dies.
LEMMA CrashStep ==
    ASSUME IpcInv, Crash
    PROVE  IpcInv'
<1>1. /\ ~crashed /\ crashed' /\ call' = [a \in App |-> Idle]
      /\ UNCHANGED << lib, up, down, srv, stack, overlapped, torn, mixed, zeroed >>
  BY DEF Crash, server, history
<1>2. IpcTypes'
  BY <1>1, MessageTypes DEF IpcInv, IpcTypes
<1>3. Disturbed' = Disturbed
  BY <1>1 DEF Disturbed
<1>4. ASSUME NEW c \in Conns \ Disturbed PROVE ConnOk(c)'
  <2>1. ConnOk(c)
    BY DEF IpcInv
  <2>2. Using(c)' = {}
    BY <1>1, MessageTypes DEF Using
  <2>3. \/ Quiet(srv[c], up[c])
        \/ \E t \in Types, a \in App, left \in Seq(Item) : OnWay(srv[c], up[c], t, a, left)
    BY BusyConn
  <2> QED
    BY <1>1, <2>1, <2>2, <2>3 DEF ConnOk, Ended
<1> QED
  BY <1>2, <1>3, <1>4 DEF IpcInv

----------------------------------------------------------------------------
(* The theorems *)

\* No connection is in use at the start.
LEMMA InitIpc == Init => IpcInv
<1> SUFFICES ASSUME Init PROVE IpcInv
  OBVIOUS
<1>1. /\ \A a \in App : call[a] = Idle
      /\ \A c \in Conns : lib[c] = "none" /\ srv[c] = NoThread /\ up[c] = << >> /\ down[c] = << >>
      /\ ~crashed /\ mixed = {} /\ zeroed = {}
  BY DEF Init
<1>2. NoThread \in Servers /\ NoThread.pc = "none" /\ << >> \in Seq(Item)
  BY DEF NoThread, Servers
<1>3. IpcTypes
  <2>1. lib \in [Conns -> Entries] /\ DOMAIN down = Conns /\ DOMAIN stack = Conns
    BY DEF Init, Entries
  <2>2. up \in [Conns -> Seq(Item)] /\ srv \in [Conns -> Servers]
    BY <1>2 DEF Init
  <2>3. call \in [App -> Calls] /\ \A a \in App : call[a].pc = "idle" /\ call[a].conn = NoConn
    BY MessageTypes DEF Init
  <2> QED
    BY <1>1, <2>1, <2>2, <2>3 DEF IpcTypes
<1>4. ASSUME NEW c \in Conns PROVE ConnOk(c)
  <2>1. Using(c) = {}
    BY <1>1, MessageTypes DEF Using
  <2>2. Quiet(srv[c], up[c]) /\ srv[c].pc = "none" /\ lib[c] = "none" /\ down[c] = << >>
    BY <1>1, <1>2 DEF Quiet
  <2> QED
    BY <1>1, <2>1, <2>2 DEF ConnOk
<1> QED
  BY <1>3, <1>4 DEF IpcInv

\* Every step preserves the invariant.
LEMMA NextIpc == IpcInv /\ [Next]_vars => IpcInv'
<1> SUFFICES ASSUME IpcInv, [Next]_vars PROVE IpcInv'
  OBVIOUS
<1>1. CASE \E a \in App, c \in Conns :
              \/ socket(a, c) \/ close(a, c) \/ write(a, c) \/ read(a, c)
              \/ query(a, c) \/ poll(a, c) \/ ReadStdin(a, c)
  BY <1>1, CallSteps
<1>2. CASE \E a \in App : Send(a) \/ Receive(a) \/ PollAgain(a) \/ ReceiveClosed(a)
  BY <1>2, SendStep, ReceiveStep, PollAgainStep, ReceiveClosedStep
<1>3. CASE \E c \in Conns : Accept(c)
  BY <1>3, AcceptStep
<1>4. CASE \E c \in Conns : Server(c)
  BY <1>4, ReadMessageStep, ReadTailStep, EndStep, HandlerSteps DEF Server
<1>5. CASE (\E c \in Conns : PeerAnswers(c)) \/ UNCHANGED vars
  <2>1. UNCHANGED << lib, call, up, down, srv, stack, crashed, overlapped, torn, mixed, zeroed >>
    BY <1>5 DEF PeerAnswers, vars, client, server, history
  <2> QED
    BY <2>1 DEF IpcInv, IpcTypes, ConnOk, Disturbed, Using, Ended
<1>6. CASE Crash
  BY <1>6, CrashStep
<1> QED
  BY <1>1, <1>2, <1>3, <1>4, <1>5, <1>6 DEF Next

\* The invariant holds in every state: on an undisturbed connection at most one
\* request or answer is under way, that of the only call.
THEOREM IpcInvariant == Spec => []IpcInv
<1> QED
  BY InitIpc, NextIpc, PTL DEF Spec

\* The connections that the history variables name.
Named == mixed \subseteq Conns /\ zeroed \subseteq Conns

\* No step names anything else.
LEMMA NextNamed == IpcInv /\ Named /\ [Next]_vars => Named'
<1> SUFFICES ASSUME IpcInv, Named, [Next]_vars PROVE Named'
  OBVIOUS
<1>1. CASE \E a \in App : Receive(a) \/ PollAgain(a) \/ ReceiveClosed(a)
  <2>1. PICK a \in App : Receive(a) \/ PollAgain(a) \/ ReceiveClosed(a)
    BY <1>1
  <2>2. call[a].pc # "idle"
    BY <2>1 DEF Receive, PollAgain, ReceiveClosed
  <2>3. call[a].conn \in Conns
    <3>1. call[a] \in Calls /\ call[a].conn # NoConn
      BY <2>2 DEF IpcInv, IpcTypes
    <3> QED
      BY <3>1 DEF Calls
  <2>4. mixed' \subseteq mixed \cup {call[a].conn} /\ zeroed' = zeroed
    BY <2>1 DEF Receive, PollAgain, ReceiveClosed
  <2> QED
    BY <2>3, <2>4 DEF Named
<1>2. CASE \E c \in Conns : ReadMessage(c) \/ ReadTail(c)
  <2>1. PICK c \in Conns : ReadMessage(c) \/ ReadTail(c)
    BY <1>2
  <2>2. mixed' \subseteq mixed \cup {c} /\ zeroed' \subseteq zeroed \cup {c}
    BY <2>1 DEF ReadMessage, ReadTail
  <2> QED
    BY <2>2 DEF Named
<1>3. CASE /\ ~ \E a \in App : Receive(a) \/ PollAgain(a) \/ ReceiveClosed(a)
           /\ ~ \E c \in Conns : ReadMessage(c) \/ ReadTail(c)
  <2>1. CASE \E a \in App, c \in Conns :
              \/ socket(a, c) \/ close(a, c) \/ write(a, c) \/ read(a, c)
              \/ query(a, c) \/ poll(a, c) \/ ReadStdin(a, c)
    <3>1. ASSUME NEW a, NEW t, NEW c, NEW long, Begin(a, t, c, long) PROVE Named'
      BY <3>1 DEF Begin, Named
    <3>2. PICK a \in App, c \in Conns :
              \/ socket(a, c) \/ close(a, c) \/ write(a, c) \/ read(a, c)
              \/ query(a, c) \/ poll(a, c) \/ ReadStdin(a, c)
      BY <2>1
    <3> QED
      BY <3>1, <3>2 DEF socket, close, write, read, query, poll, ReadStdin, Request
  <2>2. CASE (\E a \in App : Send(a)) \/ Crash \/ UNCHANGED vars
    BY <2>2 DEF Named, Send, Crash, history, vars
  <2>3. CASE \E c \in Conns :
              \/ Accept(c) \/ PeerAnswers(c) \/ ReadTailFails(c) \/ Eof(c)
              \/ ipc_socket(c) \/ ipc_close(c) \/ ipc_write(c) \/ ipc_read(c)
              \/ ipc_poll(c) \/ ipc_query(c)
    BY <2>3 DEF Named, Accept, PeerAnswers, ReadTailFails, Eof, ipc_socket, ipc_close,
       ipc_write, ipc_read, ipc_poll, ipc_query, Answered, history
  <2> QED
    BY <1>3, <2>1, <2>2, <2>3 DEF Next, Server
<1> QED
  BY <1>1, <1>2, <1>3

\* They are connections.
LEMMA AlwaysNamed == Spec => []Named
<1>1. Init => Named
  BY DEF Init, Named
<1> QED
  BY <1>1, NextNamed, IpcInvariant, PTL DEF Spec

\* transmit_hfip reads the answer to its own request, and socket_ipc_open every
\* request as it was sent, on every undisturbed connection.
THEOREM AnswersOwn == Spec => []OwnAnswer
<1>1. IpcInv /\ Named => OwnAnswer
  BY DEF IpcInv, ConnOk, OwnAnswer, Named
<1> QED
  BY <1>1, IpcInvariant, AlwaysNamed, PTL

\* While the application lives, ipc_write gives TCP only bytes that were written,
\* on every undisturbed connection.
THEOREM WritesWhole == Spec => []WrittenWhole
<1>1. IpcInv /\ Named => WrittenWhole
  BY DEF IpcInv, ConnOk, WrittenWhole, Named
<1> QED
  BY <1>1, IpcInvariant, AlwaysNamed, PTL

\* The socket of a connection whose thread has ended was closed, but for a crash
\* or overlapping calls.
THEOREM NoneOrphaned == Spec => []NoOrphan
<1>1. IpcInv => NoOrphan
  BY DEF IpcInv, ConnOk, NoOrphan, Ended
<1> QED
  BY <1>1, IpcInvariant, PTL

=============================================================================
