# hf-ip in TLA+

hf-ip is a TCP/IP stack in user space: one process owns a tap device, speaks
ARP, IPv4, ICMP and TCP over it, and offers sockets to other programs over a
Unix socket. This directory holds TLA+ modules that model its core, TLC runs
that check them on small instances, and TLAPS proofs for every instance.

## 1. The system

### Threads

| thread | code | what it does |
|---|---|---|
| core | `netdev_rx_loop` | reads the tap device; runs `arp_rcv`, `ip_rcv`, `icmpv4_incoming`, `tcp_in` |
| timer | `timers_start` | every 10 ms advances `tick`, walks the timer list, starts a thread for each expired timer |
| handlers | `tcp_connect_rto`, `tcp_retransmission_timeout`, `tcp_send_delack`, `tcp_user_timeout`, `tcp_linger`, `socket_garbage_collect` | one new thread per expiry; waits for the socket lock, then works on the socket |
| IPC | `start_ipc_listener`, `socket_ipc_open` | one thread per client connection; runs `_socket`, `_connect`, `_write`, `_read`, `_close`, `_poll`, ... |

### Components

| component | state | operations | talks to | what is hard | what makes it correct |
|---|---|---|---|---|---|
| TCP connection (`tcp.c`, `inet.c`) | `struct tcp_sock`: state, error, poll events, the three timers | connect, write, read, close; linger and user timeout; `tcp_done` | everything below | calls, segments and handlers in any order | state diagram followed; `connect()` returns; a socket that is done is released |
| TCP output (`tcp_output.c`) | write queue, `inflight`, `snd_una`, `snd_nxt`, `rto`, `backoff` | send, send next flight, retransmit, ACK, FIN, RST | timers, IP output | late handlers, lost ACKs | bytes reach the peer in order; unacknowledged data is timed |
| TCP input (`tcp_input.c`) | `rcv_nxt`, delayed-ACK state | `tcp_input_state` | output, data, timers | any segment in any state | only acknowledged buffers leave; ACKs are not forgotten |
| TCP receive queues (`tcp_data.c`) | receive and out-of-order queue, PSH flag | queue, consume, dequeue | readers, poll | loss, repetition, overlap | every byte once, in order; end of stream last |
| timers (`timer.c`) | list of timers with `refcnt`, `cancelled`, `expires` | add, one-shot, cancel, release, walk | sockets hold pointers | cancelling against the walk | no dangling pointer; handler once; all fire or are cancelled |
| ARP, routes, device (`arp.c`, `route.c`, `dst.c`, `ip_output.c`, `netdev.c`) | neighbour table, routes | receive, learn, answer, ask, look up, transmit | all senders | table read without its lock; lost answers | frames go to the next hop; entries are current |
| sockets (`socket.c`, `sock.c`) | list of sockets, reference counts, lock | find, delete, garbage collect, abort at exit | IPC threads, core, handlers, main | a socket found and freed before it is locked | freed once and always; references counted; which uses come after a free |
| waiting (`wait.h`) | condition, mutex | sleep, wake | connect and read | two locks | no lost wake-up, no deadlock |
| IPC and library (`ipc.c`, `tools/libhfip.c`) | client connections, the library's list of sockets | request and response | sockets | byte streams without message borders, several threads, a dying client | the own answer to every request; only waiting for the peer keeps a call or a thread |
| IP input, ICMP, checksum (`ip_input.c`, `icmpv4.c`, `utils.c`) | none | test, dispatch, reply in place, sum | IP output, TCP | carries, odd lengths, options | wrong headers dropped, echo exact, checksums right |
| buffers, start-up, tap device | | | | | sequential or pure input and output |

`PROJECT.json` lists the same components with the status of each, and under
`hazards` the places in the code where a test would hardly reach what can go
wrong.

## 2. The modules

| module | models | built on |
|---|---|---|
| `TcpSock` | the socket's record, timers held by it, waking, ending (`tcp.c`, `socket.c`, `sock.c`, `wait.h`) | |
| `TcpOutput` | `tcp_output.c` | `TcpSock` |
| `TcpInput` | `tcp_input.c`, `tcp_data.c` | `TcpOutput` |
| `Tcp` | one connection: application, core thread, timer thread, handlers, peer, network | `TcpInput` |
| `ByteStream` | abstract: what one direction of a connection promises | |
| `TcpStreams` | `Tcp` implements `ByteStream`, once per direction | `Tcp`, `ByteStream` |
| `TcpSeq` | sequence numbers with their width, selective acknowledgments (`tcp_input.c`, `tcp_data.c`, `tcp_output.c`, `tcp.c`) | |
| `SocketLife` | `socket.c`, the wait in `inet.c`, `wait.h`, lock by lock | |
| `Timer` | `timer.c` and a socket's pointers to its timers | |
| `Arp` | `arp.c`, `route.c`, `dst.c`, `ip_output.c`, `netdev.c` | |
| `Ip` | `ip_input.c`, `icmpv4.c`, headers of `ip_output.c`, checksums of `utils.c` and `tcp.c` | |
| `Ipc` | `ipc.c` and `tools/libhfip.c` | |
| `MCTcp`, `MCTcpSeq`, `MCSocketLife`, `MCTimer`, `MCArp`, `MCIp`, `MCIpc` | instances for TLC | |
| `TcpTypeProofs`, `TcpConnProofs`, `TcpStreamProofs` | proofs about `Tcp` and `TcpStreams`, each built on the one before | `Tcp`, `TcpStreams` |
| `TcpSeqProofs`, `TimerProofs`, `SocketLifeProofs`, `ArpProofs`, `IpcProofs` | proofs about the other components | the module of the component |

### Tcp

Code that runs under the socket lock is an operator from the socket's record to
the socket's record, with the name of the C function; the handlers compose
them in the order of the calls. The actions of `Tcp` are what the threads do
between taking and releasing the lock:

- **application** `Connect`, `ConnectWoken`, `ConnectFree`, `Write`, `ReadAtEnd`,
  `Read`, `CopySkb`, `CopyDone`, `ReadWoken`, `Close`. A reader holds the lock
  over several steps (`app.pc = "copy"`) and gives it up to sleep.
- **core thread** `RcvSynSent`, `RcvUnacceptable`, `RcvReset`, `RcvSegment`: the
  branches of `tcp_input_state`. `RcvSegment` runs the ACK, the empty-queue
  switch, the text, the FIN and the congestion part in one step, as the code
  does under the lock.
- **timers** `Expire` and `ExpireUnowned` are the walk of the timer thread starting
  a handler thread, `RunHandler` is that thread once it has the lock. Between
  the two anything may happen, so handlers come late. `tsk.armed` counts the
  timers that run although the socket's pointer was released or replaced;
  a cancelled timer is gone, as module `Timer` justifies.
- **peer and network** (not in the repository): a TCP that follows the standard.
  `tsk.wire` keeps all we ever sent that occupies sequence space, `peer.hist` the
  points the peer has been at: any of our segments may reach it at any time or
  never, and any segment it may have sent, cut in any way and with any of its
  acknowledgments, may reach us at any time, again and again.

Data are positions in a stream; sequence numbers are naturals (see `TcpSeq`);
options, checksums (see `Ip`) and ports are left out. A round-trip measurement
is any value of `RttSamples`.

`TcpStreams` maps a connection to two instances of `ByteStream`. Inwards, what is
put in is what the peer has sent, what is taken out is what `read()` has copied,
and the end is `read()` returning 0; outwards, what is put in is what `write()`
has accepted and what is taken out is what the peer has received in sequence.

### TcpSeq

The code compares sequence numbers as unsigned integers, without regard to the
wrap at 2^32. `TcpSeq` repeats the parts of input and output that compare or
store them (`tcp_synsent`, `tcp_verify_segment`, `tcp_clean_rto_queue`, the two
receive queues, `tcp_queue_transmit_skb`, `tcp_send_next`) with arithmetic
modulo `MOD`, next to the true positions of the bytes, and adds
`tcp_calculate_sacks` and `tcp_write_options`. A connection carries data in one
direction; retransmission is left to `Tcp`: what was sent arrives at some time.

### SocketLife

A step is what a thread does without waiting for a lock. Each socket has an IPC
thread for its calls; further threads poll it; the core thread looks it up for
a segment; the retransmission, linger and collector timers start threads; main
aborts at exit. Between a look-up and the lock, between releasing the socket lock
and sleeping, between the wake-up and each of the two locks, anything may
happen. The struct socket and the struct sock are freed separately, as in the
code, and a thread that gets the lock of a socket whose struct sock is gone is
recorded (`TouchFreed`, `uaf`). What TCP does is reduced to six phases and to which
timers it starts and stops. Choices: `socket_rd_acquire` takes the write lock in
the code, so there are no readers; the long timers (ten seconds and more) fire
only when no thread is in the middle of something (`Quiet`); the delayed
acknowledgment's timer, simultaneous open and calls that begin after the exit
are left out; sleeping in `read()` is one step with giving up the lock.

### Ipc

A connection is two queues of items. A message is one item, or three if it is a
write longer than the server's buffer: a head that fills the buffer and a tail
that may arrive in two pieces. A `read()` takes the first item and any number of
those behind it, which is what a byte stream allows. The library is one process
with several threads, all of which may use a socket and which share the list of
sockets; the process may die at any time. What a call answers is left out, whose
call it was is kept; of an answer to `poll()`, also whether there was an event.

Two calls wait for the peer in the stack, without looking at the connection to the
client: `read()`, and `poll()` without a timeout, whose loop in `_poll` goes on until
there is an event (`Blocks`). `poll()` has three forms: with a timeout, and then it
is answered in any case; without one for a socket of the stack (`"pollwait"`); and
without one for descriptors of the kernel as well (`"pollboth"`), which the library
turns into polls of 100 ms until one finds something (`PollAgain`). All ask for
something to read: room to write is there from the establishment on, so that
to ask for it is answered at once, as with a timeout. After a failed `socket()` the library's list holds a freed
entry, and the model says nothing of the calls that follow.

### Ip

A datagram is its bytes. Byte, word and accumulator are scaled down together (4, 16
and 256 values for 2^8, 2^16 and 2^32), which keeps what the properties are about:
two bytes to a word, two words to the accumulator, an address as wide as the
accumulator, carries at each width. A header is five words, the ones that are
tested or answered. The length of a datagram is the number of its bytes, that
is, the length field is assumed to be true; bytes behind it are zero.

### Timer

A timer is a record per address. The user of the socket's pointers arms,
cancels and releases (`BeginDrop` takes the timer's lock, `timer_cancel` or
`timer_release` ends the call); the timer thread takes the list lock, visits the
timers one by one and skips those whose lock is held. Addresses are used again
after a free.

### Arp

The core thread receives ARP packets in up to four steps (lookup with the first
half of an update, the rest of the update, insert and decide, write the answer),
and any thread may send in between. A hardware address is two halves, so that
the copy in `netdev_transmit`, which is made without the lock through the
pointer `arp_get_hwaddr` returned, can see half an update. Each half records
which host it came from and how often that host had changed its address.

## 3. The runs

Times are for two workers.

| run | asks | instance | states |
|---|---|---|---|
| `MCTcpConnect` | does `connect()` return, is a closed socket released | peer accepts, refuses or is silent; one byte; all timers; fairness | 24 thousand, 30 s |
| `MCTcpUpload` | is what we send counted and timed; is it a byte stream for the peer | 5 bytes in writes of 1 and 3, segments of 1; two late handlers of a kind | 70 thousand, 20 s |
| `MCTcpDownload` | is what we read a byte stream; does poll() tell the truth; does a reader sleep on data | 3 bytes and FIN, window 2, reads of 2, blocking and not | 286 thousand, 130 s |
| `MCTcpClose` | is every end of a connection guarded by a timer and in the diagram | one byte, each way of closing, a refusal, resets, all timers | 343 thousand, 45 s |
| `MCTimer` | pointers, handlers, reclaiming | 3 timers, 2 pointers, delays 0 and 1; fairness | 41 thousand, 12 s |
| `MCArp` | where frames go, what the table holds, is a neighbour resolved | gateway and another neighbour, gateway changes its address once; core and application send on-link and through the gateway; fairness | 290 thousand, 80 s |
| `MCSocketLife` | deadlock, reference counts, freeing once and always, late timers | one socket with its IPC thread, a poller, core, three timer threads, main; spurious wake-ups; fairness | 541 thousand, 140 s |
| `MCIpc` | are requests and answers matched, are writes whole, do calls return and threads end | two threads sharing one connection, a crash, reads and polls that wait; fairness | 302 thousand, 105 s |
| `MCIp` | which wrong headers pass, is an echo exact, when is a segment's checksum right | 3 sources, 5 options, messages of even and odd length, 3 x 15 addresses | 49 thousand, 10 s |
| `MCTcpSeq` | what plain comparisons of wrapping numbers do | numbers modulo 20, window 4, 2 SACK blocks, 5 bytes, 6 initial numbers for each side; fairness | 23 thousand, 15 s |

The bounds are the smallest at which the interesting cases happen: five bytes
give a flight of three with more behind it; three bytes can be cut into
overlapping segments and leave a gap with something beyond it; a window of two
lets a segment fall outside it; two handler threads of a kind let one be late
and one be current; three timers and two pointers let a freed address be
handed out while another is being cancelled. `RTO_MAX` and `TCP_CONN_RETRIES` are
small so that giving up is reached. One socket is enough for `SocketLife`: sockets
share the list's lock, which is never held while waiting for anything but one
socket lock, and threads otherwise work on one socket at a time. Two threads on one
connection are what mixes messages in `Ipc`. Modulo 20 with a window of 4 and 5
bytes leaves both sides of the wrap further apart than a window and a transfer
together (`SeqAssumption`), as 2^32 does; the initial numbers put the wrap before,
inside, at each end of and behind the transfer and its window, and include 0.

The TCP runs, `MCSocketLife` and `MCIpc` do not check for deadlock: a connection's
life ends with the release of its socket, the process with its exit, and an
application may stop calling. `NoDeadlock` and the liveness properties say what
must not get stuck.

Some properties state their exceptions, because the code has them:

- `NoDeadlock` excepts a spurious wake-up of `connect()` and the exit. After either
  a thread can hold `sleep.lock` and wait for the socket lock whose holder waits for
  `sleep.lock` in `wait_wakeup`. Without them the order of the two locks in
  `inet_stream_connect` does no harm, because whoever wakes the sleeper has had
  `sleep.lock` before the sleeper gets it back, and takes it once.
- `FreedOnce` excepts `connect()` on a socket that was given up; `FreedUses` says which
  handlers can meet a freed struct sock: timers started after `tcp_done`, timers
  released while they ran, and handlers already waiting for the lock when a
  failed `connect()` frees at once.
- `OwnAnswer`, `WrittenWhole`, `NoOrphan` and `CallsReturn` except connections that two
  threads use at once and those whose long writes arrive in pieces: there, answers
  are swapped and requests lost. A crash of the client leaves its socket open.
- `CallsReturn` and `ThreadsEnd` except a `read()`, and a `poll()` without a timeout,
  for which the peer will never have anything (`data[c] = "none"`: nothing there,
  nothing asked for). Such a call does not return, and its thread in the stack
  stays for ever when the client dies. One whose answer is on the way returns.
- `Transferred` is about connections whose numbers do not wrap, whose window does
  not reach over the wrap and whose own initial number is not 0. Others can stall;
  none takes or forgets anything wrong (`StreamInOrder`, `KeptUntilReceived`).
- `HeaderErrorCaught` excepts the bits of `ihl`, which decide how much is summed.
- `UnackedTimed` and `WritesStream` are checked with a peer that acknowledges and
  sends nothing itself (`UploadsTimed` is the theorem). With data of its own in flight, an acknowledgment can ride
  on a segment that is not the expected one; then `inflight` drops to 0 with unsent
  buffers queued, the next call overtakes them, and both properties fail. That
  is the disagreement `MCTcpFinLast` shows.
- `Guarded` and `ConnectReturns` exclude simultaneous open, where the code sets no
  user timeout and wakes nobody.

Two runs show that the code does not do what a comment or a document of the
repository says; each checks one statement and TLC finds it violated:

| run | statement | what happens |
|---|---|---|
| `MCTcpFinLast` | "Queue this until all preceding SENDs have been segmentized" (`tcp.c`) | the FIN goes out before queued data |
| `MCIpCarry` | the checksum is the Internet checksum of the pseudo header and the data (`doc/03.md`, `utils.c`) | a carry out of the 32 bits is lost: with the address 10.0.0.4 every segment to a peer whose last byte is 252 or more is wrong |

### Fairness

- Timer thread: it runs for ever, so every armed timer is visited (`Expire`,
  `TickBegin`, `TickVisit`, `TickEnd`: weak fairness). `ExpireUnowned` is strongly
  fair: the garbage collector's timer fires ten seconds after `socket_delete`
  whatever happens, and its guard, which keeps it after the threads that already
  waited for the lock, may be false for moments in between.
- A thread that waits for the socket lock gets it and a thread that holds a lock
  goes on (`RunHandler`, `ConnectWoken`, `CopySkb`, ...: weak fairness).
- In `Arp` the core thread comes back to the tap device however often it also
  sends, and of the link only this is assumed: a neighbour asked infinitely
  often answers infinitely often (strong fairness). Senders are not assumed to
  retry; `Resolved` is about neighbours that are asked for again and again.
- In `SocketLife` only the collector is fair, and strongly: its timer fires ten
  seconds after `socket_delete`, at a moment when no thread is in the middle of
  something. `Collected` supposes that such moments come again and again, and
  says nothing of a socket whose threads are deadlocked.
- In `Ipc` threads that can go on do so: those of the application that are in a
  call, the listener, and the thread of each connection. The peer answers what
  was written to it. Nobody has to make another call.
- In `TcpSeq` the peer retransmits what is missing, with its latest
  acknowledgment, and receives what was sent; the application writes on.
- Nothing is assumed of the peer, the network or the application in the TCP runs.

## 4. The proofs

All theorems hold for every value of the constants under the assumptions named
in the modules; TLC evaluates them in the runs.

| assumption | what it says |
|---|---|
| `TcpConstants`, `TcpRunConstants` | numbers are naturals; the window, the segment size and the initial sequence number are not 0 |
| `TimerConstants` | delays are naturals; the null pointer is not an address |
| `SocketLifeConstants`, `NoThreadApart` | finitely many sockets, at least one, and finitely many pollers; "no thread" is not a thread |
| `ArpConstants` | our two addresses are not neighbours', the gateway is a neighbour, and what lies behind it is apart from all of these and from the loopback addresses; the core is one of the sending threads |
| `SeqAssumption` | the modulus is more than twice the window and the transfer together, an acknowledgment has room for a SACK block, initial numbers are below the modulus |
| `IpcConstants` | finitely many threads and connections, at least one thread; "no connection" is not a connection |

Each proof has an inductive invariant, lemmas on what each operation does to it,
and lemmas on the steps, one per action or group of actions.

- `TimerProofs`: `TypeCorrect`, `NoDanglingTimer` (`Spec => []PointersCounted`) and
  `HandlerStartedOnce` (`Spec => []StartedOnce`). The inductive invariant adds to
  the two properties the types, and that a timer that is armed and not
  cancelled has started nothing, so that the walk's test of `cancelled` is a test
  of the history.
- `TcpTypeProofs`: `TypeCorrect` (`Spec => []TypeOK`), one lemma per function of the
  code and one per action. The types are strengthened by `Fresh`: until `connect()`
  is called the socket is as it was allocated and nothing was delivered.
  Most lemmas prove `Keeps`, which is the types and also that an operation that
  receives no data leaves the receive side alone; the next proof rests on it.
- `TcpStreamProofs`: `StreamInOrder` (`Spec => []InOrder`). `InOrder` speaks of what
  was read and says nothing of the queues it came from. The inductive invariant
  `StreamInv` says that the receive queue holds, without a gap, the bytes that
  follow those delivered; that every buffer of the out-of-order queue lies where
  its sequence number says (that queue may overlap and need not be sorted);
  and that in the states that still accept data `rcv_nxt` is where the receive
  queue ends. A buffer is accepted only at `rcv_nxt`, which closes the argument.
- `TcpStreamProofs`, second part: `ReadersWoken` (`NoLostWakeup`) and `PollTruthful`
  (`PollTellsTruth`) while the connection is not in CLOSING or TIME_WAIT, and of
  every behaviour `SleepersHaveNoData` and `DataIsPolled`, which no run states. The
  queue, the poll events, the FIN flag and the reader's sleep change at different
  places; `ReadOK` says how they fit together. Its core is that the FIN is counted
  only at the true end of the peer's stream (`AtEnd`: `rcv_nxt` has passed every byte
  and the FIN), since a FIN is accepted only in a segment that is expected, and
  that CLOSE_WAIT and LAST_ACK are entered in no other way. `SameRead` is what
  the functions do that serve the sending side and the timers. The exception is
  the code's: `tcp_done` puts a socket it gives up in CLOSING, or leaves it to
  TIME_WAIT, and from there a later segment may raise the flag of a stream that
  `recv_notify` was never called for.
- `TcpStreamProofs`, third part: `UploadsTimed` (`UnackedTimed`, for peers that send
  neither data nor a FIN and do not open simultaneously: `OneWay`). `FlightOK`: the
  transmitted buffers come first in the write queue, so that the oldest buffer,
  which `OldestTimed` finds timed, stands for all of them; and in the states that
  accept text nothing waits when nothing is in flight, so that no call of `tcp_send`
  overtakes a queued buffer. `OneWay` is needed for the second half: every segment of
  such a peer is the expected one, so that whatever empties the flight is followed by
  `tcp_send_next`.
- `TcpStreamProofs`, fourth part: the refinement of `ByteStream` by what `read()` gives.
  `ReadsStepwise` holds of every behaviour: each step of the connection is a step of
  the abstract stream or leaves it alone, as long as the connection is not in
  CLOSING or TIME_WAIT while the application still has it open. `ReadsAreStream`
  is the property `ReadsStream` itself, for behaviours in which that does not
  happen: no reset and no timeout ends a connection before `close()`. `DataNow`
  adds to the invariant that only bytes the peer has sent are queued, so that each
  copy is a `Take` that the abstract stream allows, and that the PSH flag is set
  only while a reader copies; `EofOK` that a 0 was returned only when all was read,
  and `UnclosedNow` that no FIN is queued and no state of ours is one of closing
  before `close()`.
- `TcpConnProofs`, first part: `InflightCounted` (`Spec => []InflightCount`) and
  `DiagramFollowed` (`Spec => FollowsDiagram`). `inflight` is a counter that four
  functions change and the write queue is what it should count, so the lemmas
  are about cardinalities: what appending, sending, and cutting off a prefix do
  to the set of transmitted buffers. The invariant `ConnInv` adds that the
  socket never goes back to CLOSE, and that `snd_nxt` is not 0, since a buffer
  counts as transmitted when its sequence number is not 0.
- `TcpConnProofs`, second part: `ConnectionsGuarded` (`Guarded` in every behaviour
  without simultaneous open) and `OldestTimed`, which no run states: the oldest
  buffer of the write queue, once transmitted, has a retransmission timer of
  the kind that its state asks for. Neither is inductive, because a handler may
  come late, find a later timer in `tsk->retransmit` and drop the pointer to it.
  `LifeInv` therefore says also that a timer that has fired and is still pointed
  to has a handler that has not run (`SlotOK`), that in SYN_SENT the SYN and nothing
  else is queued (`SynOK`: so its acknowledgment empties the queue, and no buffer
  is left with a timer for SYN_SENT only), and that a socket marked for deletion
  has its collector (`DeletedOK`: `socket_delete` returns early for a marked
  socket, and `tcp_done` relies on that). `Steady` is what most functions do to
  these timers: they take none away.
- `SocketLifeProofs`: `TypeCorrect` and `ReferencesCounted` (`Spec => []RefcntExact`).
  `refcnt` is changed when a lock is taken and when it is given up, at places far
  apart, so the inductive invariant says from its place in the code which thread
  has the lock (`HoldsLock`), which call it can be in and at which place of it
  (`Roles`), and that a thread works on a socket that lives (`Targets`).
- `SocketLifeProofs`, second part: `SocketsFreedOnce` (`FreedOnce`), `CancelledTimersSafe`
  (`FreedUses`) and `NoCircularWait` (`NoDeadlock`). Two threads may set out to free
  a socket, the one in `connect()` and the collector; what keeps them apart is not
  a lock but which of them has decided first, and that the collector never sets
  to work while `connect()` waits. `FreeInv` says this of one socket (`FreesOk`,
  `GivenUpOk`), which timers can be there in each phase of `connect()`
  (`ConnectingOk`, `TimedOk`), who has the two locks (`LocksOk`), and, for the
  deadlock, that a sleeper woken by a `wait_wakeup` finds nobody else who waits for
  `sleep.lock`. A circle of waiting threads would have to pass through that lock.
- `ArpProofs`: `TypeCorrect`, `FramesAddressed` (`FrameAddressed`) and
  `EntriesCurrent` (`EntryCurrent`). The invariant: a host has one entry at most;
  all bytes of an entry come from its host, whether old or new; only the entry
  being updated may differ from the last announcement; and `arp_rcv`, between its
  steps, still has the right entry or still finds none.
- `TcpSeqProofs`: `ReceivedInOrder` (`StreamInOrder`), `KeptForThePeer`
  (`KeptUntilReceived`), `SacksTellTheQueue` (`SackTells`) and `OnlyAheadIsKept`
  (`OfoAhead`), for every modulus. `SeqInv` ties each number to the position it stands
  for: those of the buffers in both receive queues and of the transmitted part of the
  write queue, and `rcv_nxt` and `snd_nxt`. A comparison of two numbers is then a
  comparison of positions, unless the wrap lies between them. The
  lemmas show what the code does in that case: an old segment has a number
  above the window and is refused, a window that reaches over the wrap accepts too
  little, and a buffer whose end has wrapped stays longer in the write queue
  (`SynHeld` is the extreme: a SYN with number 0 stays for good). What
  `tcp_calculate_sacks` makes of the queue is shown by a counterexample of least length:
  if a claim about the rounds of its loop failed, it would fail first in some round.
- `IpcProofs`: `AnswersOwn` (`OwnAnswer`), `WritesWhole` (`WrittenWhole`) and
  `NoneOrphaned` (`NoOrphan`), for connections that one thread at a time uses and
  whose long writes arrive whole. The invariant says where the one request of
  such a connection is: still to be sent, in the connection, with the
  server's thread, or answered; and that nothing else is under way.

Only model-checked:

- Liveness (`ConnectReturns`, `ClosedIsFreed`, `Reclaimed`, `FiresOrCancelled`,
  `Resolved`, `Collected`, `CallsReturn`, `ThreadsEnd`, `Transferred`): out of the
  prover's reach.
- `WritesStream`: not a theorem of `Spec`. It fails in two ways. With traffic in both
  directions a later buffer overtakes an unsent one, as section 3 says. And a
  retransmission handler that waits for the lock while the user timeout aborts the
  connection finds `snd_una` moved up to `snd_nxt` by `tcp_send_reset`: it sends the
  head of the queue again under that number, and a peer that has not seen the reset
  takes the bytes twice. `MCTcpUpload` has neither, and checks it there.
- `UnackedTimed`, `NoLostWakeup`, `PollTellsTruth` and `ReadsStream` outside the
  hypotheses of their theorems: they fail there. `NoLostWakeup` and `ReadsStream`, for
  example, fail when a user timeout expires: `tcp_done` wakes a sleeping `connect()`
  but no reader, which sleeps on while later segments set the FIN flag, and a
  `read()` begun after the timeout returns 0 as at the end of the stream. What
  `read()` delivers is in order whatever expires (`StreamInOrder`).
- The properties of `Ip`: they are about sums over the words of a datagram, and what
  a fold computes for every input needs induction over data; and about bytes of
  a fixed small width.

## 5. Not modelled

- Ticks that wrap around after 25 days (`timer.c`): the timers count what is left.
- The listening side of TCP: `tcp_listen` is a stub, there is no accept.
- Several threads in one socket of module `Tcp` (`SocketLife` has a poller beside
  the caller); the MSS option and urgent data.
- The length field of a datagram that does not tell the truth, fragments
  (the code does not look at either), byte order.
- The events of the kernel's descriptors in a `poll()` of both kinds: in `Ipc` such a
  `poll()` may return after any round. A `poll()` of several sockets of the stack at
  once (it waits until one of them has an event). Calls the library only passes on
  to the kernel; `fork`.
- `connect()` in `Ipc`: it is answered like the other queries. That it returns is the
  property `ConnectReturns` of `Tcp`, with its exception of simultaneous open.
- Start-up, command line, the tap device, address parsing, the example programs:
  input and output, or code outside the stack.

## 6. Plan

Done, in this order: `TcpSock`, `TcpOutput`, `TcpInput`, `Tcp`, the proofs of type
correctness and of the stream, `Timer` and its proofs, `Arp`; then `ByteStream` and
`TcpStreams`, `SocketLife`, `Ipc`, `Ip`, `TcpSeq`; then the proofs about `SocketLife`,
`Arp`, `Ipc`, and about the sending side and the timers of `Tcp`; last, `TcpSeq` for
every modulus, the reader, the uploads and the refinement of `ByteStream` by
`read()`.

Left:

1. `WritesStream` for a peer that sends nothing and behaviours in which no
   user timeout expires. The invariant would say of the write queue, of what was sent
   and of what the peer has that each is a piece of the one stream, cut at the same
   places, and that `snd_una` is where the queue begins.
2. A clock of limited width in `Timer`, and a second thread in one socket of `Tcp`.

## 7. Disagreements without a run of their own

Met while modelling, reproduced with earlier runs of module `Tcp`, and still
behaviours of the model:

- `tcp_input.c:359` says "If the write queue is empty, it means our FIN was acked".
  `end_seq` of the FIN's buffer does not count the FIN (`tcp_output.c:146-150`), so it
  leaves the queue with the last byte before it: FIN_WAIT_2 is entered, and the
  FIN no longer retransmitted, before the peer has it.
- `tcp.c:278-279` says "then send a FIN segment, enter LAST_ACK state"; `tcp_close` in
  CLOSE_WAIT only queues the FIN. LAST_ACK is entered if the FIN is retransmitted.
- `tcp.h:148-149` says that SYN_RECEIVED has answered with a SYN/ACK; `tcp_send_synack`
  refuses in any state but SYN_SENT, and the state was changed before the call.
- `tcp_input.c:478-480` says that an acknowledgment must not be delayed by more than
  half a second; an expected segment without data cancels the delayed one
  (line 475) and arms nothing.
- `doc/04.md:192` says that the application is told of unexpected behaviour through
  the socket API; a reset leaves a blocked reader asleep (`tcp_input.c:513-539`
  looks at neither state nor error), and its socket is freed under it.
- `doc/03.md:69` says that TCP discards a damaged segment; on input the checksum is
  not verified (`tcp.c:79-81` is commented out).
