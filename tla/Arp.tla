-------------------------------- MODULE Arp --------------------------------
(***************************************************************************)
(* The neighbour table (src/arp.c), the route to a next hop (src/route.c,  *)
(* src/dst.c, src/ip_output.c) and the device (src/netdev.c).              *)
(*                                                                         *)
(* The core thread reads the tap device and runs arp_rcv; the core, the    *)
(* application's threads and the timer handlers send packets.  The table   *)
(* has a lock, but arp_get_hwaddr hands out a pointer into an entry and    *)
(* netdev_transmit copies the six bytes later, without the lock: the copy  *)
(* and an update of the entry run against each other byte by byte.  A      *)
(* hardware address is modelled as two halves, each of which records the   *)
(* host it came from and how often that host had changed its address.      *)
(***************************************************************************)
EXTENDS Naturals, SequencesExt

CONSTANTS
    Hosts,      \* addresses on our own network
    Gateway,    \* tapaddr, the gateway of the default route
    Far,        \* addresses the default route leads to
    Loopback,   \* addresses in 127/8
    Dests,      \* the destinations the threads send to
    Us, Lo,     \* netdev->addr and loop->addr
    Threads,    \* threads that send packets
    Core,       \* the thread of netdev_rx_loop, one of them
    Movers,     \* hosts whose hardware address changes
    MaxMoves,   \* bound: how often a host changes its hardware address
    MaxAnnounced, \* bound: announcements waiting in the tap device
    NULL

ASSUME ArpConstants ==
    /\ Gateway \in Hosts /\ Core \in Threads
    /\ Dests \subseteq Hosts \cup Far \cup Loopback \cup {Us, Lo}
    /\ Us \notin Hosts /\ Lo \notin Hosts /\ Us # Lo
    /\ Movers \subseteq Hosts
    /\ MaxMoves \in Nat /\ MaxAnnounced \in Nat
    /\ Far \cap (Hosts \cup Loopback \cup {Us, Lo}) = {}
    /\ NULL \notin Hosts \cup Far \cup Loopback \cup {Us, Lo}

VARIABLES
    cache,      \* arp_cache
    rx,         \* arp_rcv in progress in the core thread
    snd,        \* netdev_transmit in progress, per thread
    asked,      \* ARP requests on the wire
    inbox,      \* ARP packets waiting in the tap device
    hw,         \* how often each host has changed its hardware address
    latest      \* the last address arp_rcv took from each host (history)

vars == << cache, rx, snd, asked, inbox, hw, latest >>

Addresses == Hosts \cup Far \cup Loopback \cup {Us, Lo}
Halves == (Hosts \cup {Us}) \X (0 .. MaxMoves)
Mac(host, n) == << <<host, n>>, <<host, n>> >>
Macs == Halves \X Halves

\* ok: hwtype is ARP_ETHERNET and protype is ARP_IPV4.
Packet == [op : {"request", "reply"}, ok : BOOLEAN, sip : Hosts \cup {Us},
           smac : Macs, dip : Hosts \cup {Us, Lo}, dmac : Macs \cup {NULL}]

Request == [sip : {Us, Lo}, dip : Addresses]
Entry == [sip : Hosts, smac : Macs]

Receiving == [pc : {"update", "merged", "absent", "reply"}, pkt : Packet,
              entry : Nat]
RxIdle == [pc |-> "idle", pkt |-> NULL, entry |-> 0]

Sending == [dst : Addresses, entry : Nat \ {0},
            dmac : (Halves \cup {NULL}) \X (Halves \cup {NULL})]
NotSending == [dst |-> NULL, entry |-> 0, dmac |-> << NULL, NULL >>]

\* Type correctness; an index stands for the address of an entry, so a thread
\* never holds the address of an entry that is not in the table.
TypeOK ==
    /\ cache \in Seq(Entry)
    /\ rx \in Receiving \cup {RxIdle}
    /\ snd \in [Threads -> Sending \cup {NotSending}]
    /\ \A t \in Threads : snd[t].entry <= Len(cache)
    /\ rx.entry <= Len(cache)
    /\ asked \subseteq Request
    /\ inbox \subseteq Packet
    /\ hw \in [Hosts -> 0 .. MaxMoves]
    /\ latest \in [Hosts -> Macs \cup {NULL}]

Init ==
    /\ cache = << >>
    /\ rx = RxIdle
    /\ snd = [t \in Threads |-> NotSending]
    /\ asked = {} /\ inbox = {}
    /\ hw = [h \in Hosts |-> 0]
    /\ latest = [h \in Hosts |-> NULL]

----------------------------------------------------------------------------
(* Sending *)

\* The routes in the order route_init adds them, the default route last.
Routes == << [net |-> Loopback \cup {Lo}, gateway |-> NULL, addr |-> Lo],
             [net |-> Hosts \cup {Us},    gateway |-> NULL, addr |-> Us],
             [net |-> Addresses,          gateway |-> Gateway, addr |-> Us] >>

route_lookup(daddr) ==
    LET i == SelectInSeq(Routes, LAMBDA rt : daddr \in rt.net)
    IN  Routes[IF i = 0 THEN Len(Routes) ELSE i]

NextHop(daddr) == LET rt == route_lookup(daddr)
                  IN  IF rt.gateway # NULL THEN rt.gateway ELSE daddr

Locked == rx.pc = "update"

\* A lookup that takes the newest entry, whoever it is for.
GetLastHwaddr(ip) == Len(cache)

\* A lookup that ends on the list's head and takes it for an entry.
GetHead(ip) == LET i == SelectInSeq(cache, LAMBDA e : e.sip = ip)
               IN  IF i = 0 THEN Len(cache) + 1 ELSE i

arp_get_hwaddr(ip) == SelectInSeq(cache, LAMBDA e : e.sip = ip)

arp_request(sip, dip) == asked' = asked \cup {[sip |-> sip, dip |-> dip]}

\* ip_output and dst_neigh_output: without an address for the next hop a
\* request goes out and the packet is dropped, "retry later".
ip_output(t, daddr) ==
    /\ snd[t] = NotSending /\ (t = Core => rx = RxIdle)
    /\ ~Locked
    /\ LET hop == NextHop(daddr)
           i == arp_get_hwaddr(hop)
       IN  \/ /\ i # 0
              /\ snd' = [snd EXCEPT ![t] = [dst |-> daddr, entry |-> i,
                                            dmac |-> << NULL, NULL >>]]
              /\ UNCHANGED asked
           \/ /\ i = 0
              /\ arp_request(route_lookup(daddr).addr, hop)
              /\ UNCHANGED snd
    /\ UNCHANGED << cache, rx, inbox, hw, latest >>

\* netdev_transmit copies the address it was given a pointer to, without the
\* lock and in any order ...
CopyHalf(t, b) ==
    /\ snd[t].entry # 0 /\ snd[t].dmac[b] = NULL
    /\ snd' = [snd EXCEPT ![t].dmac[b] = cache[snd[t].entry].smac[b]]
    /\ UNCHANGED << cache, rx, asked, inbox, hw, latest >>

Addressed(t) == snd[t].entry # 0 /\ \A b \in 1 .. 2 : snd[t].dmac[b] # NULL

\* ... and writes the frame to the tap device.
netdev_transmit(t) ==
    /\ Addressed(t)
    /\ snd' = [snd EXCEPT ![t] = NotSending]
    /\ UNCHANGED << cache, rx, asked, inbox, hw, latest >>

----------------------------------------------------------------------------
(* Receiving *)

arp_entry_alloc(p) == [sip |-> p.sip, smac |-> p.smac]

\* An update that always reports that it found nothing to merge with.
UpdateUnmerged(p) ==
    /\ rx' = [pc |-> "absent", pkt |-> p, entry |-> 0]
    /\ UNCHANGED cache

\* Overwrites, under the lock, the address in the entry the sender already
\* has; the first of the two halves here, the other in UpdateRest.
update_arp_translation_table(p) ==
    LET i == SelectInSeq(cache, LAMBDA e : e.sip = p.sip)
    IN  \/ /\ i = 0
           /\ rx' = [pc |-> "absent", pkt |-> p, entry |-> 0]
           /\ UNCHANGED cache
        \/ /\ i # 0
           /\ \E b \in 1 .. 2 : cache' = [cache EXCEPT ![i].smac[b] = p.smac[b]]
           /\ rx' = [pc |-> "update", pkt |-> p, entry |-> i]

\* arp_rcv up to the end of its lookup; the network may deliver a packet
\* again.
arp_rcv(p) ==
    /\ rx = RxIdle /\ snd[Core] = NotSending
    /\ p \in inbox
    /\ inbox' \in {inbox, inbox \ {p}}
    /\ \/ ~p.ok /\ UNCHANGED << cache, rx, latest >>
       \/ /\ p.ok
          /\ update_arp_translation_table(p)
          /\ latest' = [latest EXCEPT ![p.sip] = p.smac]
    /\ UNCHANGED << snd, asked, hw >>

UpdateRest ==
    /\ rx.pc = "update"
    /\ cache' = [cache EXCEPT ![rx.entry].smac = rx.pkt.smac]
    /\ rx' = [rx EXCEPT !.pc = "merged"]
    /\ UNCHANGED << snd, asked, inbox, hw, latest >>

arp_reply(p) ==
    [p EXCEPT !.op = "reply", !.dmac = p.smac, !.dip = p.sip,
              !.smac = Mac(Us, 0), !.sip = Us]

ForUs(p) == p.dip = Us   \* netdev_get

\* Learns an address only from those who ask for ours.
InsertAskers(p) == rx.pc = "absent" /\ ForUs(p) /\ p.op = "request"

\* Learns an address from every packet for us that was not merged.
Inserts(p) == rx.pc = "absent" /\ ForUs(p)

insert_arp_translation_table ==
    cache' = IF Inserts(rx.pkt) THEN Append(cache, arp_entry_alloc(rx.pkt))
             ELSE cache

\* arp_rcv after its lookup: insert unless merged, answer a request for us,
\* drop anything else.
arp_rcv_rest ==
    /\ rx.pc \in {"merged", "absent"}
    /\ insert_arp_translation_table
    /\ rx' = IF ForUs(rx.pkt) /\ rx.pkt.op = "request"
             THEN [rx EXCEPT !.pc = "reply", !.pkt = arp_reply(rx.pkt)]
             ELSE RxIdle
    /\ UNCHANGED << snd, asked, inbox, hw, latest >>

\* The answer is written to the tap device.
TransmitReply ==
    /\ rx.pc = "reply"
    /\ rx' = RxIdle
    /\ UNCHANGED << cache, snd, asked, inbox, hw, latest >>

----------------------------------------------------------------------------
(* The other hosts and the wire: not in the repository *)

ArpFrom(h, op, ok, dip) ==
    [op |-> op, ok |-> ok, sip |-> h, smac |-> Mac(h, hw[h]), dip |-> dip,
     dmac |-> NULL]

\* A host asks for our address, or for somebody else's.
Announce(h, ok, dip) ==
    /\ Cardinality({p \in inbox : p.op = "request"}) < MaxAnnounced
    /\ dip # h /\ (ok \/ dip = Us)
    /\ inbox' = inbox \cup {ArpFrom(h, "request", ok, dip)}
    /\ UNCHANGED << cache, rx, snd, asked, hw, latest >>

Answer(q) ==
    /\ q \in asked /\ q.dip \in Hosts
    /\ inbox' = inbox \cup {ArpFrom(q.dip, "reply", TRUE, q.sip)}
    /\ asked' = asked \ {q}
    /\ UNCHANGED << cache, rx, snd, hw, latest >>

\* The request, or the answer to it, is lost, or nobody has the address.
Unanswered(q) ==
    /\ q \in asked
    /\ asked' = asked \ {q}
    /\ UNCHANGED << cache, rx, snd, inbox, hw, latest >>

Move(h) ==
    /\ hw[h] < MaxMoves
    /\ hw' = [hw EXCEPT ![h] = @ + 1]
    /\ UNCHANGED << cache, rx, snd, asked, inbox, latest >>

----------------------------------------------------------------------------

Next ==
    \/ \E t \in Threads, d \in Dests : ip_output(t, d)
    \/ \E t \in Threads, b \in 1 .. 2 : CopyHalf(t, b)
    \/ \E t \in Threads : netdev_transmit(t)
    \/ \E p \in inbox : arp_rcv(p)
    \/ UpdateRest \/ arp_rcv_rest \/ TransmitReply
    \/ \E h \in Hosts, ok \in BOOLEAN, dip \in Hosts \cup {Us} : Announce(h, ok, dip)
    \/ \E q \in asked : Answer(q) \/ Unanswered(q)
    \/ \E h \in Movers : Move(h)

Spec == Init /\ [][Next]_vars

ReplyArrives(h) == \E p \in inbox : p.sip = h /\ p.op = "reply" /\ arp_rcv(p)

\* Threads that copy an address or are in arp_rcv go on; the core thread
\* comes back to the tap device however often it also sends.  Of the network:
\* a host asked for ever answers at last.
Fairness ==
    /\ \A t \in Threads : /\ \A b \in 1 .. 2 : WF_vars(CopyHalf(t, b))
                          /\ WF_vars(netdev_transmit(t))
    /\ WF_vars(UpdateRest) /\ WF_vars(arp_rcv_rest) /\ WF_vars(TransmitReply)
    /\ \A h \in Hosts : /\ SF_vars(ReplyArrives(h))
                        /\ SF_vars(Answer([sip |-> Us, dip |-> h]))

FairSpec == Spec /\ Fairness

----------------------------------------------------------------------------
(* Properties *)

\* The host a packet to daddr has to be handed to: the destination when it is
\* on our network, the gateway when it is not, and nobody for 127/8.
Owner(daddr) == CASE daddr \in Hosts -> daddr
                  [] daddr \in Far -> Gateway
                  [] OTHER -> NULL

\* Every byte of the destination address of a frame came from the host the
\* frame is for: a packet is never handed to a host that is not its next hop,
\* and an answer goes to whoever asked, although netdev_transmit reads the
\* entry without the lock.
FrameAddressed ==
    /\ \A t \in Threads : Addressed(t) =>
          \A b \in 1 .. 2 : snd[t].dmac[b][1] = Owner(snd[t].dst)
    /\ rx.pc = "reply" =>
          \A b \in 1 .. 2 : rx.pkt.dmac[b][1] = rx.pkt.dip

\* arp_rcv merges or inserts, in two sections under the lock: an address has
\* one entry at most, and outside an update the entry holds what that host
\* announced last, whether the announcement was for us or not.
EntryCurrent ==
    /\ \A i, j \in DOMAIN cache : cache[i].sip = cache[j].sip => i = j
    /\ ~Locked => \A i \in DOMAIN cache : cache[i].smac = latest[cache[i].sip]

\* A neighbour that is asked for again and again, however many requests are
\* lost, is in the table at last: an answer is learned although arp_rcv goes
\* on to call its opcode "not supported".
Resolved ==
    \A h \in Hosts :
        []<>([sip |-> Us, dip |-> h] \in asked)
            => <>(\E i \in DOMAIN cache : cache[i].sip = h)

=============================================================================
