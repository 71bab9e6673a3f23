----------------------------- MODULE ArpProofs -----------------------------
(***************************************************************************)
(* Module Arp for any hosts, destinations and threads, and for any number  *)
(* of changes of a host's address: the neighbour table has one entry for   *)
(* a host, with the address the host announced last, and no byte of a      *)
(* frame's destination comes from a host that is not the next hop.         *)
(***************************************************************************)
EXTENDS Arp, TLAPS, WellFoundedInduction, SequenceTheorems

----------------------------------------------------------------------------
(* The inductive invariant *)

\* Both halves of hardware address m came from host h.
OfHost(m, h) == m[1][1] = h /\ m[2][1] = h

\* What waits in the tap device, and what arp_rcv works on, is from its sender;
\* an answer is for the one who asked.
PacketsOk ==
    /\ \A p \in inbox : p.sip \in Hosts /\ OfHost(p.smac, p.sip)
    /\ rx.pc \in {"update", "merged", "absent"} =>
          /\ rx.pkt.sip \in Hosts /\ OfHost(rx.pkt.smac, rx.pkt.sip)
          /\ latest[rx.pkt.sip] = rx.pkt.smac
    /\ rx.pc = "reply" => OfHost(rx.pkt.dmac, rx.pkt.dip)

\* Where arp_rcv stands with the table: it updates the sender's entry, or the
\* sender has none.
LookupOk ==
    /\ rx.pc = "update" => rx.entry \in DOMAIN cache /\ cache[rx.entry].sip = rx.pkt.sip
    /\ rx.pc = "absent" => \A i \in DOMAIN cache : cache[i].sip # rx.pkt.sip

\* The table: one entry for a host, never with a byte of another, and current
\* but for the entry that is being updated.
TableOk ==
    /\ \A i, j \in DOMAIN cache : cache[i].sip = cache[j].sip => i = j
    /\ \A i \in DOMAIN cache :
          /\ OfHost(cache[i].smac, cache[i].sip)
          /\ (rx.pc = "update" /\ rx.entry = i) \/ cache[i].smac = latest[cache[i].sip]

\* A thread has the address of the entry of its packet's next hop, and what it
\* copied is from there.
SendersOk ==
    \A t \in Threads : snd[t].entry # 0 =>
        /\ snd[t].entry \in DOMAIN cache
        /\ cache[snd[t].entry].sip = Owner(snd[t].dst)
        /\ \A b \in 1 .. 2 : snd[t].dmac[b] # NULL => snd[t].dmac[b][1] = Owner(snd[t].dst)

ArpInv == TypeOK /\ PacketsOk /\ LookupOk /\ TableOk /\ SendersOk

----------------------------------------------------------------------------
(* Lookups *)

\* The least-number principle.
LEMMA LeastIndex ==
    ASSUME NEW T, T \subseteq Nat, T # {}
    PROVE  Min(T) \in T /\ \A y \in T : Min(T) <= y
<1> DEFINE R == {ss \in Nat \X Nat : ss[1] < ss[2]}
<1>1. IsWellFoundedOn(R, Nat)
  BY NatLessThanWellFounded DEF OpToRel
<1> HIDE DEF R
<1>2. PICK x \in T : \A y \in T : ~ (<<y, x>> \in R)
  BY <1>1, WFMin
<1>3. \A y \in T : ~ (y < x)
  BY <1>2 DEF R
<1>4. \A y \in T : x <= y
  BY <1>3
<1> QED
  BY <1>4 DEF Min

\* The lookup of arp_get_hwaddr and update_arp_translation_table.
FirstOf(c, ip) == SelectInSeq(c, LAMBDA e : e.sip = ip)

\* A lookup in the table finds an entry of the address if there is one, and
\* says that there is none otherwise.
LEMMA LookupFinds ==
    ASSUME NEW c \in Seq(Entry), NEW ip
    PROVE  LET i == FirstOf(c, ip)
           IN  /\ i \in Nat /\ i <= Len(c)
               /\ i # 0 => i \in DOMAIN c /\ c[i].sip = ip
               /\ i = 0 => \A j \in DOMAIN c : c[j].sip # ip
<1> DEFINE I == {i \in 1 .. Len(c) : c[i].sip = ip}
<1>1. FirstOf(c, ip) = IF I # {} THEN Min(I) ELSE 0
  BY DEF FirstOf, SelectInSeq
<1>2. Len(c) \in Nat /\ DOMAIN c = 1 .. Len(c)
  OBVIOUS
<1>3. CASE I = {}
  BY <1>1, <1>2, <1>3
<1>4. CASE I # {}
  <2>0. I \subseteq Nat
    BY <1>2
  <2>1. Min(I) \in I
    <3> HIDE DEF I
    <3> QED
      BY <1>4, <2>0, LeastIndex
  <2>2. Min(I) \in 1 .. Len(c) /\ c[Min(I)].sip = ip
    BY <2>1
  <2>3. FirstOf(c, ip) = Min(I)
    BY <1>1, <1>4
  <2> QED
    BY <1>2, <2>2, <2>3
<1> QED
  BY <1>3, <1>4

\* The route of a destination and its next hop.
LEMMA RouteOf ==
    ASSUME NEW d \in Addresses
    PROVE  /\ route_lookup(d).addr \in {Us, Lo}
           /\ NextHop(d) \in Addresses
           /\ NextHop(d) \in Hosts => NextHop(d) = Owner(d)
<1> DEFINE I == {i \in 1 .. Len(Routes) : d \in Routes[i].net}
<1>1. SelectInSeq(Routes, LAMBDA rt : d \in rt.net) = IF I # {} THEN Min(I) ELSE 0
  BY DEF SelectInSeq
<1>2. /\ Len(Routes) = 3
      /\ Routes[1] = [net |-> Loopback \cup {Lo}, gateway |-> NULL, addr |-> Lo]
      /\ Routes[2] = [net |-> Hosts \cup {Us},    gateway |-> NULL, addr |-> Us]
      /\ Routes[3] = [net |-> Addresses,          gateway |-> Gateway, addr |-> Us]
  BY DEF Routes
<1>3. 3 \in I /\ I \subseteq Nat
  BY <1>2
<1>4. Min(I) \in I /\ \A y \in I : Min(I) <= y
  BY <1>3, LeastIndex
<1>5. route_lookup(d) = Routes[Min(I)] /\ Min(I) \in {1, 2, 3}
  BY <1>1, <1>2, <1>3, <1>4 DEF route_lookup
<1> HIDE DEF I
<1>6. CASE Min(I) = 1
  BY <1>2, <1>4, <1>5, <1>6, ArpConstants DEF NextHop, Addresses, Owner, I
<1>7. CASE Min(I) = 2
  BY <1>2, <1>4, <1>5, <1>7, ArpConstants DEF NextHop, Addresses, Owner, I
<1>8. CASE Min(I) = 3
  <2>1. d \notin Loopback \cup {Lo} /\ d \notin Hosts \cup {Us}
    BY <1>2, <1>4, <1>8 DEF I
  <2>2. d \in Far
    BY <2>1 DEF Addresses
  <2>3. Gateway # NULL /\ Gateway \in Hosts
    BY ArpConstants
  <2> QED
    BY <1>2, <1>5, <1>8, <2>1, <2>2, <2>3 DEF NextHop, Addresses, Owner
<1> QED
  BY <1>5, <1>6, <1>7, <1>8

----------------------------------------------------------------------------
(* Hardware addresses *)

\* Hardware addresses and their halves.
LEMMA MacParts ==
    /\ \A m \in Macs : m[1] \in Halves /\ m[2] \in Halves /\ DOMAIN m = 1 .. 2
    /\ \A m \in Macs, k \in Macs : \A b \in 1 .. 2 :
          /\ [m EXCEPT ![b] = k[b]] \in Macs
          /\ \A h : OfHost(m, h) /\ OfHost(k, h) => OfHost([m EXCEPT ![b] = k[b]], h)
    /\ \A h \in Hosts \cup {Us}, n \in 0 .. MaxMoves :
          Mac(h, n) \in Macs /\ OfHost(Mac(h, n), h)
<1>1. \A m \in Macs : m[1] \in Halves /\ m[2] \in Halves /\ DOMAIN m = 1 .. 2
  BY DEF Macs
<1>2. ASSUME NEW m \in Macs, NEW k \in Macs, NEW b \in 1 .. 2
      PROVE  /\ [m EXCEPT ![b] = k[b]] \in Macs
             /\ \A h : OfHost(m, h) /\ OfHost(k, h) => OfHost([m EXCEPT ![b] = k[b]], h)
  <2>1. b = 1 \/ b = 2
    OBVIOUS
  <2>2. CASE b = 1
    <3>1. [m EXCEPT ![b] = k[b]] = << k[1], m[2] >>
      BY <2>2 DEF Macs
    <3> QED
      BY <1>1, <3>1 DEF Macs, OfHost
  <2>3. CASE b = 2
    <3>1. [m EXCEPT ![b] = k[b]] = << m[1], k[2] >>
      BY <2>3 DEF Macs
    <3> QED
      BY <1>1, <3>1 DEF Macs, OfHost
  <2> QED
    BY <2>1, <2>2, <2>3
<1>3. \A h \in Hosts \cup {Us}, n \in 0 .. MaxMoves :
          Mac(h, n) \in Macs /\ OfHost(Mac(h, n), h)
  BY DEF Mac, Macs, Halves, OfHost
<1> QED
  BY <1>1, <1>2, <1>3

----------------------------------------------------------------------------
(* The other hosts and the wire *)

\* An ARP packet of another host is well formed and has its sender's address.
LEMMA ArpFromOk ==
    ASSUME TypeOK, NEW h \in Hosts, NEW o \in {"request", "reply"}, NEW ok \in BOOLEAN,
           NEW d \in Hosts \cup {Us, Lo}
    PROVE  LET p == ArpFrom(h, o, ok, d)
           IN  p \in Packet /\ p.sip = h /\ OfHost(p.smac, h)
<1> DEFINE m == Mac(h, hw[h])
<1>1. m \in Macs /\ OfHost(m, h)
  BY MacParts DEF TypeOK
<1> HIDE DEF m
<1>2. [op |-> o, ok |-> ok, sip |-> h, smac |-> m, dip |-> d, dmac |-> NULL] \in Packet
  BY <1>1 DEF Packet
<1> QED
  BY <1>1, <1>2 DEF ArpFrom, m

\* What the other hosts send and lose, and a host that changes its address.
LEMMA WireStep ==
    ASSUME ArpInv,
           \/ \E h \in Hosts, ok \in BOOLEAN, dip \in Hosts \cup {Us} : Announce(h, ok, dip)
           \/ \E q \in asked : Answer(q) \/ Unanswered(q)
           \/ \E h \in Movers : Move(h)
    PROVE  ArpInv'
<1>0. UNCHANGED << cache, rx, snd, latest >>
  BY DEF Announce, Answer, Unanswered, Move
<1>1. /\ inbox' \subseteq Packet
      /\ \A p \in inbox' : p.sip \in Hosts /\ OfHost(p.smac, p.sip)
  <2>0. inbox \subseteq Packet /\ \A p \in inbox : p.sip \in Hosts /\ OfHost(p.smac, p.sip)
    BY DEF ArpInv, TypeOK, PacketsOk
  <2>1. CASE \E h \in Hosts, ok \in BOOLEAN, dip \in Hosts \cup {Us} : Announce(h, ok, dip)
    <3>1. PICK h \in Hosts, ok \in BOOLEAN, dip \in Hosts \cup {Us} : Announce(h, ok, dip)
      BY <2>1
    <3> DEFINE p == ArpFrom(h, "request", ok, dip)
    <3>2. inbox' = inbox \cup {p}
      BY <3>1 DEF Announce
    <3>3. p \in Packet /\ p.sip = h /\ OfHost(p.smac, h)
      BY ArpFromOk DEF ArpInv
    <3> HIDE DEF p
    <3> QED
      BY <2>0, <3>2, <3>3
  <2>2. CASE \E q \in asked : Answer(q)
    <3>1. PICK q \in asked : Answer(q)
      BY <2>2
    <3>2. q.dip \in Hosts /\ q.sip \in {Us, Lo}
      BY <3>1 DEF Answer, ArpInv, TypeOK, Request
    <3> DEFINE p == ArpFrom(q.dip, "reply", TRUE, q.sip)
    <3>3. inbox' = inbox \cup {p}
      BY <3>1 DEF Answer
    <3>4. p \in Packet /\ p.sip = q.dip /\ OfHost(p.smac, q.dip)
      BY <3>2, ArpFromOk DEF ArpInv
    <3> HIDE DEF p
    <3> QED
      BY <2>0, <3>2, <3>3, <3>4
  <2>3. CASE (\E q \in asked : Unanswered(q)) \/ (\E h \in Movers : Move(h))
    BY <2>0, <2>3 DEF Unanswered, Move
  <2> QED
    BY <2>1, <2>2, <2>3
<1>2. asked' \subseteq Request
  <2>1. asked' \subseteq asked
    BY DEF Announce, Answer, Unanswered, Move
  <2> QED
    BY <2>1 DEF ArpInv, TypeOK
<1>3. hw' \in [Hosts -> 0 .. MaxMoves]
  <2>0. hw \in [Hosts -> 0 .. MaxMoves] /\ MaxMoves \in Nat
    BY ArpConstants DEF ArpInv, TypeOK
  <2>1. CASE \E h \in Movers : Move(h)
    <3>1. PICK h \in Movers : Move(h)
      BY <2>1
    <3>2. h \in Hosts /\ hw[h] + 1 \in 0 .. MaxMoves
      BY <2>0, <3>1, ArpConstants DEF Move
    <3> QED
      BY <2>0, <3>1, <3>2 DEF Move
  <2>2. CASE ~ \E h \in Movers : Move(h)
    BY <2>0, <2>2 DEF Announce, Answer, Unanswered
  <2> QED
    BY <2>1, <2>2
<1>4. TypeOK'
  BY <1>0, <1>1, <1>2, <1>3 DEF ArpInv, TypeOK
<1>5. PacketsOk' /\ LookupOk' /\ TableOk' /\ SendersOk'
  BY <1>0, <1>1 DEF ArpInv, PacketsOk, LookupOk, TableOk, SendersOk
<1> QED
  BY <1>4, <1>5 DEF ArpInv

----------------------------------------------------------------------------
(* Sending *)

\* What a thread that sends holds.
LEMMA SenderParts ==
    /\ \A r \in Sending \cup {NotSending} : r.entry # 0 => r \in Sending
    /\ NotSending.entry = 0
    /\ \A r \in Sending : /\ r.entry \in Nat \ {0} /\ r.dst \in Addresses
                          /\ r.dmac \in (Halves \cup {NULL}) \X (Halves \cup {NULL})
  BY DEF Sending, NotSending

\* A step that changes what one thread holds and nothing else but requests.
LEMMA SenderStep ==
    ASSUME ArpInv, NEW t \in Threads, NEW r \in Sending \cup {NotSending},
           snd' = [snd EXCEPT ![t] = r], asked' \subseteq Request,
           UNCHANGED << cache, rx, inbox, hw, latest >>,
           r.entry # 0 =>
              /\ r.entry \in DOMAIN cache /\ cache[r.entry].sip = Owner(r.dst)
              /\ \A b \in 1 .. 2 : r.dmac[b] # NULL => r.dmac[b][1] = Owner(r.dst)
    PROVE  ArpInv'
<1>1. snd' \in [Threads -> Sending \cup {NotSending}]
  BY DEF ArpInv, TypeOK
<1>2. snd'[t] = r /\ \A u \in Threads \ {t} : snd'[u] = snd[u]
  BY DEF ArpInv, TypeOK
<1>3. r.entry <= Len(cache)
  <2>1. cache \in Seq(Entry)
    BY DEF ArpInv, TypeOK
  <2>2. Len(cache) \in Nat /\ DOMAIN cache = 1 .. Len(cache)
    BY <2>1
  <2> QED
    BY <2>2
<1>4. TypeOK'
  BY <1>1, <1>2, <1>3 DEF ArpInv, TypeOK
<1>5. PacketsOk' /\ LookupOk' /\ TableOk'
  BY DEF ArpInv, PacketsOk, LookupOk, TableOk
<1>6. SendersOk'
  BY <1>2 DEF ArpInv, SendersOk
<1> QED
  BY <1>4, <1>5, <1>6 DEF ArpInv

\* ip_output: the entry a thread gets is the next hop's, or a request goes out.
LEMMA OutputStep ==
    ASSUME ArpInv, NEW t \in Threads, NEW d \in Dests, ip_output(t, d)
    PROVE  ArpInv'
<1> DEFINE hop == NextHop(d)
           i == arp_get_hwaddr(hop)
           r == [dst |-> d, entry |-> i, dmac |-> << NULL, NULL >>]
<1>0. d \in Addresses
  BY ArpConstants DEF Addresses
<1>1. /\ i \in Nat /\ (i # 0 => i \in DOMAIN cache /\ cache[i].sip = hop)
      /\ cache \in Seq(Entry)
  <2>1. cache \in Seq(Entry)
    BY DEF ArpInv, TypeOK
  <2>2. i = FirstOf(cache, hop)
    BY DEF arp_get_hwaddr, FirstOf
  <2> HIDE DEF i, hop
  <2> QED
    BY <2>1, <2>2, LookupFinds
<1>2. /\ route_lookup(d).addr \in {Us, Lo} /\ hop \in Addresses
      /\ hop \in Hosts => hop = Owner(d)
  BY <1>0, RouteOf
<1>3. UNCHANGED << cache, rx, inbox, hw, latest >> /\ asked \subseteq Request
  BY DEF ip_output, ArpInv, TypeOK
<1>4. CASE i # 0 /\ snd' = [snd EXCEPT ![t] = r] /\ UNCHANGED asked
  <2>1. i \in DOMAIN cache /\ cache[i].sip = hop /\ i \in Nat \ {0}
    BY <1>1, <1>4
  <2>2. cache[i] \in Entry /\ cache[i].sip \in Hosts
    <3> HIDE DEF i
    <3>1. cache[i] \in Entry
      BY <1>1, <2>1
    <3> QED
      BY <3>1 DEF Entry
  <2>3. hop = Owner(d)
    BY <1>2, <2>1, <2>2
  <2> HIDE DEF i, hop
  <2>4. r \in Sending
    BY <1>0, <2>1 DEF Sending
  <2>5. r.entry = i /\ r.dst = d /\ r.dmac[1] = NULL /\ r.dmac[2] = NULL
    OBVIOUS
  <2> HIDE DEF r
  <2>6. /\ r.entry \in DOMAIN cache /\ cache[r.entry].sip = Owner(r.dst)
        /\ \A b \in 1 .. 2 : r.dmac[b] # NULL => r.dmac[b][1] = Owner(r.dst)
    BY <2>1, <2>3, <2>5
  <2>7. r \in Sending \cup {NotSending} /\ asked' \subseteq Request
    BY <1>3, <1>4, <2>4
  <2> QED
    BY <1>3, <1>4, <2>6, <2>7, SenderStep
<1>5. CASE i = 0 /\ arp_request(route_lookup(d).addr, hop) /\ UNCHANGED snd
  <2>1. [sip |-> route_lookup(d).addr, dip |-> hop] \in Request
    BY <1>2 DEF Request
  <2>2. asked' \subseteq Request
    BY <1>5, <2>1 DEF arp_request, ArpInv, TypeOK
  <2>3. UNCHANGED << cache, rx, snd, inbox, hw, latest >>
    BY <1>3, <1>5
  <2> QED
    BY <2>2, <2>3 DEF ArpInv, TypeOK, PacketsOk, LookupOk, TableOk, SendersOk
<1> QED
  BY <1>4, <1>5 DEF ip_output

\* netdev_transmit: a half of the address is copied; the frame is written.
LEMMA CopyStep ==
    ASSUME ArpInv, NEW t \in Threads, NEW b \in 1 .. 2, CopyHalf(t, b)
    PROVE  ArpInv'
<1> DEFINE x == snd[t]
           e == cache[x.entry]
           m == [x.dmac EXCEPT ![b] = e.smac[b]]
           r == [x EXCEPT !.dmac = m]
<1>1. x.entry # 0 /\ UNCHANGED << cache, rx, asked, inbox, hw, latest >>
  BY DEF CopyHalf
<1>2. snd' = [snd EXCEPT ![t] = r]
  BY DEF CopyHalf
<1>3. x \in Sending
  BY <1>1, SenderParts DEF ArpInv, TypeOK
<1>4. /\ x.entry \in DOMAIN cache /\ e.sip = Owner(x.dst)
      /\ \A a \in 1 .. 2 : x.dmac[a] # NULL => x.dmac[a][1] = Owner(x.dst)
  BY <1>1 DEF ArpInv, SendersOk
<1>5. e \in Entry /\ OfHost(e.smac, e.sip)
  BY <1>4 DEF ArpInv, TypeOK, TableOk
<1>6. e.smac \in Macs /\ e.smac[b] \in Halves /\ e.smac[b][1] = Owner(x.dst)
  BY <1>4, <1>5, MacParts DEF Entry, OfHost
<1>7. x.dmac \in (Halves \cup {NULL}) \X (Halves \cup {NULL})
  BY <1>3, SenderParts
<1>8. /\ m \in (Halves \cup {NULL}) \X (Halves \cup {NULL})
      /\ \A a \in 1 .. 2 : m[a] = IF a = b THEN e.smac[b] ELSE x.dmac[a]
  <2> HIDE DEF e
  <2> DEFINE y == x.dmac
             z == e.smac[b]
  <2>1. y \in (Halves \cup {NULL}) \X (Halves \cup {NULL}) /\ z \in Halves
    BY <1>6, <1>7
  <2> HIDE DEF y, z, x
  <2>2. CASE b = 1
    <3>1. [y EXCEPT ![b] = z] = << z, y[2] >>
      BY <2>1, <2>2
    <3> QED
      BY <2>1, <2>2, <3>1 DEF y, z
  <2>3. CASE b = 2
    <3>1. [y EXCEPT ![b] = z] = << y[1], z >>
      BY <2>1, <2>3
    <3> QED
      BY <2>1, <2>3, <3>1 DEF y, z
  <2> QED
    BY <2>2, <2>3
<1> HIDE DEF m, e
<1>9. r \in Sending /\ r.entry = x.entry /\ r.dst = x.dst /\ r.dmac = m
  BY <1>3, <1>8 DEF Sending
<1> HIDE DEF r, x
<1>10. /\ r.entry \in DOMAIN cache /\ cache[r.entry].sip = Owner(r.dst)
       /\ \A a \in 1 .. 2 : r.dmac[a] # NULL => r.dmac[a][1] = Owner(r.dst)
  BY <1>4, <1>6, <1>8, <1>9 DEF e
<1>11. r \in Sending \cup {NotSending} /\ asked' \subseteq Request
  BY <1>1, <1>9 DEF ArpInv, TypeOK
<1> QED
  BY <1>1, <1>2, <1>10, <1>11, SenderStep

\* The frame is written and the thread is free again.
LEMMA TransmitStep ==
    ASSUME ArpInv, NEW t \in Threads, netdev_transmit(t)
    PROVE  ArpInv'
<1>1. /\ snd' = [snd EXCEPT ![t] = NotSending]
      /\ UNCHANGED << cache, rx, inbox, hw, latest >> /\ asked' \subseteq Request
  BY DEF netdev_transmit, ArpInv, TypeOK
<1> QED
  BY <1>1, SenderParts, SenderStep

----------------------------------------------------------------------------
(* Receiving *)

\* What arp_rcv holds.
LEMMA ReceiverParts ==
    /\ RxIdle.pc = "idle" /\ RxIdle.entry = 0
    /\ \A r \in Receiving \cup {RxIdle} : r.pc # "idle" => r \in Receiving
    /\ \A r \in Receiving : /\ r.pc \in {"update", "merged", "absent", "reply"}
                            /\ r.pkt \in Packet /\ r.entry \in Nat
    /\ \A p \in Packet : /\ p.smac \in Macs /\ p.dip \in Hosts \cup {Us, Lo}
                         /\ p.op \in {"request", "reply"} /\ p.ok \in BOOLEAN
                         /\ p.sip \in Hosts \cup {Us}
  BY DEF RxIdle, Receiving, Packet

\* An entry gets an address of its host: the entries stay where they are and
\* whose they are, so threads that hold their addresses can go on.
LEMMA UpdateTable ==
    ASSUME ArpInv, NEW i \in DOMAIN cache, NEW m \in Macs, OfHost(m, cache[i].sip),
           cache' = [cache EXCEPT ![i] = [cache[i] EXCEPT !.smac = m]], UNCHANGED snd
    PROVE  /\ cache' \in Seq(Entry) /\ Len(cache') = Len(cache)
           /\ DOMAIN cache' = DOMAIN cache
           /\ \A j \in DOMAIN cache : cache'[j].sip = cache[j].sip
           /\ \A j \in DOMAIN cache \ {i} : cache'[j] = cache[j]
           /\ cache'[i].smac = m
           /\ SendersOk'
<1>0. cache \in Seq(Entry)
  BY DEF ArpInv, TypeOK
<1>1. cache[i] \in Entry
  BY <1>0
<1> DEFINE n == [cache[i] EXCEPT !.smac = m]
<1>2. n \in Entry /\ n.sip = cache[i].sip /\ n.smac = m
  BY <1>1 DEF Entry
<1> HIDE DEF n
<1>3. cache' = [cache EXCEPT ![i] = n]
  BY DEF n
<1>4. /\ cache' \in Seq(Entry) /\ Len(cache') = Len(cache) /\ DOMAIN cache' = DOMAIN cache
      /\ cache'[i] = n /\ \A j \in DOMAIN cache \ {i} : cache'[j] = cache[j]
  BY <1>0, <1>2, <1>3
<1>5. \A j \in DOMAIN cache : cache'[j].sip = cache[j].sip
  BY <1>2, <1>4
<1>6. SendersOk'
  BY <1>4, <1>5 DEF ArpInv, SendersOk
<1> QED
  BY <1>2, <1>4, <1>5, <1>6

\* The answer of arp_rcv is written.
LEMMA ReplyStep ==
    ASSUME ArpInv, TransmitReply
    PROVE  ArpInv'
<1>1. rx.pc = "reply" /\ rx' = RxIdle /\ UNCHANGED << cache, snd, asked, inbox, hw, latest >>
  BY DEF TransmitReply
<1>2. rx'.pc = "idle" /\ rx'.entry = 0 /\ 0 <= Len(cache)
  <2>1. cache \in Seq(Entry)
    BY DEF ArpInv, TypeOK
  <2> QED
    BY <1>1, <2>1, ReceiverParts
<1>3. TypeOK'
  BY <1>1, <1>2 DEF ArpInv, TypeOK
<1>4. PacketsOk' /\ LookupOk' /\ TableOk' /\ SendersOk'
  BY <1>1, <1>2 DEF ArpInv, PacketsOk, LookupOk, TableOk, SendersOk
<1> QED
  BY <1>3, <1>4 DEF ArpInv

\* The rest of an update: the entry is current again.
LEMMA UpdateRestStep ==
    ASSUME ArpInv, UpdateRest
    PROVE  ArpInv'
<1> DEFINE i == rx.entry
           m == rx.pkt.smac
<1>1. rx.pc = "update" /\ UNCHANGED << snd, asked, inbox, hw, latest >>
  BY DEF UpdateRest
<1>2. rx \in Receiving
  BY <1>1, ReceiverParts DEF ArpInv, TypeOK
<1>3. /\ i \in DOMAIN cache /\ cache[i].sip = rx.pkt.sip
      /\ rx.pkt.sip \in Hosts /\ OfHost(m, rx.pkt.sip) /\ latest[rx.pkt.sip] = m
  BY <1>1 DEF ArpInv, LookupOk, PacketsOk
<1>4. rx.pkt \in Packet /\ m \in Macs
  BY <1>2, ReceiverParts
<1>5. cache' = [cache EXCEPT ![i] = [cache[i] EXCEPT !.smac = m]]
  BY DEF UpdateRest
<1>6. rx' \in Receiving /\ rx'.pc = "merged" /\ rx'.pkt = rx.pkt /\ rx'.entry = i
  BY <1>2 DEF UpdateRest, Receiving
<1>7. /\ cache' \in Seq(Entry) /\ Len(cache') = Len(cache) /\ DOMAIN cache' = DOMAIN cache
      /\ \A j \in DOMAIN cache : cache'[j].sip = cache[j].sip
      /\ \A j \in DOMAIN cache \ {i} : cache'[j] = cache[j]
      /\ cache'[i].smac = m
      /\ SendersOk'
  <2> HIDE DEF m, i
  <2> QED
    BY <1>1, <1>3, <1>4, <1>5, UpdateTable
<1>8. TypeOK'
  BY <1>1, <1>6, <1>7 DEF ArpInv, TypeOK
<1>9. PacketsOk' /\ LookupOk'
  BY <1>1, <1>3, <1>6 DEF ArpInv, PacketsOk, LookupOk
<1>10. TableOk'
  <2>1. \A j, k \in DOMAIN cache' : cache'[j].sip = cache'[k].sip => j = k
    BY <1>7 DEF ArpInv, TableOk
  <2>2. ASSUME NEW j \in DOMAIN cache'
        PROVE  OfHost(cache'[j].smac, cache'[j].sip) /\ cache'[j].smac = latest'[cache'[j].sip]
    <3>1. CASE j = i
      BY <1>1, <1>3, <1>7, <3>1
    <3>2. CASE j # i
      BY <1>1, <1>7, <2>2, <3>2 DEF ArpInv, TableOk
    <3> QED
      BY <3>1, <3>2
  <2> QED
    BY <2>1, <2>2 DEF TableOk
<1> QED
  BY <1>7, <1>8, <1>9, <1>10 DEF ArpInv

\* arp_rcv up to the end of its lookup.
LEMMA ReceiveStep ==
    ASSUME ArpInv, NEW p \in inbox, arp_rcv(p)
    PROVE  ArpInv'
<1>1. /\ rx = RxIdle /\ inbox' \subseteq inbox /\ UNCHANGED << snd, asked, hw >>
      /\ rx.pc = "idle"
  BY ReceiverParts DEF arp_rcv
<1>2. /\ p \in Packet /\ p.sip \in Hosts /\ OfHost(p.smac, p.sip) /\ p.smac \in Macs
      /\ cache \in Seq(Entry)
  BY ReceiverParts DEF ArpInv, TypeOK, PacketsOk
<1>3. CASE ~p.ok /\ UNCHANGED << cache, rx, latest >>
  <2>1. TypeOK'
    BY <1>1, <1>3 DEF ArpInv, TypeOK
  <2>2. PacketsOk' /\ LookupOk' /\ TableOk' /\ SendersOk'
    BY <1>1, <1>3 DEF ArpInv, PacketsOk, LookupOk, TableOk, SendersOk
  <2> QED
    BY <2>1, <2>2 DEF ArpInv
<1>4. CASE update_arp_translation_table(p) /\ latest' = [latest EXCEPT ![p.sip] = p.smac]
  <2> DEFINE i == FirstOf(cache, p.sip)
  <2>1. \/ i = 0 /\ rx' = [pc |-> "absent", pkt |-> p, entry |-> 0] /\ UNCHANGED cache
        \/ /\ i # 0 /\ rx' = [pc |-> "update", pkt |-> p, entry |-> i]
           /\ \E b \in 1 .. 2 : cache' = [cache EXCEPT ![i].smac[b] = p.smac[b]]
    BY <1>4 DEF update_arp_translation_table, FirstOf
  <2>2. /\ i \in Nat /\ i <= Len(cache)
        /\ i # 0 => i \in DOMAIN cache /\ cache[i].sip = p.sip
        /\ i = 0 => \A j \in DOMAIN cache : cache[j].sip # p.sip
    BY <1>2, LookupFinds
  <2> HIDE DEF i
  <2>3. /\ latest' \in [Hosts -> Macs \cup {NULL}]
        /\ latest'[p.sip] = p.smac /\ \A h \in Hosts \ {p.sip} : latest'[h] = latest[h]
    BY <1>2, <1>4 DEF ArpInv, TypeOK
  <2>4. ASSUME NEW j \in DOMAIN cache PROVE cache[j].sip \in Hosts
    <3>1. cache[j] \in Entry
      BY <1>2
    <3> QED
      BY <3>1 DEF Entry
  <2>5. CASE i = 0
    <3>1. rx' = [pc |-> "absent", pkt |-> p, entry |-> 0] /\ UNCHANGED cache
      BY <2>1, <2>5
    <3>2. rx' \in Receiving /\ rx'.pc = "absent" /\ rx'.pkt = p /\ rx'.entry = 0
      BY <1>2, <3>1 DEF Receiving
    <3>3. 0 <= Len(cache)
      BY <2>2, <2>5
    <3>4. TypeOK'
      BY <1>1, <2>3, <3>1, <3>2, <3>3 DEF ArpInv, TypeOK
    <3>5. PacketsOk' /\ LookupOk'
      BY <1>1, <1>2, <2>2, <2>3, <2>5, <3>1, <3>2 DEF ArpInv, PacketsOk, LookupOk
    <3>6. TableOk'
      BY <1>1, <2>2, <2>3, <2>4, <2>5, <3>1 DEF ArpInv, TableOk
    <3>7. SendersOk'
      BY <1>1, <3>1 DEF ArpInv, SendersOk
    <3> QED
      BY <3>4, <3>5, <3>6, <3>7 DEF ArpInv
  <2>6. CASE i # 0
    <3>1. i \in DOMAIN cache /\ cache[i].sip = p.sip
      BY <2>2, <2>6
    <3>2. PICK b \in 1 .. 2 : cache' = [cache EXCEPT ![i].smac[b] = p.smac[b]]
      BY <2>1, <2>6
    <3> DEFINE m == [cache[i].smac EXCEPT ![b] = p.smac[b]]
    <3>3. cache' = [cache EXCEPT ![i] = [cache[i] EXCEPT !.smac = m]]
      BY <3>2
    <3>4. m \in Macs /\ OfHost(m, cache[i].sip)
      <4>1. cache[i] \in Entry /\ OfHost(cache[i].smac, cache[i].sip)
        BY <1>2, <3>1 DEF ArpInv, TableOk
      <4>2. cache[i].smac \in Macs
        BY <4>1 DEF Entry
      <4> QED
        BY <1>2, <3>1, <4>1, <4>2, MacParts
    <3> HIDE DEF m
    <3>5. rx' \in Receiving /\ rx'.pc = "update" /\ rx'.pkt = p /\ rx'.entry = i
      BY <1>2, <2>1, <2>2, <2>6 DEF Receiving
    <3>6. /\ cache' \in Seq(Entry) /\ Len(cache') = Len(cache) /\ DOMAIN cache' = DOMAIN cache
          /\ \A j \in DOMAIN cache : cache'[j].sip = cache[j].sip
          /\ \A j \in DOMAIN cache \ {i} : cache'[j] = cache[j]
          /\ cache'[i].smac = m
          /\ SendersOk'
      BY <1>1, <3>1, <3>3, <3>4, UpdateTable
    <3>7. TypeOK'
      BY <1>1, <2>2, <2>3, <3>5, <3>6 DEF ArpInv, TypeOK
    <3>8. PacketsOk' /\ LookupOk'
      BY <1>1, <1>2, <2>3, <3>1, <3>5, <3>6 DEF ArpInv, PacketsOk, LookupOk
    <3>9. TableOk'
      <4>1. \A j, k \in DOMAIN cache' : cache'[j].sip = cache'[k].sip => j = k
        BY <3>6 DEF ArpInv, TableOk
      <4>2. ASSUME NEW j \in DOMAIN cache', j # i
            PROVE  OfHost(cache'[j].smac, cache'[j].sip) /\ cache'[j].smac = latest'[cache'[j].sip]
        <5>1. cache'[j] = cache[j] /\ cache[j].sip # p.sip
          BY <3>1, <3>6, <4>2 DEF ArpInv, TableOk
        <5>2. latest'[cache[j].sip] = latest[cache[j].sip]
          BY <2>3, <2>4, <3>6, <5>1
        <5> QED
          BY <1>1, <3>6, <5>1, <5>2 DEF ArpInv, TableOk
      <4>3. OfHost(cache'[i].smac, cache'[i].sip)
        BY <3>1, <3>4, <3>6
      <4> QED
        BY <3>5, <4>1, <4>2, <4>3 DEF TableOk
    <3> QED
      BY <3>6, <3>7, <3>8, <3>9 DEF ArpInv
  <2> QED
    BY <2>5, <2>6
<1> QED
  BY <1>3, <1>4 DEF arp_rcv

\* arp_rcv after its lookup: what is inserted is the sender's only entry, and
\* the answer goes to the sender.
LEMMA ReceiveRestStep ==
    ASSUME ArpInv, arp_rcv_rest
    PROVE  ArpInv'
<1> DEFINE p == rx.pkt
           n == arp_entry_alloc(p)
<1>1. /\ rx.pc \in {"merged", "absent"} /\ UNCHANGED << snd, asked, inbox, hw, latest >>
      /\ cache' = IF Inserts(p) THEN Append(cache, n) ELSE cache
  BY DEF arp_rcv_rest, insert_arp_translation_table
<1>2. rx \in Receiving /\ p \in Packet
  <2>1. rx \in Receiving
    BY <1>1, ReceiverParts DEF ArpInv, TypeOK
  <2> QED
    BY <2>1, ReceiverParts
<1>3. /\ p.sip \in Hosts /\ OfHost(p.smac, p.sip) /\ latest[p.sip] = p.smac /\ p.smac \in Macs
      /\ cache \in Seq(Entry)
  BY <1>1, <1>2, ReceiverParts DEF ArpInv, TypeOK, PacketsOk
<1>4. n \in Entry /\ n.sip = p.sip /\ n.smac = p.smac
  BY <1>3 DEF arp_entry_alloc, Entry
<1>5. /\ rx' \in Receiving \cup {RxIdle} /\ rx'.pc \in {"reply", "idle"}
      /\ rx'.entry \in {0, rx.entry}
      /\ rx'.pc = "reply" => OfHost(rx'.pkt.dmac, rx'.pkt.dip)
  <2>1. CASE ForUs(rx.pkt) /\ rx.pkt.op = "request"
    <3>1. rx' = [rx EXCEPT !.pc = "reply", !.pkt = arp_reply(p)]
      BY <2>1 DEF arp_rcv_rest
    <3>2. Mac(Us, 0) \in Macs
      BY MacParts, ArpConstants
    <3>3. /\ arp_reply(p) \in Packet /\ arp_reply(p).dmac = p.smac
          /\ arp_reply(p).dip = p.sip
      BY <1>2, <1>3, <3>2 DEF arp_reply, Packet
    <3>4. rx' \in Receiving /\ rx'.pc = "reply" /\ rx'.pkt = arp_reply(p) /\ rx'.entry = rx.entry
      BY <1>2, <3>1, <3>3 DEF Receiving
    <3> QED
      BY <1>3, <3>3, <3>4
  <2>2. CASE ~(ForUs(rx.pkt) /\ rx.pkt.op = "request")
    BY <2>2, ReceiverParts DEF arp_rcv_rest
  <2> QED
    BY <2>1, <2>2
<1> HIDE DEF n
<1>6. PacketsOk' /\ LookupOk'
  BY <1>1, <1>5 DEF ArpInv, PacketsOk, LookupOk
<1>7. CASE Inserts(p)
  <2>1. /\ cache' = Append(cache, n) /\ rx.pc = "absent"
        /\ \A j \in DOMAIN cache : cache[j].sip # p.sip
    BY <1>1, <1>7 DEF Inserts, ArpInv, LookupOk
  <2>2. /\ cache' \in Seq(Entry) /\ Len(cache') = Len(cache) + 1
        /\ DOMAIN cache' = 1 .. Len(cache) + 1 /\ DOMAIN cache = 1 .. Len(cache)
        /\ cache'[Len(cache) + 1] = n /\ Len(cache) \in Nat
        /\ \A j \in DOMAIN cache : cache'[j] = cache[j]
    BY <1>3, <1>4, <2>1
  <2>3. TypeOK'
    <3>1. rx'.entry <= Len(cache')
      BY <1>5, <2>2, <1>2, ReceiverParts DEF ArpInv, TypeOK
    <3>2. ASSUME NEW t \in Threads PROVE snd'[t].entry <= Len(cache')
      <4>1. snd[t].entry <= Len(cache) /\ snd[t].entry \in Nat
        BY SenderParts DEF ArpInv, TypeOK
      <4> QED
        BY <1>1, <2>2, <4>1
    <3> QED
      BY <1>1, <1>5, <2>2, <3>1, <3>2 DEF ArpInv, TypeOK
  <2>4. TableOk'
    <3> DEFINE k == Len(cache) + 1
    <3>1. DOMAIN cache' = DOMAIN cache \cup {k} /\ k \notin DOMAIN cache
      BY <2>2
    <3>2. cache'[k].sip = p.sip /\ cache'[k].smac = p.smac
      BY <1>4, <2>2
    <3>3. \A j \in DOMAIN cache : cache'[j] = cache[j]
      BY <2>2
    <3> HIDE DEF k
    <3>4. \A i, j \in DOMAIN cache' : cache'[i].sip = cache'[j].sip => i = j
      BY <2>1, <3>1, <3>2, <3>3 DEF ArpInv, TableOk
    <3>5. ASSUME NEW j \in DOMAIN cache'
          PROVE  OfHost(cache'[j].smac, cache'[j].sip) /\ cache'[j].smac = latest'[cache'[j].sip]
      BY <1>1, <1>3, <2>1, <3>1, <3>2, <3>3 DEF ArpInv, TableOk
    <3> QED
      BY <3>4, <3>5 DEF TableOk
  <2>5. SendersOk'
    BY <1>1, <2>2 DEF ArpInv, SendersOk
  <2> QED
    BY <1>6, <2>3, <2>4, <2>5 DEF ArpInv
<1>8. CASE ~Inserts(p)
  <2>1. UNCHANGED cache
    BY <1>1, <1>8
  <2>2. TypeOK'
    BY <1>1, <1>3, <1>5, <2>1 DEF ArpInv, TypeOK
  <2>3. TableOk' /\ SendersOk'
    BY <1>1, <2>1 DEF ArpInv, TableOk, SendersOk
  <2> QED
    BY <1>6, <2>2, <2>3 DEF ArpInv
<1> QED
  BY <1>7, <1>8

----------------------------------------------------------------------------
(* The theorems *)

\* The table is empty and nobody sends or receives at the start.
LEMMA InitArp == Init => ArpInv
<1> SUFFICES ASSUME Init PROVE ArpInv
  OBVIOUS
<1>1. cache = << >> /\ Len(cache) = 0 /\ DOMAIN cache = {} /\ cache \in Seq(Entry)
  BY DEF Init
<1>2. rx = RxIdle /\ rx.pc = "idle" /\ rx.entry = 0
  BY ReceiverParts DEF Init
<1>3. \A t \in Threads : snd[t] = NotSending /\ snd[t].entry = 0
  BY SenderParts DEF Init
<1>4. TypeOK
  BY <1>1, <1>2, <1>3, ArpConstants DEF Init, TypeOK
<1>5. PacketsOk /\ LookupOk /\ TableOk /\ SendersOk
  BY <1>1, <1>2, <1>3 DEF Init, PacketsOk, LookupOk, TableOk, SendersOk
<1> QED
  BY <1>4, <1>5 DEF ArpInv

\* Every step preserves the invariant.
LEMMA NextArp == ArpInv /\ [Next]_vars => ArpInv'
<1> SUFFICES ASSUME ArpInv, [Next]_vars PROVE ArpInv'
  OBVIOUS
<1>1. CASE \E t \in Threads, d \in Dests : ip_output(t, d)
  BY <1>1, OutputStep
<1>2. CASE \E t \in Threads, b \in 1 .. 2 : CopyHalf(t, b)
  BY <1>2, CopyStep
<1>3. CASE \E t \in Threads : netdev_transmit(t)
  BY <1>3, TransmitStep
<1>4. CASE \E p \in inbox : arp_rcv(p)
  BY <1>4, ReceiveStep
<1>5. CASE UpdateRest \/ arp_rcv_rest \/ TransmitReply
  BY <1>5, UpdateRestStep, ReceiveRestStep, ReplyStep
<1>6. CASE \/ \E h \in Hosts, ok \in BOOLEAN, dip \in Hosts \cup {Us} : Announce(h, ok, dip)
           \/ \E q \in asked : Answer(q) \/ Unanswered(q)
           \/ \E h \in Movers : Move(h)
  BY <1>6, WireStep
<1>7. CASE UNCHANGED vars
  BY <1>7 DEF vars, ArpInv, TypeOK, PacketsOk, LookupOk, TableOk, SendersOk
<1> QED
  BY <1>1, <1>2, <1>3, <1>4, <1>5, <1>6, <1>7 DEF Next

\* The invariant holds in every state: the table, the packets under way and
\* what the threads have copied agree on whose addresses they are.
THEOREM ArpInvariant == Spec => []ArpInv
<1> QED
  BY InitArp, NextArp, PTL DEF Spec

\* Type correctness: in particular nobody ever holds the address of an entry
\* that is not in the table.
THEOREM TypeCorrect == Spec => []TypeOK
<1>1. ArpInv => TypeOK
  BY DEF ArpInv
<1> QED
  BY <1>1, ArpInvariant, PTL

\* No byte of a frame's destination is from a host that is not the next hop of
\* the frame's packet, whatever arp_rcv does to the table while netdev_transmit
\* copies the address without the lock, and an answer goes to who asked.
THEOREM FramesAddressed == Spec => []FrameAddressed
<1>1. ArpInv => FrameAddressed
  <2> SUFFICES ASSUME ArpInv PROVE FrameAddressed
    OBVIOUS
  <2>1. \A t \in Threads : Addressed(t) => \A b \in 1 .. 2 : snd[t].dmac[b][1] = Owner(snd[t].dst)
    BY DEF Addressed, ArpInv, SendersOk
  <2>2. rx.pc = "reply" => \A b \in 1 .. 2 : rx.pkt.dmac[b][1] = rx.pkt.dip
    <3>1. rx.pc = "reply" => rx.pkt.dmac[1][1] = rx.pkt.dip /\ rx.pkt.dmac[2][1] = rx.pkt.dip
      BY DEF ArpInv, PacketsOk, OfHost
    <3>2. \A b \in 1 .. 2 : b = 1 \/ b = 2
      OBVIOUS
    <3> QED
      BY <3>1, <3>2
  <2> QED
    BY <2>1, <2>2 DEF FrameAddressed
<1> QED
  BY <1>1, ArpInvariant, PTL

\* An address has one entry at most, with what its host announced last, except
\* while arp_rcv is writing it under the lock.
THEOREM EntriesCurrent == Spec => []EntryCurrent
<1>1. ArpInv => EntryCurrent
  BY DEF ArpInv, TableOk, EntryCurrent, Locked
<1> QED
  BY <1>1, ArpInvariant, PTL

=============================================================================
