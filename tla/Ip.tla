-------------------------------- MODULE Ip --------------------------------
(***************************************************************************)
(* The way of a datagram through src/ip_input.c and src/icmpv4.c, the      *)
(* headers src/ip_output.c writes, and the Internet checksum they share    *)
(* with TCP (src/utils.c, src/tcp.c).  One thread runs all of it for a     *)
(* datagram, so that a datagram is one action.                             *)
(*                                                                         *)
(* A datagram is the sequence of its bytes.  Bytes, words and the          *)
(* accumulator of the checksum are scaled down together: a byte has BYTE   *)
(* values, a word is two bytes and the accumulator two words, as 8, 16 and *)
(* 32 bits are in the code.  A row, the unit ihl counts, is one word here  *)
(* and two there: the words with the fields nobody tests are left out.     *)
(***************************************************************************)
EXTENDS Integers, Sequences, FiniteSetsExt

CONSTANTS
    BYTE,       \* the values of a byte, 256 in the code
    MyAddr,     \* dev->addr, a word here
    Routed,     \* the addresses that route_lookup finds a route for
    Sources,    \* saddr of the datagrams a peer sends, words
    Options,    \* the option word of a datagram that has one
    Messages,   \* what follows type, code and checksum in an ICMP message
    OurAddrs, PeerAddrs,    \* sk->saddr and sk->daddr of segments, two words
    Payloads    \* bytes of a segment

WORD == BYTE * BYTE
ACC == WORD * WORD

ASSUME IpAssumption ==
    /\ BYTE = 4      \* the layout of the two first words below
    /\ MyAddr \in 0..WORD-1 /\ Sources \subseteq 0..WORD-1
    /\ Options \subseteq 0..WORD-1 /\ Routed \subseteq 0..WORD-1
    /\ OurAddrs \subseteq 0..ACC-1 /\ PeerAddrs \subseteq 0..ACC-1
    /\ \A m \in Messages \cup Payloads : m \in Seq(0..BYTE-1)

VARIABLES
    pc,         \* "idle", "wire" (a datagram is on its way in), "done"
    dgram,      \* the datagram on the wire
    flipped,    \* the bit the network has changed in it, 0 for none
    got,        \* what ip_rcv made of it
    out         \* what the stack sent: << >>, << "icmp", d >>, << "tcp", seg >>

vars == << pc, dgram, flipped, got, out >>

----------------------------------------------------------------------------
(* src/utils.c *)

\* The little-endian word i of a sequence of bytes; a last byte on its own is
\* the low half of a word.  Past the end are the zeros of the buffer.
Word(s, i) ==
    LET b(j) == IF j <= Len(s) THEN s[j] ELSE 0
    IN  b(2*i - 1) + BYTE * b(2*i)

Bytes(w) == << w % BYTE, w \div BYTE >>

\* The same sum that forgets the byte of an odd length.
SumEven(s) == MapThenSumSet(LAMBDA i : Word(s, i), 1..(Len(s) \div 2)) % ACC

sum_every_16bits(s) ==
    MapThenSumSet(LAMBDA i : Word(s, i), 1..((Len(s) + 1) \div 2)) % ACC

\* One round of the loop that folds the accumulator; it changes nothing once
\* the high word is empty, and two rounds empty it.
Fold(sum) == (sum % WORD) + (sum \div WORD)

checksum(s, start_sum) ==
    WORD - 1 - Fold(Fold((start_sum + sum_every_16bits(s)) % ACC))

----------------------------------------------------------------------------
(* The Internet checksum as RFC 1071 defines it, on which the peer relies: *)
(* the one's complement sum of the words, whatever their number.           *)

OnesSum(total) == IF total = 0 THEN 0 ELSE ((total - 1) % (WORD - 1)) + 1

Total(s) == MapThenSumSet(LAMBDA i : Word(s, i), 1..((Len(s) + 1) \div 2))

Verifies(total) == OnesSum(total) = WORD - 1

----------------------------------------------------------------------------
(* Layout.  Words of the header: version and ihl, ttl and proto, csum,     *)
(* saddr, daddr; then the options, if ihl says so.                         *)

IPV4 == 1
HDR == 5            \* rows of a header without options
IP_HDR_LEN == 2 * HDR
ICMPV4 == 1
IP_TCP == 2
ICMP_V4_REPLY == 0
ICMP_V4_ECHO == 1
ICMP_V4_DST_UNREACHABLE == 3

Version(d) == Word(d, 1) \div 8
Ihl(d) == Word(d, 1) % 8
Ttl(d) == d[3]
Proto(d) == d[4]
Saddr(d) == Word(d, 4)
Daddr(d) == Word(d, 5)

\* The bytes from..from+n-1 of the buffer that starts with datagram d.
Buffer(d, from, n) ==
    [j \in 1..n |-> IF from + j - 1 <= Len(d) THEN d[from + j - 1] ELSE 0]

\* A header around the checksum csum, and the one a peer or ip_send_check
\* completes.
Header(version, ihl, ttl, proto, csum, saddr, daddr, opts) ==
    Bytes(8 * version + ihl) \o << ttl, proto >> \o Bytes(csum)
        \o Bytes(saddr) \o Bytes(daddr) \o opts

----------------------------------------------------------------------------
(* Peer and network *)

\* An ICMP message with the checksum of RFC 1071.
Icmp(type, data) ==
    LET m(csum) == << type, 0 >> \o Bytes(csum) \o data
    IN  m(WORD - 1 - OnesSum(Total(m(0))))

\* A datagram from a peer: well formed, or of another version, with too short
\* a header or at the end of its time; with or without an option.
PeerSends ==
    /\ pc = "idle"
    /\ \E version \in {IPV4, 0}, ihl \in {HDR - 1, HDR, HDR + 1}, ttl \in {0, 1},
          proto \in {ICMPV4, IP_TCP, 3}, saddr \in Sources, opt \in Options,
          type \in {ICMP_V4_ECHO, ICMP_V4_REPLY, ICMP_V4_DST_UNREACHABLE},
          data \in Messages :
        /\ ihl # HDR + 1 => opt = Min(Options)
        /\ version # IPV4 \/ ttl = 0 => ihl = HDR
        /\ LET opts == IF ihl = HDR + 1 THEN Bytes(opt) ELSE << >>
               h(csum) == Header(version, ihl, ttl, proto, csum, saddr,
                                 MyAddr, opts)
           IN  dgram' = h(WORD - 1 - OnesSum(Total(h(0)))) \o Icmp(type, data)
    /\ pc' = "wire"
    /\ UNCHANGED << flipped, got, out >>

\* The network changes one bit of the header, counted from 1.
Flip ==
    /\ pc = "wire" /\ flipped = 0
    /\ \E i \in 1..2 * Ihl(dgram), b \in {1, 2} :
        /\ dgram' = [dgram EXCEPT ![i] = IF (@ \div b) % 2 = 0 THEN @ + b ELSE @ - b]
        /\ flipped' = 2 * (i - 1) + b
    /\ UNCHANGED << pc, got, out >>

----------------------------------------------------------------------------
(* src/ip_output.c *)

\* The header h with its checksum, which was zero.
ip_send_check(h) ==
    LET c == checksum(SubSeq(h, 1, 2 * Ihl(h)), 0)
    IN  [h EXCEPT ![5] = Bytes(c)[1], ![6] = Bytes(c)[2]]

\* The datagram that carries skb to daddr, << >> when there is no route.
ip_output(daddr, proto, skb) ==
    IF daddr \notin Routed THEN << >>
    ELSE << "icmp", ip_send_check(Header(IPV4, HDR, 3, proto, 0, MyAddr, daddr,
                                         << >>)) \o skb >>

----------------------------------------------------------------------------
(* src/icmpv4.c *)

\* The request is answered in its own buffer: icmp_len bytes after a header
\* without options, whatever the length of the header that came.
icmpv4_reply(d) ==
    LET icmp_len == Len(d) - 2 * Ihl(d)
        zero == [Buffer(d, IP_HDR_LEN + 1, Len(d)) EXCEPT
                    ![1] = ICMP_V4_REPLY, ![3] = 0, ![4] = 0]
        c == checksum(SubSeq(zero, 1, icmp_len), 0)
        skb == [zero EXCEPT ![3] = Bytes(c)[1], ![4] = Bytes(c)[2]]
    IN  ip_output(Saddr(d), ICMPV4, SubSeq(skb, 1, icmp_len))

\* The type is read behind a header without options too.  The checksum of the
\* message is not looked at.
icmpv4_incoming(d) ==
    out' = IF d[IP_HDR_LEN + 1] = ICMP_V4_ECHO THEN icmpv4_reply(d) ELSE << >>

----------------------------------------------------------------------------
(* src/ip_input.c *)

\* Without the test of the checksum.
DropUnsummed(d) == Version(d) # IPV4 \/ Ihl(d) < HDR \/ Ttl(d) = 0

\* The tests before the dispatch.
Drop(d) ==
    \/ Version(d) # IPV4
    \/ Ihl(d) < HDR
    \/ Ttl(d) = 0
    \/ checksum(Buffer(d, 1, 2 * Ihl(d)), 0) # 0

\* Drop, ICMP, TCP (tcp_in, module Tcp) or a protocol nobody knows.
ip_rcv ==
    /\ pc = "wire"
    /\ \/ /\ Drop(dgram)
          /\ got' = "drop"
          /\ UNCHANGED out
       \/ /\ ~Drop(dgram) /\ Proto(dgram) = ICMPV4
          /\ got' = "icmp"
          /\ icmpv4_incoming(dgram)
       \/ /\ ~Drop(dgram) /\ Proto(dgram) = IP_TCP
          /\ got' = "tcp"
          /\ UNCHANGED out
       \/ /\ ~Drop(dgram) /\ Proto(dgram) \notin {ICMPV4, IP_TCP}
          /\ got' = "unknown"
          /\ UNCHANGED out
    /\ pc' = "done"
    /\ UNCHANGED << dgram, flipped >>

----------------------------------------------------------------------------
(* src/tcp.c and tcp_transmit_skb *)

\* The pseudo header without its length.
TcpChecksumUnlengthed(saddr, daddr, proto, s) ==
    checksum(s, (saddr + daddr + BYTE * proto) % ACC)

\* The pseudo header is summed in the accumulator: the addresses as they are,
\* protocol and length as big-endian words.
tcp_udp_checksum(saddr, daddr, proto, s) ==
    LET htons(n) == (n \div BYTE) + BYTE * (n % BYTE)
    IN  checksum(s, (saddr + daddr + htons(proto) + htons(Len(s))) % ACC)

\* A segment is sent: here its checksum and the bytes after it.
tcp_transmit_skb ==
    /\ pc = "idle"
    /\ \E saddr \in OurAddrs, daddr \in PeerAddrs, data \in Payloads :
        LET c == tcp_udp_checksum(saddr, daddr, IP_TCP, << 0, 0 >> \o data)
        IN  out' = << "tcp", [saddr |-> saddr, daddr |-> daddr,
                              bytes |-> Bytes(c) \o data] >>
    /\ pc' = "done"
    /\ UNCHANGED << dgram, flipped, got >>

----------------------------------------------------------------------------

Init == pc = "idle" /\ dgram = << >> /\ flipped = 0 /\ got = "none" /\ out = << >>

\* The next datagram or segment.
Again ==
    /\ pc = "done"
    /\ pc' = "idle" /\ dgram' = << >> /\ flipped' = 0 /\ got' = "none"
    /\ out' = << >>

Next == PeerSends \/ Flip \/ ip_rcv \/ tcp_transmit_skb \/ Again

Spec == Init /\ [][Next]_vars

----------------------------------------------------------------------------
(* Properties *)

Received == pc = "done" /\ got # "none"
Replied == pc = "done" /\ out # << >> /\ out[1] = "icmp"
WellFormed(d) == Version(d) = IPV4 /\ Ihl(d) >= HDR /\ Ttl(d) > 0

\* A header with one wrong bit never gets past ip_rcv (ip_input.c:38-43), and
\* a header as the peer wrote it is never dropped for its checksum.  The three
\* bits of ihl are excepted: they decide how much is summed, and the words
\* after the header can make up for the difference.
HeaderErrorCaught ==
    Received =>
        IF flipped = 0 THEN got = "drop" <=> ~WellFormed(dgram)
        ELSE flipped \notin {1, 2, 3} => got = "drop"

\* The answer to an echo request without options (icmpv4.c:35-53) goes to its
\* sender and brings back the data that arrived, to the last byte; with
\* options or without, the peer's tests accept its header and its message, of
\* even and of odd length, and ip_rcv of another such stack would.
EchoExact ==
    Replied /\ flipped = 0 =>
        LET d == out[2]
            message == SubSeq(d, IP_HDR_LEN + 1, Len(d))
        IN  /\ Daddr(d) = Saddr(dgram)
            /\ Verifies(Total(SubSeq(d, 1, IP_HDR_LEN)))
            /\ Verifies(Total(message))
            /\ ~Drop(d)
            /\ Ihl(dgram) = HDR =>
                  /\ Len(d) = Len(dgram)
                  /\ SubSeq(message, 5, Len(message)) =
                        SubSeq(dgram, IP_HDR_LEN + 5, Len(dgram))

\* The sum a receiver makes of a segment: pseudo header and bytes.
SegmentTotal(seg) ==
    LET words == Bytes(seg.saddr % WORD) \o Bytes(seg.saddr \div WORD)
                 \o Bytes(seg.daddr % WORD) \o Bytes(seg.daddr \div WORD)
                 \o << 0, IP_TCP >>
                 \o << Len(seg.bytes) \div BYTE, Len(seg.bytes) % BYTE >>
    IN  Total(words) + Total(seg.bytes)

\* What tcp_udp_checksum adds up before it folds.
Accumulated(seg) ==
    seg.saddr + seg.daddr + BYTE * IP_TCP + Word(<< Len(seg.bytes) \div BYTE,
                                                    Len(seg.bytes) % BYTE >>, 1)
        + Total([seg.bytes EXCEPT ![1] = 0, ![2] = 0])

\* The checksum of a segment (tcp.c:87-98) is the one the peer computes if and
\* only if the addresses, the length and the data fit into the 32 bits of the
\* accumulator: each carry out of it is lost and makes the checksum wrong.
WrongOnlyByCarry ==
    pc = "done" /\ out # << >> /\ out[1] = "tcp" =>
        (Verifies(SegmentTotal(out[2])) <=> Accumulated(out[2]) < ACC)

\* What src/doc/03.md says of the checksum of a segment, the same algorithm
\* over the pseudo header and the data: the peer verifies every segment.
SegmentVerifies ==
    pc = "done" /\ out # << >> /\ out[1] = "tcp" => Verifies(SegmentTotal(out[2]))
=============================================================================
