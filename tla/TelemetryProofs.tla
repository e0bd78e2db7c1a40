--------------------------- MODULE TelemetryProofs --------------------------
(***************************************************************************)
(* Proofs about Telemetry: for every set of packets and of cgroup files,   *)
(* the flow of a frame is the packet in it and the flow of a socket is the *)
(* process that made it.                                                   *)
(***************************************************************************)
EXTENDS Telemetry, Recursion, SequenceTheorems

-----------------------------------------------------------------------------
(* The layout of struct event, and parseEvent's reads.                      *)

(* The offsets that C's layout rules give the fields of struct event.       *)
COffsets == <<0, 8, 12, 16, 20, 24, 28, 32, 48, 304, 432, 436, 440, 444, 445, 446, 447, 448,
              464, 468, 484, 486, 488, 492, 496, 500, 504>>

(* COffset's recursion has a solution, and it is COffsets.                  *)
LEMMA COffsetValues == \A j \in DOMAIN CFields : COffset[j] = COffsets[j]
<1> DEFINE Offset(f, j) == IF j = 1 THEN 0 ELSE AlignUp(f[j - 1] + CFields[j - 1][2], CFields[j][3])
           Solves(f) == f = [j \in DOMAIN CFields |-> Offset(f, j)]
           values == [j \in DOMAIN CFields |-> COffsets[j]]
<1>1. DOMAIN CFields = 1..27
  BY DEF CFields
<1>2. Solves(values)
  <2>1. \A j \in 1..27 : values[j] = Offset(values, j)
    BY DEF CFields, COffsets, AlignUp
  <2>2. \A j \in DOMAIN CFields : COffsets[j] = Offset(values, j)
    BY <1>1, <2>1
  <2> HIDE DEF Offset
  <2>3. QED BY <2>2
<1>3. Solves(COffset)
  <2>1. COffset = CHOOSE f : Solves(f)
    BY DEF COffset
  <2> HIDE DEF Solves, values
  <2>2. QED BY <1>2, <2>1
<1>4. /\ COffset[1] = 0
      /\ \A j \in 2..27 : COffset[j] = AlignUp(COffset[j - 1] + CFields[j - 1][2], CFields[j][3])
  BY <1>1, <1>3
<1>5. QED BY <1>1, <1>4 DEF CFields, COffsets, AlignUp

(* The reads of parseEvent in one list, and where they begin.               *)
Reads == <<
  <<"timestamp_ns", 8>>, <<"pid", 4>>, <<"tgid", 4>>, <<"ppid", 4>>, <<"uid", 4>>,
  <<"type", 4>>, <<"alert_flags", 4>>, <<"comm", 16>>, <<"filename", 256>>, <<"argv0", 128>>,
  <<"dst_addr", 4>>, <<"dst_port", 2>>, <<"pad", 2>>,
  <<"target_pid", 4>>, <<"family", 1>>, <<"protocol", 1>>, <<"direction", 1>>, <<"pad", 1>>,
  <<"dst_addr6", 16>>, <<"src_addr", 4>>, <<"src_addr6", 16>>, <<"src_port", 2>>, <<"pad", 2>>,
  <<"old_uid", 4>>, <<"new_uid", 4>>, <<"sock_family", 4>>, <<"sock_type", 4>>,
  <<"packet_len", 4>> >>
ReadOffsets == <<0, 8, 12, 16, 20, 24, 28, 32, 48, 304, 432, 436, 438, 440, 444, 445, 446, 447,
                 448, 464, 468, 484, 486, 488, 492, 496, 500, 504>>

LEMMA GoReadsValue == GoReads = Reads
<1> DEFINE padding == << <<"pad", 2>> >>
           R == {Reads[i] : i \in 1..28}
<1>1. /\ HeadReads = SubSeq(Reads, 1, 12)
      /\ padding = SubSeq(Reads, 13, 13)
      /\ TailReads = SubSeq(Reads, 14, 28)
  BY DEF Reads, HeadReads, TailReads
<1>2. Len(Reads) = 28 /\ DOMAIN Reads = 1..28
  BY DEF Reads
<1>3. \A i \in 1..28 : Reads[i] \in R
  OBVIOUS
<1> HIDE DEF R
<1>4. Reads \in Seq(R)
  BY <1>3 DEF Reads
<1>5. GoReads = (HeadReads \o padding) \o TailReads
  BY DEF GoReads
<1> HIDE DEF padding
<1>6. HeadReads \o padding = SubSeq(Reads, 1, 13)
  BY <1>1, <1>2, <1>4, ConcatAdjacentSubSeq
<1>7. SubSeq(Reads, 1, 13) \o TailReads = SubSeq(Reads, 1, 28)
  BY <1>1, <1>2, <1>4, ConcatAdjacentSubSeq
<1>8. SubSeq(Reads, 1, 28) = Reads
  BY <1>2, <1>4, SubSeqFull
<1>9. QED BY <1>5, <1>6, <1>7, <1>8

(* The same of GoOffset, which adds up widths.                              *)
LEMMA GoOffsetValues == \A i \in DOMAIN Reads : GoOffset[i] = ReadOffsets[i]
<1> DEFINE Offset(f, i) == IF i = 1 THEN 0 ELSE f[i - 1] + GoReads[i - 1][2]
           Solves(f) == f = [i \in DOMAIN GoReads |-> Offset(f, i)]
           values == [i \in DOMAIN GoReads |-> ReadOffsets[i]]
<1>1. DOMAIN GoReads = 1..28
  BY GoReadsValue DEF Reads
<1>2. Solves(values)
  <2>1. \A i \in 1..28 : values[i] = Offset(values, i)
    BY GoReadsValue DEF Reads, ReadOffsets
  <2>2. \A i \in DOMAIN GoReads : ReadOffsets[i] = Offset(values, i)
    BY <1>1, <2>1
  <2> HIDE DEF Offset
  <2>3. QED BY <2>2
<1>3. Solves(GoOffset)
  <2>1. GoOffset = CHOOSE f : Solves(f)
    BY DEF GoOffset
  <2> HIDE DEF Solves, values
  <2>2. QED BY <1>2, <2>1
<1>4. /\ GoOffset[1] = 0
      /\ \A i \in 2..28 : GoOffset[i] = GoOffset[i - 1] + GoReads[i - 1][2]
  BY <1>1, <1>3
<1>5. QED BY <1>1, <1>4, GoReadsValue DEF Reads, ReadOffsets

(* The fields of an event.                                                  *)
Fields == {CFields[j][1] : j \in DOMAIN CFields}

(* Every field of a network event is read from where C has put it.          *)
LEMMA NetworkFieldsFound ==
  {"pid", "tgid", "type", "family", "protocol", "direction", "packet_len",
   "src_addr", "dst_addr", "src_addr6", "dst_addr6", "src_port", "dst_port"} \subseteq Found
<1> DEFINE At(name, i, j) == /\ i \in DOMAIN Reads /\ j \in DOMAIN CFields
                             /\ Reads[i][1] = name /\ CFields[j][1] = name
                             /\ ReadOffsets[i] = COffsets[j] /\ Reads[i][2] = CFields[j][2]
<1>1. /\ At("pid", 2, 2) /\ At("tgid", 3, 3) /\ At("type", 6, 6) /\ At("dst_addr", 11, 11)
      /\ At("dst_port", 12, 12) /\ At("family", 15, 14) /\ At("protocol", 16, 15)
      /\ At("direction", 17, 16) /\ At("dst_addr6", 19, 18) /\ At("src_addr", 20, 19)
      /\ At("src_addr6", 21, 20) /\ At("src_port", 22, 21) /\ At("packet_len", 28, 27)
  BY DEF Reads, CFields, ReadOffsets, COffsets
<1>2. ASSUME NEW name, NEW i, NEW j, At(name, i, j) PROVE name \in Found
  <2>1. GoOffset[i] = COffset[j]
    BY <1>2, GoOffsetValues, COffsetValues
  <2>2. Finds(name)
    BY <1>2, <2>1, GoReadsValue DEF Finds
  <2>3. QED BY <1>2, <2>2 DEF Found
<1> HIDE DEF At
<1>3. QED BY <1>1, <1>2

(* And a record is as long as parseEvent wants it.                          *)
LEMMA RecordParses == Parses
<1>1. COffset[27] = 504 /\ CFields[27][2] = 4 /\ Len(CFields) = 27
  BY COffsetValues DEF CFields, COffsets
<1>2. QED BY <1>1 DEF Parses, SizeOfEvent, AlignUp, ExpectedSize

-----------------------------------------------------------------------------
(* What parseEvent makes of a record.                                       *)

(* The fields of struct event, of which parseEvent finds some.              *)
LEMMA FieldsOfZeroEvent == DOMAIN ZeroEvent = Fields /\ Found \subseteq Fields
BY DEF ZeroEvent, Fields, Found

(* Four bytes survive the little-endian load and being taken apart again.   *)
LEMMA AddressRoundTrip ==
  ASSUME NEW address, \A i \in 1..4 : address[i] \in 0..255
  PROVE  ipv4FromRaw(LoadLE(address)) = <<address[1], address[2], address[3], address[4]>>
<1> DEFINE a == address[1]
           b == address[2]
           c == address[3]
           d == address[4]
           v == a + 256 * (b + 256 * (c + 256 * d))
<1>1. a \in 0..255 /\ b \in 0..255 /\ c \in 0..255 /\ d \in 0..255
  OBVIOUS
<1>2. LoadLE(address) = v
  BY DEF LoadLE
<1> HIDE DEF a, b, c, d
<1>3. /\ v \div 256 = b + 256 * (c + 256 * d) /\ v % 256 = a
      /\ v \div 65536 = c + 256 * d
      /\ v \div 16777216 = d
  BY <1>1
<1>4. (v \div 256) % 256 = b /\ (v \div 65536) % 256 = c /\ (v \div 16777216) % 256 = d
  BY <1>1, <1>3
<1> HIDE DEF v
<1>5. ipv4FromRaw(v) = <<a, b, c, d>>
  BY <1>3, <1>4 DEF ipv4FromRaw
<1>6. QED BY <1>2, <1>5 DEF a, b, c, d

(* Numbers come through as they are; of the addresses, those of the event's *)
(* own family do, and the others are nil.                                   *)
LEMMA ParsedNumber ==
  ASSUME NEW r,
         NEW name \in {"pid", "tgid", "type", "family", "protocol", "direction", "packet_len",
                       "src_port", "dst_port"}
  PROVE  parseEvent(r)[name] = r[name]
<1>1. name \in Found /\ name \in DOMAIN ZeroEvent
  BY NetworkFieldsFound, FieldsOfZeroEvent
<1>2. name \notin {"dst_addr", "src_addr", "dst_addr6", "src_addr6"}
  OBVIOUS
<1>3. QED BY <1>1, <1>2 DEF parseEvent, Read

LEMMA ParsedAddress ==
  ASSUME NEW r
  PROVE  /\ \A name \in {"src_addr", "dst_addr"} :
              parseEvent(r)[name] =
                IF r["family"] = FAM_INET THEN ipv4FromRaw(LoadLE(r[name])) ELSE NilIP
         /\ \A name \in {"src_addr6", "dst_addr6"} :
              parseEvent(r)[name] = IF r["family"] = FAM_INET6 THEN r[name] ELSE NilIP
<1>1. {"src_addr", "dst_addr", "src_addr6", "dst_addr6", "family"} \subseteq Found \intersect DOMAIN ZeroEvent
  BY NetworkFieldsFound, FieldsOfZeroEvent
<1>2. Read(r, "family") = r["family"]
  BY <1>1 DEF Read
<1>3. QED BY <1>1, <1>2 DEF parseEvent, Read

(* The numbers of the types that the network store takes.                   *)
LEMMA NetworkTypes ==
  /\ TypeNumber("CONNECT") = 3 /\ TypeNumber("ACCEPT") = 7 /\ TypeNumber("LISTEN") = 8
  /\ TypeNumber("SOCKET") = 13 /\ TypeNumber("PACKET") = 16
  /\ DOMAIN EventTypes = 1..16
  /\ EventTypes[3] = "CONNECT" /\ EventTypes[7] = "ACCEPT" /\ EventTypes[8] = "LISTEN"
  /\ EventTypes[13] = "SOCKET" /\ EventTypes[16] = "PACKET"
<1>1. \A i \in 1..16 : /\ EventTypes[i] = "CONNECT" <=> i = 3
                       /\ EventTypes[i] = "ACCEPT" <=> i = 7
                       /\ EventTypes[i] = "LISTEN" <=> i = 8
                       /\ EventTypes[i] = "SOCKET" <=> i = 13
                       /\ EventTypes[i] = "PACKET" <=> i = 16
  BY DEF EventTypes
<1>2. DOMAIN EventTypes = 1..16
  BY DEF EventTypes
<1>3. QED BY <1>1, <1>2 DEF TypeNumber

(* The code's names of protocols are those of NameOf.                       *)
LEMMA ProtocolNames == ASSUME NEW ev PROVE ProtocolName(ev) = NameOf(ev["protocol"])
BY DEF ProtocolName, NameOf, PROTO_ICMP, PROTO_TCP, PROTO_UDP, PROTO_ICMPV6, PROTO_SCTP

(* The addresses of an event, as Flow shows them.                           *)
LEMMA ShownAddress ==
  ASSUME NEW r, NEW v4 \in {"src_addr", "dst_addr"}, NEW v6 \in {"src_addr6", "dst_addr6"},
         r["family"] \in {FAM_INET, FAM_INET6},
         r["family"] = FAM_INET => r[v4] \in {SrcIP4, DstIP4},
         r["family"] = FAM_INET6 => r[v6] \in {SrcIP6, DstIP6}
  PROVE  ipString(parseEvent(r)[v4], parseEvent(r)[v6]) =
           IF r["family"] = FAM_INET THEN r[v4] ELSE r[v6]
<1>1. ipv4FromRaw(LoadLE(SrcIP4)) = SrcIP4 /\ ipv4FromRaw(LoadLE(DstIP4)) = DstIP4
  <2>1. \A i \in 1..4 : SrcIP4[i] \in 0..255 /\ DstIP4[i] \in 0..255
    BY DEF SrcIP4, DstIP4
  <2>2. /\ <<SrcIP4[1], SrcIP4[2], SrcIP4[3], SrcIP4[4]>> = SrcIP4
        /\ <<DstIP4[1], DstIP4[2], DstIP4[3], DstIP4[4]>> = DstIP4
    BY DEF SrcIP4, DstIP4
  <2>3. QED BY <2>1, <2>2, AddressRoundTrip
<1>2. SrcIP6 # NilIP /\ DstIP6 # NilIP
  <2>1. DOMAIN SrcIP6 = 1..16 /\ DOMAIN DstIP6 = 1..16 /\ DOMAIN NilIP = {}
    BY DEF SrcIP6, DstIP6, NilIP
  <2>2. 1 \in 1..16
    OBVIOUS
  <2>3. QED BY <2>1, <2>2
<1>3. /\ parseEvent(r)[v4] = IF r["family"] = FAM_INET THEN ipv4FromRaw(LoadLE(r[v4])) ELSE NilIP
      /\ parseEvent(r)[v6] = IF r["family"] = FAM_INET6 THEN r[v6] ELSE NilIP
  BY ParsedAddress
<1>4. FAM_INET # FAM_INET6
  BY DEF FAM_INET, FAM_INET6
<1>5. QED BY <1>1, <1>2, <1>3, <1>4 DEF ipString

(* The flow of an event that a packet parser made.                          *)
InboundFlow(family, protocol, ports, length, container) ==
  [type |-> "PACKET", family |-> IF family = FAM_INET THEN "IPv4" ELSE "IPv6",
   protocol |-> NameOf(protocol), direction |-> "INBOUND", pid |-> 0,
   container |-> container,
   src |-> IF family = FAM_INET THEN SrcIP4 ELSE SrcIP6, sport |-> ports[1],
   dst |-> IF family = FAM_INET THEN DstIP4 ELSE DstIP6, dport |-> ports[2],
   length |-> length]

(* It is that, through the layout, parseEvent and the names.                *)
LEMMA FlowOfPacketEvent ==
  ASSUME NEW family \in {FAM_INET, FAM_INET6}, NEW protocol \in 0..255, NEW ports, NEW length, NEW container
  PROVE  LET ev == parseEvent(PacketEvent(family, protocol, ports, 1, length))
         IN  /\ NetworkEvent(ev) /\ ev["tgid"] = 0
             /\ Flow(ev, container) = InboundFlow(family, protocol, ports, length, container)
<1> DEFINE r == PacketEvent(family, protocol, ports, 1, length)
           ev == parseEvent(r)
<1>1. FAM_INET # FAM_INET6
  BY DEF FAM_INET, FAM_INET6
<1>2. {"pid", "tgid", "type", "family", "protocol", "direction", "packet_len", "src_addr",
       "dst_addr", "src_addr6", "dst_addr6", "src_port", "dst_port"} \subseteq DOMAIN ZeroEvent
  BY NetworkFieldsFound, FieldsOfZeroEvent
<1>3. ZeroEvent["pid"] = 0 /\ ZeroEvent["tgid"] = 0
  BY <1>2 DEF ZeroEvent, Addresses
<1>4. /\ r["type"] = 16 /\ r["family"] = family /\ r["protocol"] = protocol
      /\ r["direction"] = 1 /\ r["packet_len"] = length
      /\ r["src_port"] = ports[1] /\ r["dst_port"] = ports[2]
      /\ r["pid"] = 0 /\ r["tgid"] = 0
  BY <1>2, <1>3, NetworkTypes DEF PacketEvent
<1>5. /\ family = FAM_INET => r["src_addr"] = SrcIP4 /\ r["dst_addr"] = DstIP4
      /\ family = FAM_INET6 => r["src_addr6"] = SrcIP6 /\ r["dst_addr6"] = DstIP6
  BY <1>1, <1>2 DEF PacketEvent
<1> HIDE DEF r
<1>6. /\ ev["type"] = 16 /\ ev["family"] = family /\ ev["protocol"] = protocol
      /\ ev["direction"] = 1 /\ ev["packet_len"] = length
      /\ ev["src_port"] = ports[1] /\ ev["dst_port"] = ports[2]
      /\ ev["pid"] = 0 /\ ev["tgid"] = 0
  BY <1>4, ParsedNumber
<1>7. /\ ipString(ev["src_addr"], ev["src_addr6"]) = IF family = FAM_INET THEN SrcIP4 ELSE SrcIP6
      /\ ipString(ev["dst_addr"], ev["dst_addr6"]) = IF family = FAM_INET THEN DstIP4 ELSE DstIP6
  BY <1>1, <1>4, <1>5, ShownAddress
<1> HIDE DEF ev
<1>8. TypeName(ev) = "PACKET" /\ FamilyName(ev) = (IF family = FAM_INET THEN "IPv4" ELSE "IPv6")
      /\ DirectionName(ev) = "INBOUND"
  BY <1>1, <1>6, NetworkTypes DEF TypeName, FamilyName, DirectionName
<1>9. NetworkEvent(ev)
  BY <1>8 DEF NetworkEvent
<1>10. ProtocolName(ev) = NameOf(protocol)
  BY <1>6, ProtocolNames
<1>11. Flow(ev, container) = InboundFlow(family, protocol, ports, length, container)
  BY <1>6, <1>7, <1>8, <1>10 DEF Flow, InboundFlow
<1>12. QED BY <1>6, <1>9, <1>11 DEF r, ev

-----------------------------------------------------------------------------
(* The headers of a packet, and the walk over them.                         *)

(* An extension header.                                                     *)
Header == [type : Extensions, ext : 0..255]

(* The types of a packet's fields, one by one.                              *)
LEMMA PacketFields ==
  ASSUME NEW p, IsPacket(p)
  PROVE  /\ p.tags \in Nat /\ p.ihl \in 0..15 /\ p.upper \in 0..255
         /\ p.later \in BOOLEAN /\ p.len \in Nat
         /\ p.chain \in Seq(Header)
         /\ p.ether = "IPv4" => p.chain = <<>>
         /\ p.ether = "IPv6" => p.upper \notin Extensions
BY DEF IsPacket, Header

(* A header is at least eight bytes long, and hdr_len measures it.          *)
LEMMA HeaderMeasured ==
  ASSUME NEW h \in Header
  PROVE  /\ HeaderLen(h) \in Nat /\ HeaderLen(h) >= 8
         /\ HeaderLen(h) = IF h.type = FRAGMENT THEN 8 ELSE hdr_len(h.type, h.ext)
BY DEF Header, Extensions, HeaderLen, hdr_len, HOPOPTS, ROUTING, FRAGMENT, AUTH, DSTOPTS

(* Start's recursion: the first header is behind the fixed one, and each of *)
(* the others behind the one before it.                                     *)
LEMMA StartEquations ==
  ASSUME NEW p, p.chain \in Seq(Header)
  PROVE  /\ Start(p, 1) = 40
         /\ \A k \in 1..(Len(p.chain) + 1) : Start(p, k) \in Nat
         /\ \A k \in 1..Len(p.chain) : Start(p, k + 1) = Start(p, k) + HeaderLen(p.chain[k])
<1> DEFINE n == Len(p.chain)
           Sum(f, i) == IF i = 0 THEN 40 ELSE f[i - 1] + HeaderLen(p.chain[i])
           Solves(f) == f = [i \in 0..n |-> Sum(f, i)]
           start == CHOOSE f : Solves(f)
           step == [z \in (1..n) \X Nat |-> z[2] + HeaderLen(p.chain[z[1]])]
<1>1. n \in Nat /\ \A i \in 1..n : HeaderLen(p.chain[i]) \in Nat
  BY HeaderMeasured
<1>2. step \in [(1..n) \X Nat -> Nat]
  BY <1>1
<1>3. \A i \in 1..n, x \in Nat : step[<<i, x>>] = x + HeaderLen(p.chain[i])
  OBVIOUS
<1>4. Recursive(n, Nat, 40, step)
  <2> HIDE DEF n, step
  <2>1. 40 \in Nat
    OBVIOUS
  <2>2. QED BY <1>1, <1>2, <2>1, PrimitiveRecursion
<1> HIDE DEF step
<1>5. PICK f \in [0..n -> Nat] : f[0] = 40 /\ \A i \in 1..n : f[i] = step[<<i, f[i - 1]>>]
  BY <1>4 DEF Recursive
<1>6. Solves(f)
  <2>1. \A i \in 1..n : i - 1 \in 0..n /\ f[i - 1] \in Nat
    BY <1>1
  <2>2. \A i \in 1..n : f[i] = f[i - 1] + HeaderLen(p.chain[i])
    BY <1>3, <1>5, <2>1
  <2>3. \A i \in 0..n : f[i] = Sum(f, i)
    BY <1>1, <1>5, <2>2
  <2> HIDE DEF Sum
  <2>4. QED BY <2>3
<1>7. start = [i \in 0..n |-> Sum(start, i)]
  <2>1. Solves(start)
    <3> HIDE DEF Solves
    <3>1. QED BY <1>6
  <2> HIDE DEF start
  <2>2. QED BY <2>1
<1>8. \A k : Start(p, k) = start[k - 1]
  BY DEF Start
<1> HIDE DEF start
<1>9. start[0] = 40 /\ \A i \in 1..n : start[i] = start[i - 1] + HeaderLen(p.chain[i])
  <2>1. 0 \in 0..n /\ \A i \in 1..n : i \in 0..n /\ i # 0
    BY <1>1
  <2>2. \A i \in 0..n : start[i] = Sum(start, i)
    <3> HIDE DEF Sum
    <3>1. QED BY <1>7
  <2>3. QED BY <2>1, <2>2
<1>10. \A i \in 0..n : start[i] \in Nat
  <2> DEFINE S == {i \in 0..n : start[i] \in Nat}
  <2>1. 0 \in S /\ \A i \in 0..(n - 1) : i \in S => i + 1 \in S
    BY <1>1, <1>9
  <2> HIDE DEF S
  <2>2. 0..n \subseteq S
    BY <1>1, <2>1, BoundedInduction
  <2>3. QED BY <2>2 DEF S
<1>11. /\ 1 - 1 = 0
       /\ \A k \in 1..(n + 1) : k - 1 \in 0..n
       /\ \A k \in 1..n : k + 1 - 1 = k
  BY <1>1
<1>12. Start(p, 1) = 40 /\ \A k \in 1..(n + 1) : Start(p, k) \in Nat
  BY <1>8, <1>9, <1>10, <1>11
<1>13. ASSUME NEW k \in 1..n PROVE Start(p, k + 1) = Start(p, k) + HeaderLen(p.chain[k])
  BY <1>8, <1>9, <1>11
<1>14. QED BY <1>12, <1>13

(* Headers do not overlap.                                                  *)
LEMMA StartGrows ==
  ASSUME NEW p, p.chain \in Seq(Header)
  PROVE  \A j, k \in 1..(Len(p.chain) + 1) : j < k => Start(p, j) < Start(p, k)
<1> DEFINE n == Len(p.chain)
           S == {k \in 0..n : \A j \in 1..k : Start(p, j) < Start(p, k + 1)}
<1>1. n \in Nat /\ \A k \in 1..n : p.chain[k] \in Header
  OBVIOUS
<1>2. ASSUME NEW k \in 1..n PROVE Start(p, k) < Start(p, k + 1)
  <2>1. Start(p, k + 1) = Start(p, k) + HeaderLen(p.chain[k]) /\ Start(p, k) \in Nat
    BY <1>1, StartEquations
  <2>2. HeaderLen(p.chain[k]) \in Nat /\ HeaderLen(p.chain[k]) >= 8
    BY <1>1, HeaderMeasured
  <2>3. QED BY <2>1, <2>2
<1>3. 0 \in S
  BY <1>1
<1>4. ASSUME NEW i \in 0..(n - 1), i \in S PROVE i + 1 \in S
  <2>1. i + 1 \in 1..n /\ Start(p, i + 1) < Start(p, i + 1 + 1)
    BY <1>1, <1>2
  <2>2. ASSUME NEW j \in 1..(i + 1) PROVE Start(p, j) < Start(p, i + 1 + 1)
    <3>1. CASE j = i + 1
      BY <2>1, <3>1
    <3>2. CASE j # i + 1
      <4>1. Start(p, j) < Start(p, i + 1)
        BY <1>1, <1>4, <3>2
      <4>2. Start(p, j) \in Nat /\ Start(p, i + 1) \in Nat /\ Start(p, i + 1 + 1) \in Nat
        BY <1>1, StartEquations
      <4>3. QED BY <2>1, <4>1, <4>2
    <3>3. QED BY <3>1, <3>2
  <2>3. QED BY <1>1, <2>1, <2>2
<1>5. 0..n \subseteq S
  <2> HIDE DEF S
  <2>1. QED BY <1>1, <1>3, <1>4, BoundedInduction
<1>6. ASSUME NEW j \in 1..(n + 1), NEW k \in 1..(n + 1), j < k PROVE Start(p, j) < Start(p, k)
  <2>1. k - 1 \in 0..n /\ j \in 1..(k - 1) /\ k - 1 + 1 = k
    BY <1>1, <1>6
  <2>2. k - 1 \in S
    BY <1>5, <2>1
  <2>3. QED BY <2>1, <2>2
<1>7. QED BY <1>6

(* What a program reads where header k starts is header k.                  *)
LEMMA HeaderFound ==
  ASSUME NEW p, p.chain \in Seq(Header), NEW k \in 1..Len(p.chain)
  PROVE  HeaderAt(p, Start(p, k)) = [next |-> TypeOf(p, k + 1), ext |-> p.chain[k].ext]
<1> DEFINE here == {j \in DOMAIN p.chain : Start(p, j) = Start(p, k)}
<1>1. ASSUME NEW j \in DOMAIN p.chain, j # k PROVE Start(p, j) # Start(p, k)
  <2>1. j \in 1..(Len(p.chain) + 1) /\ k \in 1..(Len(p.chain) + 1) /\ (j < k \/ k < j)
    BY <1>1
  <2>2. Start(p, j) \in Nat /\ Start(p, k) \in Nat
    BY <2>1, StartEquations
  <2>3. QED BY <2>1, <2>2, StartGrows
<1>2. here = {k}
  BY <1>1
<1>3. (CHOOSE j \in here : TRUE) = k
  <2> HIDE DEF here
  <2>1. QED BY <1>2
<1> HIDE DEF here
<1>4. QED BY <1>2, <1>3 DEF HeaderAt, here

Walker == [next : 0..255, cursor : Nat, done : BOOLEAN, refused : BOOLEAN]
WalkInit(p) == [next |-> TypeOf(p, 1), cursor |-> 40, done |-> FALSE, refused |-> FALSE]

(* Every number of a header is a byte, and an extension's up to the last.   *)
LEMMA TypeOfType ==
  ASSUME NEW p, IsPacket(p), NEW k \in Nat \ {0}
  PROVE  /\ TypeOf(p, k) \in 0..255
         /\ k <= Len(p.chain) => TypeOf(p, k) \in Extensions
<1>1. Extensions \subseteq 0..255
  BY DEF Extensions, HOPOPTS, ROUTING, FRAGMENT, AUTH, DSTOPTS
<1>2. CASE k <= Len(p.chain)
  <2>1. p.chain[k] \in Header
    BY <1>2, PacketFields
  <2>2. p.chain[k].type \in Extensions
    BY <2>1 DEF Header
  <2>3. TypeOf(p, k) = p.chain[k].type
    BY <1>2, PacketFields DEF TypeOf
  <2>4. QED BY <1>1, <2>2, <2>3
<1>3. CASE ~(k <= Len(p.chain))
  <2>1. Len(p.chain) \in Nat /\ p.upper \in 0..255
    BY PacketFields
  <2>2. QED BY <1>3, <2>1 DEF TypeOf
<1>4. QED BY <1>2, <1>3

(* A round keeps the type of the walker.                                    *)
LEMMA WalkStepType ==
  ASSUME NEW p, IsPacket(p), NEW end \in Nat, NEW w \in Walker
  PROVE  WalkStep(p, end, w) \in Walker
<1> DEFINE h == HeaderAt(p, w.cursor)
           len == IF w.next = FRAGMENT THEN 8 ELSE hdr_len(w.next, h.ext)
<1>1. h.next \in 0..255 /\ h.ext \in 0..255
  <2> DEFINE here == {k \in DOMAIN p.chain : Start(p, k) = w.cursor}
             k == CHOOSE k \in here : TRUE
  <2>1. CASE here = {}
    BY <2>1 DEF HeaderAt
  <2>2. CASE here # {}
    <3>1. k \in 1..Len(p.chain)
      BY <2>2, PacketFields
    <3>2. h = [next |-> TypeOf(p, k + 1), ext |-> p.chain[k].ext]
      BY <2>2 DEF HeaderAt
    <3> HIDE DEF k
    <3>3. p.chain[k] \in Header /\ k + 1 \in Nat \ {0}
      BY <3>1, PacketFields
    <3>4. TypeOf(p, k + 1) \in 0..255
      BY <3>3, TypeOfType
    <3>5. QED BY <3>2, <3>3, <3>4 DEF Header
  <2>3. QED BY <2>1, <2>2
<1>2. len \in Nat
  <2> HIDE DEF h
  <2>1. QED BY <1>1 DEF hdr_len, Walker
<1> HIDE DEF h, len
<1>3. WalkStep(p, end, w) \in {[w EXCEPT !.done = TRUE], [w EXCEPT !.done = TRUE, !.refused = TRUE],
                               [w EXCEPT !.next = h.next, !.cursor = @ + len]}
  BY DEF WalkStep, h, len
<1>4. w.next \in 0..255 /\ w.cursor \in Nat /\ w.done \in BOOLEAN /\ w.refused \in BOOLEAN
      /\ w = [next |-> w.next, cursor |-> w.cursor, done |-> w.done, refused |-> w.refused]
  BY DEF Walker
<1>5. CASE WalkStep(p, end, w) = [w EXCEPT !.done = TRUE]
  BY <1>5 DEF Walker
<1>6. CASE WalkStep(p, end, w) = [w EXCEPT !.done = TRUE, !.refused = TRUE]
  BY <1>6 DEF Walker
<1>7. CASE WalkStep(p, end, w) = [w EXCEPT !.next = h.next, !.cursor = @ + len]
  <2>1. w.cursor + len \in Nat
    BY <1>2, <1>4
  <2>2. QED BY <1>1, <1>7, <2>1 DEF Walker
<1>8. QED BY <1>3, <1>5, <1>6, <1>7

(* WalkRounds' recursion: n steps from the first header.                    *)
LEMMA WalkEquations ==
  ASSUME NEW p, IsPacket(p), NEW end \in Nat, NEW n \in Nat
  PROVE  \E walk : /\ walk[0] = WalkInit(p)
                   /\ \A i \in 1..n : walk[i] = WalkStep(p, end, walk[i - 1])
                   /\ WalkRounds(p, end, n) = walk[n]
<1> DEFINE Round(f, i) == IF i = 0 THEN WalkInit(p) ELSE WalkStep(p, end, f[i - 1])
           Solves(f) == f = [i \in 0..n |-> Round(f, i)]
           walk == CHOOSE f : Solves(f)
           step == [z \in (1..n) \X Walker |-> WalkStep(p, end, z[2])]
<1>1. WalkInit(p) \in Walker
  <2>1. 1 \in Nat \ {0}
    OBVIOUS
  <2>2. TypeOf(p, 1) \in 0..255
    BY <2>1, TypeOfType
  <2>3. QED BY <2>2 DEF WalkInit, Walker
<1>2. step \in [(1..n) \X Walker -> Walker]
  BY WalkStepType
<1>3. \A i \in 1..n, x \in Walker : step[<<i, x>>] = WalkStep(p, end, x)
  OBVIOUS
<1> HIDE DEF step
<1>4. Recursive(n, Walker, WalkInit(p), step)
  BY <1>1, <1>2, PrimitiveRecursion
<1>5. PICK f \in [0..n -> Walker] :
        f[0] = WalkInit(p) /\ \A i \in 1..n : f[i] = step[<<i, f[i - 1]>>]
  BY <1>4 DEF Recursive
<1>6. Solves(f)
  <2>1. \A i \in 1..n : i - 1 \in 0..n /\ f[i - 1] \in Walker
    OBVIOUS
  <2>2. \A i \in 1..n : f[i] = WalkStep(p, end, f[i - 1])
    BY <1>3, <1>5, <2>1
  <2>3. \A i \in 0..n : f[i] = Round(f, i)
    BY <1>5, <2>2
  <2> HIDE DEF Round
  <2>4. QED BY <2>3
<1>7. walk = [i \in 0..n |-> Round(walk, i)]
  <2>1. Solves(walk)
    <3> HIDE DEF Solves
    <3>1. QED BY <1>6
  <2> HIDE DEF walk
  <2>2. QED BY <2>1
<1>8. WalkRounds(p, end, n) = walk[n]
  BY DEF WalkRounds, WalkInit
<1> HIDE DEF walk
<1>9. walk[0] = WalkInit(p) /\ \A i \in 1..n : walk[i] = WalkStep(p, end, walk[i - 1])
  <2>1. 0 \in 0..n /\ \A i \in 1..n : i \in 0..n /\ i # 0
    OBVIOUS
  <2>2. \A i \in 0..n : walk[i] = Round(walk, i)
    <3> HIDE DEF Round
    <3>1. QED BY <1>7
  <2>3. QED BY <2>1, <2>2
<1>10. QED BY <1>8, <1>9

(* The first m headers are short enough and in front of the end.            *)
Passable(p, end, m) ==
  \A k \in 1..m : HeaderLen(p.chain[k]) <= 256 /\ Start(p, k + 1) <= end

(* What i rounds leave: the walker stands behind as many headers as there   *)
(* are or as it had rounds for, or it has refused one of these.             *)
AfterRounds(p, end, i, w) ==
  LET m == IF i <= Len(p.chain) THEN i ELSE Len(p.chain)
  IN  IF Passable(p, end, m)
      THEN w = [next |-> TypeOf(p, m + 1), cursor |-> Start(p, m + 1),
                done |-> i > Len(p.chain), refused |-> FALSE]
      ELSE w \in [next : 0..255, cursor : Nat, done : {TRUE}, refused : {TRUE}]

(* One round in front of a header: it is passed or refused.                 *)
LEMMA RoundAtHeader ==
  ASSUME NEW p, IsPacket(p), NEW end \in Nat, NEW k \in 1..Len(p.chain), NEW w,
         w = [next |-> TypeOf(p, k), cursor |-> Start(p, k), done |-> FALSE, refused |-> FALSE]
  PROVE  WalkStep(p, end, w) =
           IF HeaderLen(p.chain[k]) <= 256 /\ Start(p, k + 1) <= end
           THEN [next |-> TypeOf(p, k + 1), cursor |-> Start(p, k + 1),
                 done |-> FALSE, refused |-> FALSE]
           ELSE [next |-> TypeOf(p, k), cursor |-> Start(p, k), done |-> TRUE, refused |-> TRUE]
<1> DEFINE h == HeaderAt(p, w.cursor)
           len == IF w.next = FRAGMENT THEN 8 ELSE hdr_len(w.next, h.ext)
<1>1. p.chain \in Seq(Header) /\ p.chain[k] \in Header
  BY PacketFields
<1>2. w.next = p.chain[k].type /\ w.next \in Extensions
  BY <1>1 DEF TypeOf, Header
<1>3. h = [next |-> TypeOf(p, k + 1), ext |-> p.chain[k].ext]
  BY <1>1, HeaderFound
<1>4. len = HeaderLen(p.chain[k]) /\ len \in Nat /\ len >= 8
  <2>1. h.ext = p.chain[k].ext
    BY <1>3
  <2> HIDE DEF h
  <2>2. QED BY <1>1, <1>2, <2>1, HeaderMeasured
<1>5. Start(p, k + 1) = Start(p, k) + len /\ Start(p, k) \in Nat
  BY <1>1, <1>4, StartEquations
<1> HIDE DEF h, len
<1>6. CASE len <= 256 /\ Start(p, k) + len <= end
  <2>1. ~ \/ w.cursor + (IF w.next = FRAGMENT THEN 8 ELSE 2) > end
          \/ len > 256
          \/ w.cursor + len > end
    BY <1>4, <1>5, <1>6
  <2>2. WalkStep(p, end, w) = [w EXCEPT !.next = h.next, !.cursor = @ + len]
    BY <1>2, <2>1 DEF WalkStep, h, len
  <2>3. WalkStep(p, end, w) \in
          [next : {h.next}, cursor : {Start(p, k) + len}, done : {FALSE}, refused : {FALSE}]
    BY <2>2
  <2>4. WalkStep(p, end, w) =
          [next |-> h.next, cursor |-> Start(p, k) + len, done |-> FALSE, refused |-> FALSE]
    BY <2>3
  <2>5. h.next = TypeOf(p, k + 1)
    BY <1>3
  <2>6. QED BY <1>4, <1>5, <1>6, <2>4, <2>5
<1>7. CASE ~(len <= 256 /\ Start(p, k) + len <= end)
  <2>1. \/ len > 256
        \/ w.cursor + len > end
    BY <1>4, <1>5, <1>7
  <2>2. WalkStep(p, end, w) = [w EXCEPT !.done = TRUE, !.refused = TRUE]
    BY <1>2, <2>1 DEF WalkStep, h, len
  <2>3. QED BY <1>4, <1>5, <1>7, <2>2
<1>8. QED BY <1>6, <1>7

(* The rounds keep it so, whatever the number of headers.                   *)
LEMMA RoundKeeps ==
  ASSUME NEW p, IsPacket(p), p.ether = "IPv6", NEW end \in Nat, NEW i \in Nat, NEW w,
         AfterRounds(p, end, i, w)
  PROVE  AfterRounds(p, end, i + 1, WalkStep(p, end, w))
<1> DEFINE n == Len(p.chain)
<1>1. n \in Nat /\ p.upper \notin Extensions
  BY PacketFields
<1>2. CASE i < n /\ Passable(p, end, i)
  <2> DEFINE k == i + 1
  <2>1. k \in 1..n
    BY <1>1, <1>2
  <2>2. w = [next |-> TypeOf(p, k), cursor |-> Start(p, k), done |-> FALSE, refused |-> FALSE]
    <3>1. (IF i <= n THEN i ELSE n) = i /\ (i > n) = FALSE
      BY <1>1, <1>2
    <3>2. QED BY <1>2, <3>1 DEF AfterRounds
  <2>3. Passable(p, end, k) <=> HeaderLen(p.chain[k]) <= 256 /\ Start(p, k + 1) <= end
    <3>1. 1..k = 1..i \union {k}
      BY <1>1
    <3>2. QED BY <1>2, <3>1 DEF Passable
  <2> HIDE DEF k
  <2>4. WalkStep(p, end, w) =
           IF Passable(p, end, k)
           THEN [next |-> TypeOf(p, k + 1), cursor |-> Start(p, k + 1),
                 done |-> FALSE, refused |-> FALSE]
           ELSE [next |-> TypeOf(p, k), cursor |-> Start(p, k), done |-> TRUE, refused |-> TRUE]
    BY <2>1, <2>2, <2>3, RoundAtHeader
  <2>5. (IF k <= n THEN k ELSE n) = k /\ (k > n) = FALSE
    BY <1>1, <2>1
  <2>6. TypeOf(p, k) \in 0..255 /\ Start(p, k) \in Nat
    BY <1>1, <2>1, PacketFields, StartEquations, TypeOfType
  <2>7. AfterRounds(p, end, k, WalkStep(p, end, w))
    <3>1. CASE Passable(p, end, k)
      BY <2>4, <2>5, <3>1 DEF AfterRounds
    <3>2. CASE ~Passable(p, end, k)
      <4>1. WalkStep(p, end, w) \in [next : 0..255, cursor : Nat, done : {TRUE}, refused : {TRUE}]
        BY <2>4, <2>6, <3>2
      <4>2. QED BY <2>5, <3>2, <4>1 DEF AfterRounds
    <3>3. QED BY <3>1, <3>2
  <2>8. QED BY <2>7 DEF k
<1>3. CASE ~(i < n) /\ Passable(p, end, n)
  <2>1. w = [next |-> TypeOf(p, n + 1), cursor |-> Start(p, n + 1), done |-> i > n, refused |-> FALSE]
    <3>1. (IF i <= n THEN i ELSE n) = n
      BY <1>1, <1>3
    <3>2. QED BY <1>3, <3>1 DEF AfterRounds
  <2>2. TypeOf(p, n + 1) \notin Extensions
    BY <1>1 DEF TypeOf
  <2>3. WalkStep(p, end, w) = [w EXCEPT !.done = TRUE]
    BY <2>1, <2>2 DEF WalkStep
  <2>4. (IF i + 1 <= n THEN i + 1 ELSE n) = n /\ i + 1 > n
    BY <1>1, <1>3
  <2>5. QED BY <1>3, <2>1, <2>3, <2>4 DEF AfterRounds
<1>4. CASE ~Passable(p, end, IF i <= n THEN i ELSE n)
  <2>1. w \in [next : 0..255, cursor : Nat, done : {TRUE}, refused : {TRUE}]
    BY <1>4 DEF AfterRounds
  <2>2. WalkStep(p, end, w) = w
    BY <2>1 DEF WalkStep
  <2>3. ~Passable(p, end, IF i + 1 <= n THEN i + 1 ELSE n)
    BY <1>1, <1>4 DEF Passable
  <2>4. QED BY <2>1, <2>2, <2>3 DEF AfterRounds
<1>5. QED BY <1>1, <1>2, <1>3, <1>4

(* What the walk returns, with as many rounds as the program makes.         *)
LEMMA WalkResult ==
  ASSUME NEW p, IsPacket(p), p.ether = "IPv6", NEW end \in Nat
  PROVE  AfterRounds(p, end, 8, Walk(p, end))
<1>1. PICK walk : /\ walk[0] = WalkInit(p)
                  /\ \A i \in 1..8 : walk[i] = WalkStep(p, end, walk[i - 1])
                  /\ WalkRounds(p, end, 8) = walk[8]
  BY WalkEquations
<1> DEFINE S == {i \in 0..8 : AfterRounds(p, end, i, walk[i])}
<1>2. 0 \in S
  <2> DEFINE n == Len(p.chain)
  <2>1. n \in Nat /\ Start(p, 1) = 40
    BY PacketFields, StartEquations
  <2>2. (IF 0 <= n THEN 0 ELSE n) = 0 /\ (0 > n) = FALSE /\ Passable(p, end, 0)
    BY <2>1 DEF Passable
  <2>3. walk[0] = [next |-> TypeOf(p, 0 + 1), cursor |-> Start(p, 0 + 1), done |-> FALSE, refused |-> FALSE]
    <3>1. 0 + 1 = 1
      OBVIOUS
    <3>2. QED BY <1>1, <2>1, <3>1 DEF WalkInit
  <2>4. AfterRounds(p, end, 0, walk[0])
    BY <2>2, <2>3 DEF AfterRounds
  <2>5. QED BY <2>4
<1>3. ASSUME NEW i \in 0..7, i \in S PROVE i + 1 \in S
  <2>1. i \in Nat /\ i + 1 \in 1..8 /\ i + 1 - 1 = i
    OBVIOUS
  <2>2. AfterRounds(p, end, i + 1, WalkStep(p, end, walk[i]))
    BY <1>3, <2>1, RoundKeeps
  <2>3. QED BY <1>1, <2>1, <2>2
<1>4. 0..8 \subseteq S
  <2> HIDE DEF S
  <2>1. \A i \in 0..(8 - 1) : i \in S => i + 1 \in S
    BY <1>3
  <2>2. QED BY <1>2, <2>1, BoundedInduction
<1>5. QED BY <1>1, <1>4 DEF Walk

(* A packet is legible as its headers are passable.                         *)
LEMMA LegibleIsPassable ==
  ASSUME NEW p, IsPacket(p), p.ether = "IPv6"
  PROVE  /\ Walked(p) \in 0..8 /\ Walked(p) <= Len(p.chain)
         /\ Legible(p) <=> p.len >= 40 /\ Passable(p, p.len, Walked(p))
<1> DEFINE n == Len(p.chain)
           m == Walked(p)
<1>1. n \in Nat /\ p.len \in Nat /\ p.chain \in Seq(Header)
  BY PacketFields
<1>2. m \in 0..8 /\ m <= n
  <2>1. m = IF n < 8 THEN n ELSE 8
    BY DEF Walked
  <2> HIDE DEF m, n
  <2>2. QED BY <1>1, <2>1
<1>3. \A k \in 1..(n + 1) : Start(p, k) \in Nat
  BY <1>1, StartEquations
<1>4. Start(p, 1) = 40
  BY <1>1, StartEquations
<1>5. Legible(p) <=> p.len >= Start(p, m + 1) /\ \A k \in 1..m : HeaderLen(p.chain[k]) <= 256
  BY DEF Legible
<1> HIDE DEF m
<1>6. ASSUME p.len >= Start(p, m + 1) PROVE p.len >= 40 /\ \A k \in 1..m : Start(p, k + 1) <= p.len
  <2>1. \A k \in 1..(m + 1) : Start(p, k) <= Start(p, m + 1)
    <3>1. ASSUME NEW k \in 1..(m + 1) PROVE Start(p, k) <= Start(p, m + 1)
      <4>1. k \in 1..(n + 1) /\ m + 1 \in 1..(n + 1) /\ (k < m + 1 \/ k = m + 1)
        BY <1>1, <1>2
      <4>2. Start(p, k) \in Nat /\ Start(p, m + 1) \in Nat
        BY <1>3, <4>1
      <4>3. CASE k < m + 1
        <5>1. Start(p, k) < Start(p, m + 1)
          BY <1>1, <4>1, <4>3, StartGrows
        <5>2. QED BY <4>2, <5>1
      <4>4. CASE k = m + 1
        BY <4>2, <4>4
      <4>5. QED BY <4>1, <4>3, <4>4
    <3>2. QED BY <3>1
  <2>2. m + 1 \in 1..(n + 1) /\ 1 \in 1..(m + 1) /\ \A k \in 1..m : k + 1 \in 1..(m + 1) /\ k + 1 \in 1..(n + 1)
    BY <1>1, <1>2
  <2>3. Start(p, m + 1) \in Nat /\ \A k \in 1..m : Start(p, k + 1) \in Nat
    BY <1>3, <2>2
  <2>4. \A k \in 1..m : Start(p, k + 1) <= p.len
    BY <1>1, <1>6, <2>1, <2>2, <2>3
  <2>5. Start(p, 1) <= Start(p, m + 1)
    BY <2>1, <2>2
  <2>6. p.len >= 40
    BY <1>1, <1>4, <1>6, <2>3, <2>5
  <2>7. QED BY <2>4, <2>6
<1>7. ASSUME p.len >= 40, \A k \in 1..m : Start(p, k + 1) <= p.len PROVE p.len >= Start(p, m + 1)
  <2>1. CASE m = 0
    BY <1>4, <1>7, <2>1
  <2>2. CASE m # 0
    <3>1. m \in 1..m
      BY <1>2, <2>2
    <3>2. Start(p, m + 1) <= p.len
      BY <1>7, <3>1
    <3>3. Start(p, m + 1) \in Nat
      BY <1>1, <1>2, <1>3
    <3>4. QED BY <1>1, <3>2, <3>3
  <2>3. QED BY <2>1, <2>2
<1>8. Legible(p) <=> p.len >= 40 /\ Passable(p, p.len, m)
  BY <1>5, <1>6, <1>7 DEF Passable
<1>9. QED BY <1>2, <1>8 DEF m

-----------------------------------------------------------------------------
(* What xdp_ingress emits.                                                  *)

(* A frame with at most one VLAN tag and a legible IP packet.               *)
Observed(p)  == p.tags <= 1 /\ p.ether \in {"IPv4", "IPv6"} /\ Legible(p)
ShownPorts(p) == IF HasPorts(p) THEN <<SrcPort, DstPort>> ELSE <<0, 0>>
FamilyOf(p)  == IF p.ether = "IPv4" THEN FAM_INET ELSE FAM_INET6

(* xdp_ingress on an IPv4 packet: its event, if the header is whole.        *)
LEMMA IPv4Frame ==
  ASSUME NEW p, IsPacket(p), p.ether = "IPv4", ~p.later
  PROVE  XdpIPv4(p) = IF Legible(p)
                      THEN << PacketEvent(FAM_INET, Upper(p), ShownPorts(p), 1, L2(p) + p.len) >>
                      ELSE <<>>
<1>1. p.ihl \in 0..15 /\ p.len \in Nat /\ Len(p.chain) = 0
  BY PacketFields
<1>2. Upper(p) = p.upper
  BY <1>1 DEF Upper, Walked, TypeOf
<1>3. Legible(p) <=> ~(p.len < 20 \/ 4 * p.ihl < 20 \/ 4 * p.ihl > p.len)
  BY <1>1 DEF Legible
<1>4. Transport(p) = 4 * p.ihl
  BY DEF Transport
<1>5. Ports(p, p.upper, 4 * p.ihl, p.len) = ShownPorts(p)
  <2>1. HasPorts(p) <=> p.upper \in PortProtocols /\ 4 * p.ihl + 4 <= p.len
    BY <1>1, <1>2, <1>4 DEF HasPorts
  <2>2. QED BY <1>4, <2>1 DEF Ports, PortsAt, ShownPorts
<1>6. QED BY <1>2, <1>3, <1>5 DEF XdpIPv4

(* Where eight rounds end that refuse no header: behind those walked; and   *)
(* there the ports are, if what follows has any.                            *)
LEMMA WalkReaches ==
  ASSUME NEW p, IsPacket(p), p.ether = "IPv6", NEW end \in Nat, Passable(p, end, Walked(p))
  PROVE  /\ Walk(p, end).next = Upper(p) /\ Walk(p, end).refused = FALSE
         /\ Walk(p, end).cursor = Start(p, Walked(p) + 1)
         /\ Upper(p) \in PortProtocols =>
              Walk(p, end).cursor = Transport(p) /\ Transport(p) \in Nat
<1> DEFINE n == Len(p.chain)
           m == Walked(p)
           w == Walk(p, end)
<1>1. n \in Nat /\ m \in 0..8 /\ m <= n /\ p.chain \in Seq(Header)
  BY PacketFields, LegibleIsPassable
<1>2. AfterRounds(p, end, 8, w)
  BY WalkResult
<1>3. m = IF 8 <= n THEN 8 ELSE n
  BY <1>1 DEF Walked
<1> HIDE DEF w
<1>4. w = [next |-> TypeOf(p, m + 1), cursor |-> Start(p, m + 1), done |-> 8 > n, refused |-> FALSE]
  BY <1>2, <1>3 DEF AfterRounds
<1>5. w.next = Upper(p) /\ w.cursor = Start(p, m + 1) /\ w.refused = FALSE
  BY <1>4 DEF Upper
<1>6. ASSUME Upper(p) \in PortProtocols PROVE w.cursor = Transport(p) /\ Transport(p) \in Nat
  <2>1. PortProtocols \intersect Extensions = {}
    BY DEF PortProtocols, Extensions, PROTO_TCP, PROTO_UDP, PROTO_SCTP, HOPOPTS, ROUTING,
           FRAGMENT, AUTH, DSTOPTS
  <2>2. m + 1 \in Nat \ {0} /\ TypeOf(p, m + 1) \notin Extensions
    BY <1>1, <1>6, <2>1 DEF Upper
  <2>3. ~(m + 1 <= n)
    BY <2>2, TypeOfType
  <2>4. m = n
    BY <1>1, <2>3
  <2>5. w.cursor = Transport(p)
    BY <1>5, <2>4 DEF Transport
  <2>6. m + 1 \in 1..(n + 1)
    BY <1>1
  <2>7. Start(p, m + 1) \in Nat
    BY <1>1, <2>6, StartEquations
  <2>8. QED BY <1>5, <2>5, <2>7
<1>7. QED BY <1>5, <1>6 DEF w

(* And on an IPv6 packet, behind the walk over its extension headers.       *)
LEMMA IPv6Frame ==
  ASSUME NEW p, IsPacket(p), p.ether = "IPv6", ~p.later
  PROVE  XdpIPv6(p) = IF Legible(p)
                      THEN << PacketEvent(FAM_INET6, Upper(p), ShownPorts(p), 1, L2(p) + p.len) >>
                      ELSE <<>>
<1> DEFINE m == Walked(p)
           w == Walk(p, p.len)
<1>1. p.len \in Nat /\ (Legible(p) <=> p.len >= 40 /\ Passable(p, p.len, m))
  BY PacketFields, LegibleIsPassable
<1> HIDE DEF w
<1>2. CASE Legible(p)
  <2>1. /\ w.next = Upper(p) /\ w.refused = FALSE
        /\ Upper(p) \in PortProtocols => w.cursor = Transport(p) /\ Transport(p) \in Nat
    BY <1>1, <1>2, WalkReaches DEF w
  <2>2. Ports(p, w.next, w.cursor, p.len) = ShownPorts(p)
    <3>1. CASE Upper(p) \in PortProtocols
      <4>1. HasPorts(p) <=> w.cursor + 4 <= p.len
        BY <1>1, <2>1, <3>1 DEF HasPorts
      <4>2. QED BY <2>1, <3>1, <4>1 DEF Ports, PortsAt, ShownPorts
    <3>2. CASE Upper(p) \notin PortProtocols
      BY <2>1, <3>2 DEF Ports, ShownPorts, HasPorts
    <3>3. QED BY <3>1, <3>2
  <2>3. ~(p.len < 40 \/ w.refused)
    BY <1>1, <1>2, <2>1
  <2>4. QED BY <1>2, <2>1, <2>2, <2>3 DEF XdpIPv6, w
<1>3. CASE ~Legible(p)
  <2>1. p.len < 40 \/ w.refused
    <3>1. CASE p.len < 40
      BY <3>1
    <3>2. CASE ~Passable(p, p.len, m)
      <4>1. m = IF 8 <= Len(p.chain) THEN 8 ELSE Len(p.chain)
        BY PacketFields DEF Walked
      <4>2. AfterRounds(p, p.len, 8, w)
        BY <1>1, WalkResult DEF w
      <4>3. w.refused = TRUE
        BY <3>2, <4>1, <4>2 DEF AfterRounds
      <4>4. QED BY <4>3
    <3>3. QED BY <1>1, <1>3, <3>1, <3>2
  <2>2. QED BY <1>3, <2>1 DEF XdpIPv6, w
<1>4. QED BY <1>2, <1>3

(* emit_ip_packet makes of every legible packet that it finds, and takes    *)
(* for one, the event of that packet.  It has no end to compare with, so    *)
(* the ports are read whether the packet holds them or not.                 *)
THEOREM BufferEvent ==
  ASSUME NEW p, IsPacket(p), ~p.later, p.ether \in {"IPv4", "IPv6"}, Legible(p),
         p.ether = "IPv6" => VersionIs6(p),
         p.len + 4 <= Unbounded, NEW direction, NEW length
  PROVE  emit_ip_packet(p, direction, length) =
           << PacketEvent(FamilyOf(p), Upper(p),
                          IF Upper(p) \in PortProtocols THEN <<SrcPort, DstPort>> ELSE <<0, 0>>,
                          direction, length) >>
<1>1. p.len \in Nat /\ Unbounded \in Nat
  BY PacketFields DEF Unbounded
<1>2. CASE p.ether = "IPv4"
  <2>1. p.ihl \in 0..15 /\ Len(p.chain) = 0
    BY <1>2, PacketFields
  <2>2. Upper(p) = p.upper
    BY <2>1 DEF Upper, Walked, TypeOf
  <2>3. 4 * p.ihl = Transport(p) /\ 4 * p.ihl + 4 <= Unbounded
    BY <1>2, <2>1 DEF Transport, Unbounded
  <2>4. QED BY <1>2, <2>2, <2>3 DEF emit_ip_packet, Ports, PortsAt, FamilyOf
<1>3. CASE p.ether = "IPv6"
  <2> DEFINE w == Walk(p, Unbounded)
             m == Walked(p)
  <2>1. p.len >= 40 /\ Passable(p, p.len, m) /\ m \in 0..8 /\ m <= Len(p.chain)
    BY <1>3, LegibleIsPassable
  <2>2. p.chain \in Seq(Header) /\ Len(p.chain) \in Nat
    BY PacketFields
  <2>3. \A k \in 1..(Len(p.chain) + 1) : Start(p, k) \in Nat
    BY <2>2, StartEquations
  <2>4. Passable(p, Unbounded, m)
    <3>1. ASSUME NEW k \in 1..m PROVE HeaderLen(p.chain[k]) <= 256 /\ Start(p, k + 1) <= Unbounded
      <4>1. HeaderLen(p.chain[k]) <= 256 /\ Start(p, k + 1) <= p.len
        BY <2>1 DEF Passable
      <4>2. k + 1 \in 1..(Len(p.chain) + 1)
        BY <2>1, <2>2
      <4>3. Start(p, k + 1) \in Nat
        BY <2>3, <4>2
      <4>4. QED BY <1>1, <4>1, <4>3
    <3>2. QED BY <3>1 DEF Passable
  <2>5. /\ w.next = Upper(p) /\ w.cursor = Start(p, m + 1)
        /\ Upper(p) \in PortProtocols => w.cursor = Transport(p) /\ Transport(p) \in Nat
    BY <1>1, <1>3, <2>4, WalkReaches
  <2>6. Start(p, m + 1) <= p.len
    <3>1. CASE m = 0
      BY <2>1, <2>2, <3>1, StartEquations
    <3>2. CASE m # 0
      BY <2>1, <3>2 DEF Passable
    <3>3. QED BY <3>1, <3>2
  <2>7. QED BY <1>1, <1>3, <2>5, <2>6 DEF emit_ip_packet, Ports, PortsAt, FamilyOf
<1>4. QED BY <1>2, <1>3

(* xdp_ingress makes of every frame the event of the packet in it, with the *)
(* protocol and the ports behind the headers of its chain, as many as are   *)
(* walked, or none if it holds no IP packet with those headers whole.       *)
THEOREM FrameEvent ==
  ASSUME NEW p, IsPacket(p), ~p.later
  PROVE  /\ Observed(p) => xdp_ingress(p) = << PacketEvent(FamilyOf(p), Upper(p), ShownPorts(p), 1,
                                                           14 + 4 * p.tags + p.len) >>
         /\ ~Observed(p) => xdp_ingress(p) = <<>>
<1>1. p.tags \in Nat /\ p.len \in Nat
  BY PacketFields
<1>2. p.tags <= 1 => L2(p) = 14 + 4 * p.tags
  BY <1>1 DEF L2
<1>3. CASE p.ether = "IPv4" /\ p.tags <= 1
  BY <1>2, <1>3, IPv4Frame DEF xdp_ingress, Observed, FamilyOf
<1>4. CASE p.ether = "IPv6" /\ p.tags <= 1
  BY <1>2, <1>4, IPv6Frame DEF xdp_ingress, Observed, FamilyOf
<1>5. CASE ~(p.ether \in {"IPv4", "IPv6"} /\ p.tags <= 1)
  BY <1>5 DEF xdp_ingress, Observed
<1>6. QED BY <1>3, <1>4, <1>5

-----------------------------------------------------------------------------
(* Containers.                                                              *)

PathSegment == [prefix : STRING,
                id : [name : STRING \ {NoContainer}, hex : BOOLEAN, length : Nat]]
CgroupLine  == [parts : 1..3, path : Seq(PathSegment)]

(* The last segment of a path that names a container.                       *)
LastNamed(path) == CHOOSE i \in DOMAIN path :
                     /\ IsContainer(path[i])
                     /\ \A j \in DOMAIN path : j > i => ~IsContainer(path[j])

(* SelectLastInSeq finds it.                                                *)
LEMMA LastNamedSelected ==
  ASSUME NEW path \in Seq(PathSegment), \E i \in DOMAIN path : IsContainer(path[i])
  PROVE  /\ LastNamed(path) \in DOMAIN path
         /\ IsContainer(path[LastNamed(path)])
         /\ SelectLastInSeq(path, IsContainer) = LastNamed(path)
<1> DEFINE I == {i \in 1..Len(path) : IsContainer(path[i])}
           last == LastNamed(path)
<1>1. Len(path) \in Nat /\ DOMAIN path = 1..Len(path)
  OBVIOUS
<1>2. PICK m \in I : \A n \in I : n <= m
  <2>1. I \in SUBSET (0..Len(path)) /\ I # {}
    BY <1>1
  <2> HIDE DEF I
  <2>2. QED BY <1>1, <2>1, GreatestNumber
<1>3. \A j \in DOMAIN path : j > m => ~IsContainer(path[j])
  BY <1>1, <1>2
<1>4. \E i \in DOMAIN path : /\ IsContainer(path[i])
                             /\ \A j \in DOMAIN path : j > i => ~IsContainer(path[j])
  BY <1>1, <1>2, <1>3
<1>5. /\ last \in DOMAIN path /\ IsContainer(path[last])
      /\ \A j \in DOMAIN path : j > last => ~IsContainer(path[j])
  BY <1>4 DEF LastNamed
<1> HIDE DEF last
<1>6. last \in I /\ \A j \in I : last >= j
  BY <1>1, <1>5
<1>7. Max(I) = last
  <2>1. \A x \in I : (\A y \in I : x >= y) => x = last
    BY <1>1, <1>6
  <2> HIDE DEF I
  <2>2. QED BY <1>6, <2>1 DEF Max
<1>8. SelectLastInSeq(path, IsContainer) = last
  <2>1. SelectLastInSeq(path, IsContainer) = IF I # {} THEN Max(I) ELSE 0
    BY DEF SelectLastInSeq
  <2> HIDE DEF I
  <2>2. QED BY <1>6, <1>7, <2>1
<1>9. QED BY <1>5, <1>8 DEF last

(* A line names a container or it does not, and which one.                  *)
LEMMA ContainerOfLine ==
  ASSUME NEW line \in CgroupLine
  PROVE  LET names == line.parts = 3 /\ \E i \in DOMAIN line.path : IsContainer(line.path[i])
         IN  /\ ContainerOf(line) # NoContainer <=> names
             /\ names => ContainerOf(line) = line.path[LastNamed(line.path)].id.name
<1> DEFINE path == line.path
           I == {i \in 1..Len(path) : IsContainer(path[i])}
           select == SelectLastInSeq(path, IsContainer)
<1>1. path \in Seq(PathSegment) /\ DOMAIN path = 1..Len(path)
  BY DEF CgroupLine
<1>2. ContainerOf(line) = IF line.parts # 3 \/ select = 0 THEN NoContainer ELSE path[select].id.name
  BY DEF ContainerOf
<1>3. CASE \E i \in DOMAIN path : IsContainer(path[i])
  <2>1. select = LastNamed(path) /\ LastNamed(path) \in DOMAIN path
    BY <1>1, <1>3, LastNamedSelected
  <2>2. select # 0
    BY <1>1, <2>1
  <2>3. path[LastNamed(path)] \in PathSegment
    BY <1>1, <2>1
  <2>4. path[LastNamed(path)].id.name # NoContainer
    BY <2>3 DEF PathSegment
  <2> HIDE DEF path, select
  <2>5. QED BY <1>2, <1>3, <2>1, <2>2, <2>4 DEF path
<1>4. CASE ~ \E i \in DOMAIN path : IsContainer(path[i])
  <2>1. I = {}
    BY <1>1, <1>4
  <2>2. select = IF I # {} THEN Max(I) ELSE 0
    BY DEF SelectLastInSeq
  <2>3. select = 0
    BY <2>1, <2>2
  <2> HIDE DEF path, select
  <2>4. QED BY <1>2, <1>4, <2>3 DEF path
<1>5. QED BY <1>3, <1>4

(* containerContext returns the innermost container of the first line of a  *)
(* cgroup file that names any, whatever the number of lines and segments.   *)
THEOREM ContextIsInnermost ==
  ASSUME NEW file, IsCgroupFile(file)
  PROVE  containerContext(file) = Innermost(file)
<1> DEFINE I == {i \in 1..Len(file) : ContainerOf(file[i]) # NoContainer}
           first == SelectInSeq(file, LAMBDA line : ContainerOf(line) # NoContainer)
<1>1. file \in Seq(CgroupLine)
  BY DEF IsCgroupFile, CgroupLine, PathSegment
<1>2. I = Named(file)
  <2>1. \A i \in 1..Len(file) : file[i] \in CgroupLine
    BY <1>1
  <2>2. QED BY <2>1, ContainerOfLine DEF Named
<1>3. first = IF I # {} THEN Min(I) ELSE 0
  BY DEF SelectInSeq
<1>4. containerContext(file) = IF first = 0 THEN NoContainer ELSE ContainerOf(file[first])
  BY DEF containerContext
<1> HIDE DEF first
<1>5. CASE I = {}
  BY <1>2, <1>3, <1>4, <1>5 DEF Innermost
<1>6. CASE I # {}
  <2> DEFINE least == Min(I)
  <2>1. least \in I
    <3>1. I \in SUBSET Nat
      BY <1>1
    <3> HIDE DEF I
    <3>2. \E i \in I : \A j \in I : i <= j
      BY <1>6, <3>1, LeastNumber
    <3>3. QED BY <3>2 DEF Min
  <2>2. least = CHOOSE l \in Named(file) : \A m \in Named(file) : l <= m
    BY <1>2 DEF Min
  <2> HIDE DEF I, least
  <2>3. least \in 1..Len(file) /\ file[least] \in CgroupLine
    BY <1>1, <2>1 DEF I
  <2>4. ContainerOf(file[least]) = file[least].path[LastNamed(file[least].path)].id.name
    BY <2>1, <2>3, ContainerOfLine DEF I
  <2>5. first = least /\ least # 0
    BY <1>3, <1>6, <2>3 DEF least
  <2>6. containerContext(file) = file[least].path[LastNamed(file[least].path)].id.name
    BY <1>4, <2>4, <2>5
  <2>7. Innermost(file) = file[least].path[LastNamed(file[least].path)].id.name
    BY <1>2, <1>6, <2>2 DEF Innermost, LastNamed
  <2>8. QED BY <2>6, <2>7
<1>7. QED BY <1>5, <1>6

-----------------------------------------------------------------------------
(* What a socket program's event becomes.                                   *)

(* The events that Socket submits: PF_PACKET and other families only by the *)
(* hook of new sockets; an accepted socket and a listener are bound.        *)
SocketSeen(hook, family, bound) ==
  /\ hook \in SocketHooks /\ family \in Families /\ bound \in BOOLEAN
  /\ family = 17 => hook = "socket"
  /\ hook \in {"accept", "listen"} => bound
  /\ hook = "socket" => ~bound

(* The hooks and the types of their events, one by one.                     *)
LEMMA HookTypes ==
  ASSUME NEW hook \in SocketHooks
  PROVE  /\ hook \in {"tcp connect", "udp send", "accept", "listen", "socket"}
         /\ HookType[hook] \in {"CONNECT", "ACCEPT", "LISTEN", "SOCKET"}
BY DEF SocketHooks, HookType

(* What the flow of such an event is to show.                               *)
ShowsSocket(f, hook, family, bound, container) ==
  /\ f.container = container /\ f.type = HookType[hook] /\ f.pid = 1
  /\ bound /\ hook # "listen" =>
       f.src = (IF family = FAM_INET THEN SrcIP4 ELSE SrcIP6) /\ f.sport = SrcPort
  /\ hook \in {"udp send", "accept"} =>
       f.dst = (IF family = FAM_INET THEN DstIP4 ELSE DstIP6) /\ f.dport = DstPort

(* And it does show that.                                                   *)
LEMMA FlowOfSocketEvent ==
  ASSUME NEW hook \in SocketHooks, NEW family \in Families, NEW bound \in BOOLEAN,
         SocketSeen(hook, family, bound), NEW container
  PROVE  LET ev == parseEvent(SocketEvent(hook, family, bound))
         IN  /\ NetworkEvent(ev) /\ ev["tgid"] = 1
             /\ ShowsSocket(Flow(ev, container), hook, family, bound, container)
<1> DEFINE r == SocketEvent(hook, family, bound)
           ev == parseEvent(r)
           type == HookType[hook]
           own == bound /\ hook # "listen"
           peer == hook \in {"udp send", "accept"}
<1>1. FAM_INET # FAM_INET6 /\ FAM_INET # 17 /\ FAM_INET6 # 17
  BY DEF FAM_INET, FAM_INET6
<1>2. {"pid", "tgid", "type", "family", "protocol", "direction", "packet_len", "src_addr",
       "dst_addr", "src_addr6", "dst_addr6", "src_port", "dst_port"} \subseteq DOMAIN ZeroEvent
  BY NetworkFieldsFound, FieldsOfZeroEvent
<1>3. /\ r["pid"] = 1 /\ r["tgid"] = 1 /\ r["type"] = TypeNumber(type) /\ r["family"] = family
      /\ r["src_port"] = IF bound THEN SrcPort ELSE 0
      /\ r["dst_port"] = IF peer THEN DstPort ELSE 0
  BY <1>2 DEF SocketEvent
<1>4. /\ own /\ family = FAM_INET => r["src_addr"] = SrcIP4
      /\ own /\ family = FAM_INET6 => r["src_addr6"] = SrcIP6
      /\ peer /\ family = FAM_INET => r["dst_addr"] = DstIP4
      /\ peer /\ family = FAM_INET6 => r["dst_addr6"] = DstIP6
  BY <1>2 DEF SocketEvent
<1>5. own \/ peer => family \in {FAM_INET, FAM_INET6}
  BY DEF SocketSeen, Families
<1> HIDE DEF r
<1>6. /\ ev["pid"] = 1 /\ ev["tgid"] = 1 /\ ev["type"] = TypeNumber(type)
      /\ ev["src_port"] = r["src_port"] /\ ev["dst_port"] = r["dst_port"]
  BY <1>3, ParsedNumber
<1>7. own => ipString(ev["src_addr"], ev["src_addr6"]) = IF family = FAM_INET THEN SrcIP4 ELSE SrcIP6
  BY <1>1, <1>3, <1>4, <1>5, ShownAddress
<1>8. peer => ipString(ev["dst_addr"], ev["dst_addr6"]) = IF family = FAM_INET THEN DstIP4 ELSE DstIP6
  BY <1>1, <1>3, <1>4, <1>5, ShownAddress
<1> HIDE DEF ev
<1>9. TypeName(ev) = type /\ NetworkEvent(ev)
  <2>1. type \in {"CONNECT", "ACCEPT", "LISTEN", "SOCKET"}
    BY HookTypes DEF SocketSeen
  <2> HIDE DEF type
  <2>2. TypeName(ev) = type
    BY <1>6, <2>1, NetworkTypes DEF TypeName
  <2>3. QED BY <2>1, <2>2 DEF NetworkEvent
<1> DEFINE f == Flow(ev, container)
<1>10. /\ f.container = container /\ f.type = type /\ f.pid = 1
       /\ f.src = ipString(ev["src_addr"], ev["src_addr6"]) /\ f.sport = ev["src_port"]
       /\ f.dst = ipString(ev["dst_addr"], ev["dst_addr6"]) /\ f.dport = ev["dst_port"]
  BY <1>6, <1>9 DEF Flow
<1> HIDE DEF f
<1>11. own => f.src = (IF family = FAM_INET THEN SrcIP4 ELSE SrcIP6) /\ f.sport = SrcPort
  BY <1>3, <1>6, <1>7, <1>10
<1>12. peer => f.dst = (IF family = FAM_INET THEN DstIP4 ELSE DstIP6) /\ f.dport = DstPort
  BY <1>3, <1>6, <1>8, <1>10
<1>13. QED BY <1>6, <1>9, <1>10, <1>11, <1>12 DEF ShowsSocket, r, ev, f

-----------------------------------------------------------------------------
(* What holds in every state: nothing is shown before the main loop, what   *)
(* is on its way is what the program made of what it saw, and the process   *)
(* now behind the tgid has had it since the event.                          *)
TelemetryInv ==
  /\ context \in BOOLEAN
  /\ stage \in {"idle", "ring", "shown"}
  /\ stage = "idle" => seen = Nothing
  /\ stage # "shown" => flow = NoFlow
  /\ seen.by = "xdp" => seen.packet \in Frames /\ raw = xdp_ingress(seen.packet)
  /\ seen.by = "socket" => /\ SocketSeen(seen.hook, seen.family, seen.bound)
                           /\ raw = << SocketEvent(seen.hook, seen.family, seen.bound) >>
                           /\ cgroup \in owners /\ owners \subseteq Containers
  /\ XdpFlowIsThePacket
  /\ SocketFlowIsTheProcess

(* It holds initially.                                                      *)
LEMMA TelemetryInit == Init => TelemetryInv
BY DEF Init, TelemetryInv, Nothing, XdpFlowIsThePacket, SocketFlowIsTheProcess

(* The main loop shows the packet of a frame.                               *)
LEMMA MainLoopShowsFrame ==
  ASSUME TelemetryInv, MainLoop, seen.by = "xdp", ~seen.packet.later
  PROVE  XdpFlowIsThePacket'
<1> DEFINE p == seen.packet
           length == 14 + 4 * p.tags + p.len
           e == PacketEvent(FamilyOf(p), Upper(p), ShownPorts(p), 1, length)
           ev == parseEvent(e)
<1>1. IsPacket(p) /\ raw = xdp_ingress(p) /\ flow = NoFlow /\ seen' = seen /\ stage' = "shown"
  BY TelemetryAssumption DEF TelemetryInv, MainLoop
<1>2. CASE Observed(p)
  <2>1. raw = <<e>>
    BY <1>1, <1>2, FrameEvent
  <2>2. Upper(p) \in 0..255 /\ FamilyOf(p) \in {FAM_INET, FAM_INET6}
    <3>1. Walked(p) + 1 \in Nat \ {0}
      BY <1>1, PacketFields DEF Walked
    <3>2. QED BY <1>1, <3>1, TypeOfType DEF Upper, FamilyOf
  <2>3. /\ NetworkEvent(ev) /\ ev["tgid"] = 0
        /\ Flow(ev, NoContainer) =
             InboundFlow(FamilyOf(p), Upper(p), ShownPorts(p), length, NoContainer)
    <3>1. NetworkEvent(ev)
      BY <2>2, FlowOfPacketEvent
    <3>2. ev["tgid"] = 0
      BY <2>2, FlowOfPacketEvent
    <3>3. Flow(ev, NoContainer) =
            InboundFlow(FamilyOf(p), Upper(p), ShownPorts(p), length, NoContainer)
      BY <2>2, FlowOfPacketEvent
    <3>4. QED BY <3>1, <3>2, <3>3
  <2> HIDE DEF e, ev, length
  <2>4. raw # <<>> /\ raw[1] = e
    BY <2>1
  <2>5. flow' = Flow(ev, ContainerOfTgid(ev["tgid"]))
    BY <2>3, <2>4, RecordParses DEF MainLoop, ev
  <2>6. ContainerOfTgid(ev["tgid"]) = NoContainer
    BY <2>3 DEF ContainerOfTgid
  <2>7. /\ p.ether = "IPv4" <=> FamilyOf(p) = FAM_INET
        /\ p.ether = IF FamilyOf(p) = FAM_INET THEN "IPv4" ELSE "IPv6"
    BY <1>2 DEF FamilyOf, Observed, FAM_INET, FAM_INET6
  <2>8. flow' = PacketFlow(p, "INBOUND", length, ShownPorts(p))
    BY <2>3, <2>5, <2>6, <2>7 DEF PacketFlow, InboundFlow
  <2>9. QED BY <1>1, <1>2, <2>8 DEF XdpFlowIsThePacket, Observed, ShownPorts, length
<1>3. CASE ~Observed(p)
  <2>1. raw = <<>>
    BY <1>1, <1>3, FrameEvent
  <2>2. flow' = NoFlow
    BY <1>1, <2>1 DEF MainLoop
  <2>3. QED BY <1>1, <1>3, <2>2 DEF XdpFlowIsThePacket, Observed
<1>4. QED BY <1>2, <1>3

(* The main loop shows what a socket program saw, with the container of the *)
(* process that has the tgid by then.                                       *)
LEMMA MainLoopShowsSocket ==
  ASSUME TelemetryInv, MainLoop, seen.by = "socket"
  PROVE  SocketFlowIsTheProcess'
<1> DEFINE hook == seen.hook
           family == seen.family
           bound == seen.bound
           e == SocketEvent(hook, family, bound)
           ev == parseEvent(e)
           container == ContainerOfTgid(ev["tgid"])
<1>1. /\ hook \in SocketHooks /\ family \in Families /\ bound \in BOOLEAN
      /\ SocketSeen(hook, family, bound) /\ raw = <<e>>
      /\ cgroup \in owners /\ owners \subseteq Containers
  BY DEF TelemetryInv, SocketSeen
<1>2. seen' = seen /\ stage' = "shown" /\ context' = context /\ owners' = owners
  BY DEF MainLoop
<1> HIDE DEF hook, family, bound
<1>3. NetworkEvent(ev) /\ ev["tgid"] = 1
  <2>1. NetworkEvent(ev)
    BY <1>1, FlowOfSocketEvent
  <2>2. ev["tgid"] = 1
    BY <1>1, FlowOfSocketEvent
  <2>3. QED BY <2>1, <2>2
<1> DEFINE f == Flow(ev, container)
<1>4. ShowsSocket(f, hook, family, bound, container)
  BY <1>1, FlowOfSocketEvent
<1> HIDE DEF e, ev
<1>5. raw # <<>> /\ raw[1] = e
  BY <1>1
<1>6. flow' = Flow(ev, container)
  BY <1>3, <1>5, RecordParses DEF MainLoop, ev, f
<1>7. container \in IF context THEN {Innermost(file) : file \in owners} ELSE {NoContainer}
  <2>1. IsCgroupFile(cgroup)
    BY <1>1, TelemetryAssumption
  <2>2. containerContext(cgroup) = Innermost(cgroup)
    BY <2>1, ContextIsInnermost
  <2>3. QED BY <1>1, <1>3, <2>2 DEF ContainerOfTgid
<1> HIDE DEF container
<1>8. QED BY <1>2, <1>4, <1>6, <1>7 DEF SocketFlowIsTheProcess, ShowsSocket, hook, family, bound

-----------------------------------------------------------------------------
(* Every step keeps the invariant.                                          *)
LEMMA TelemetryStep == TelemetryInv /\ [Next]_vars => TelemetryInv'
<1> SUFFICES ASSUME TelemetryInv, [Next]_vars PROVE TelemetryInv'
  OBVIOUS
<1>1. ASSUME NEW p \in Frames, XdpIngress(p) PROVE TelemetryInv'
  <2>1. /\ seen' = [by |-> "xdp", packet |-> p] /\ raw' = xdp_ingress(p)
        /\ stage' = "ring" /\ context' = context /\ flow' = NoFlow
    BY <1>1 DEF XdpIngress, Submits, TelemetryInv
  <2>2. XdpFlowIsThePacket' /\ SocketFlowIsTheProcess'
    BY <2>1 DEF XdpFlowIsThePacket, SocketFlowIsTheProcess
  <2>3. QED BY <2>1, <2>2 DEF TelemetryInv
<1>2. ASSUME NEW p \in Buffers, NEW headroom \in Headrooms, NEW d \in {0, 1}, KprobeIp(p, headroom, d)
      PROVE  TelemetryInv'
  <2>1. /\ seen' = [by |-> "skb", packet |-> p, direction |-> d]
        /\ stage' = "ring" /\ context' = context /\ flow' = NoFlow
    BY <1>2 DEF KprobeIp, Submits, TelemetryInv
  <2>2. XdpFlowIsThePacket' /\ SocketFlowIsTheProcess'
    BY <2>1 DEF XdpFlowIsThePacket, SocketFlowIsTheProcess
  <2>3. QED BY <2>1, <2>2 DEF TelemetryInv
<1>3. ASSUME NEW hook \in SocketHooks, NEW family \in Families, NEW bound \in BOOLEAN,
             NEW file \in Containers, Socket(hook, family, bound, file)
      PROVE  TelemetryInv'
  <2>1. /\ seen' = [by |-> "socket", hook |-> hook, family |-> family, bound |-> bound]
        /\ raw' = << SocketEvent(hook, family, bound) >>
        /\ stage' = "ring" /\ context' = context /\ flow' = NoFlow
        /\ cgroup' = file /\ owners' = {file}
    BY <1>3 DEF Socket, Submits, TelemetryInv
  <2>2. SocketSeen(hook, family, bound)
    BY <1>3 DEF Socket, SocketSeen
  <2>3. XdpFlowIsThePacket' /\ SocketFlowIsTheProcess'
    BY <2>1 DEF XdpFlowIsThePacket, SocketFlowIsTheProcess
  <2>4. QED BY <2>1, <2>2, <2>3 DEF TelemetryInv
<1>4. ASSUME NEW file \in Containers, Recycle(file) PROVE TelemetryInv'
  <2>1. /\ seen' = seen /\ raw' = raw /\ stage' = "ring" /\ context' = context /\ flow' = flow
        /\ seen.by = "socket" /\ stage = "ring" /\ cgroup' = file /\ owners' = owners \union {file}
    BY <1>4 DEF Recycle
  <2>2. XdpFlowIsThePacket' /\ SocketFlowIsTheProcess'
    BY <2>1 DEF XdpFlowIsThePacket, SocketFlowIsTheProcess
  <2>3. QED BY <2>1, <2>2 DEF TelemetryInv
<1>5. ASSUME MainLoop PROVE TelemetryInv'
  <2>1. /\ stage' = "shown" /\ seen' = seen /\ raw' = raw /\ context' = context
        /\ cgroup' = cgroup /\ owners' = owners
    BY <1>5 DEF MainLoop
  <2>2. XdpFlowIsThePacket'
    <3>1. CASE seen.by = "xdp" /\ ~seen.packet.later
      BY <1>5, <3>1, MainLoopShowsFrame
    <3>2. CASE ~(seen.by = "xdp" /\ ~seen.packet.later)
      BY <2>1, <3>2 DEF XdpFlowIsThePacket
    <3>3. QED BY <3>1, <3>2
  <2>3. SocketFlowIsTheProcess'
    <3>1. CASE seen.by = "socket"
      BY <1>5, <3>1, MainLoopShowsSocket
    <3>2. CASE seen.by # "socket"
      BY <2>1, <3>2 DEF SocketFlowIsTheProcess
    <3>3. QED BY <3>1, <3>2
  <2>4. QED BY <2>1, <2>2, <2>3 DEF TelemetryInv
<1>6. CASE UNCHANGED vars
  BY <1>6 DEF TelemetryInv, XdpFlowIsThePacket, SocketFlowIsTheProcess, vars
<1>7. QED BY <1>1, <1>2, <1>3, <1>4, <1>5, <1>6 DEF Next

(* The inductive invariant holds in every state that the system reaches.    *)
THEOREM TelemetryInductive == Spec => []TelemetryInv
BY TelemetryInit, TelemetryStep, PTL DEF Spec

(* Of every frame with at most one VLAN tag and an IP packet whose headers  *)
(* it holds, whatever the number and the lengths of its extension headers,  *)
(* /api/network shows the packet as its sender wrote it: through xdp_ingress *)
(* and its loop of eight rounds, the C layout of struct event, the reads of *)
(* parseEvent and the formatting of addresses.                              *)
THEOREM XdpFlowCorrect == Spec => []XdpFlowIsThePacket
<1>1. TelemetryInv => XdpFlowIsThePacket
  BY DEF TelemetryInv
<1>2. QED BY <1>1, TelemetryInductive, PTL

(* What a socket program saw is shown with its type, process and addresses, *)
(* and with the innermost container that the cgroup file of a process names *)
(* that has had the tgid since the event.                                   *)
THEOREM SocketFlowCorrect == Spec => []SocketFlowIsTheProcess
<1>1. TelemetryInv => SocketFlowIsTheProcess
  BY DEF TelemetryInv
<1>2. QED BY <1>1, TelemetryInductive, PTL
=============================================================================
