---------------------------- MODULE PacketParser ----------------------------
(***************************************************************************)
(* The two parsers of IP headers: xdp_ingress on the frame that the driver *)
(* hands over, and emit_ip_packet on a socket buffer.  Both walk at most   *)
(* eight IPv6 extension headers; the first checks every access against the *)
(* end of the frame, the second probes kernel memory.                      *)
(*                                                                         *)
(* A packet is given by what its sender put into it; offsets count from    *)
(* its network header.                                                     *)
(***************************************************************************)
EXTENDS EventAbi

HOPOPTS == 0
ROUTING == 43
FRAGMENT == 44
AUTH == 51
DSTOPTS == 60
Extensions == {HOPOPTS, ROUTING, FRAGMENT, AUTH, DSTOPTS}
PortProtocols == {PROTO_TCP, PROTO_UDP, PROTO_SCTP}

(* The fields of a packet:                                                  *)
(*   tags    VLAN tags in front of it                                       *)
(*   ether   what the last EtherType says: "IPv4", "IPv6" or another        *)
(*   ihl     length of an IPv4 header in words                              *)
(*   flow    bits 4 to 7 of an IPv6 flow label                              *)
(*   chain   the extension headers: [type, ext], ext being the length byte  *)
(*   upper   the protocol number that the last header names                 *)
(*   later   a fragment other than the first: payload follows the headers   *)
(*   len     the bytes of it that are in the frame                          *)
IsPacket(p) ==
  /\ p \in [tags : Nat, ether : STRING, ihl : 0..15, flow : 0..15,
            chain : Seq([type : Extensions, ext : 0..255]), upper : 0..255,
            later : BOOLEAN, len : Nat]
  /\ p.ether = "IPv4" => p.chain = <<>>
  /\ p.ether = "IPv6" => p.upper \notin Extensions

SrcPort == 4242
DstPort == 443
SrcIP4  == <<10, 0, 0, 1>>
DstIP4  == <<10, 0, 0, 2>>
SrcIP6  == [i \in 1..16 |-> IF i = 1 THEN 253 ELSE 1]
DstIP6  == [i \in 1..16 |-> IF i = 1 THEN 253 ELSE 2]

(* RFC 8200, RFC 4302: how long a header is, and where header k starts.     *)
HeaderLen(h) ==
  CASE h.type = FRAGMENT -> 8
    [] h.type = AUTH -> 4 * (h.ext + 2)
    [] OTHER -> 8 * (h.ext + 1)

Start(p, k) ==
  LET start[i \in 0..Len(p.chain)] ==
        IF i = 0 THEN 40 ELSE start[i - 1] + HeaderLen(p.chain[i])
  IN  start[k - 1]
Transport(p) == IF p.ether = "IPv4" THEN 4 * p.ihl ELSE Start(p, Len(p.chain) + 1)

(* What a program reads at an offset: the header that starts there, or else *)
(* some bytes of the packet.                                                *)
TypeOf(p, k) == IF k > Len(p.chain) THEN p.upper ELSE p.chain[k].type
HeaderAt(p, offset) ==
  LET here == {k \in DOMAIN p.chain : Start(p, k) = offset}
  IN  IF here = {} THEN [next |-> 59, ext |-> 0]
      ELSE LET k == CHOOSE k \in here : TRUE
           IN  [next |-> TypeOf(p, k + 1), ext |-> p.chain[k].ext]
PortsAt(p, offset) ==
  IF offset = Transport(p) /\ ~p.later THEN <<SrcPort, DstPort>> ELSE <<17746, 60>>

-----------------------------------------------------------------------------
(* The bounded walk.  refused: xdp_ingress returns without an event,        *)
(* emit_ip_packet leaves its loop.                                          *)

(* Slip: an authentication header is measured like the others.              *)
hdr_len_uniform(next, ext) == (ext + 1) * 8

hdr_len(next, ext) == IF next = AUTH THEN (ext + 2) * 4 ELSE (ext + 1) * 8

WalkStep(p, end, w) ==
  LET h   == HeaderAt(p, w.cursor)
      len == IF w.next = FRAGMENT THEN 8 ELSE hdr_len(w.next, h.ext)
  IN  IF w.done \/ w.next \notin Extensions THEN [w EXCEPT !.done = TRUE]
      ELSE IF \/ w.cursor + (IF w.next = FRAGMENT THEN 8 ELSE 2) > end
              \/ len > 256
              \/ w.cursor + len > end
           THEN [w EXCEPT !.done = TRUE, !.refused = TRUE]
           ELSE [w EXCEPT !.next = h.next, !.cursor = @ + len]

WalkRounds(p, end, n) ==
  LET walk[i \in 0..n] ==
        IF i = 0 THEN [next |-> TypeOf(p, 1), cursor |-> 40, done |-> FALSE, refused |-> FALSE]
        ELSE WalkStep(p, end, walk[i - 1])
  IN  walk[n]

(* Slip: seven rounds.                                                      *)
Walk_seven(p, end) == WalkRounds(p, end, 7)

Walk(p, end) == WalkRounds(p, end, 8)

Ports(p, protocol, offset, end) ==
  IF protocol \in PortProtocols /\ offset + 4 <= end THEN PortsAt(p, offset) ELSE <<0, 0>>

PacketEvent(family, protocol, ports, direction, packet_len) ==
  [ZeroEvent EXCEPT
     !["type"] = TypeNumber("PACKET"), !["family"] = family, !["protocol"] = protocol,
     !["direction"] = direction, !["packet_len"] = packet_len,
     !["src_port"] = ports[1], !["dst_port"] = ports[2],
     !["src_addr"] = IF family = FAM_INET THEN SrcIP4 ELSE @,
     !["dst_addr"] = IF family = FAM_INET THEN DstIP4 ELSE @,
     !["src_addr6"] = IF family = FAM_INET6 THEN SrcIP6 ELSE @,
     !["dst_addr6"] = IF family = FAM_INET6 THEN DstIP6 ELSE @]

-----------------------------------------------------------------------------
(* xdp_ingress: the events it emits, none or one.  One VLAN tag is taken    *)
(* off; an EtherType behind two is that of a tag.                           *)
L2(p) == 14 + 4 * (IF p.tags = 0 THEN 0 ELSE 1)

XdpIPv4(p) ==
  IF p.len < 20 \/ 4 * p.ihl < 20 \/ 4 * p.ihl > p.len THEN <<>>
  ELSE << PacketEvent(FAM_INET, p.upper, Ports(p, p.upper, 4 * p.ihl, p.len), 1,
                      L2(p) + p.len) >>

XdpIPv6(p) ==
  LET w == Walk(p, p.len)
  IN  IF p.len < 40 \/ w.refused THEN <<>>
      ELSE << PacketEvent(FAM_INET6, w.next, Ports(p, w.next, w.cursor, p.len), 1,
                          L2(p) + p.len) >>

xdp_ingress(p) ==
  CASE p.ether = "IPv4" /\ p.tags <= 1 -> XdpIPv4(p)
    [] p.ether = "IPv6" /\ p.tags <= 1 -> XdpIPv6(p)
    [] OTHER -> <<>>

-----------------------------------------------------------------------------
(* emit_ip_packet, m being what it finds at skb->data + network_header.     *)
(* Probes of kernel memory succeed, also behind the packet.                 *)
Unbounded == 65536

(* vtc_flow is in network order and shifted as a little-endian word: what   *)
(* is compared with 6 are four bits of the flow label.                      *)
VersionIs6(m) == m.flow = 6

emit_ip_packet(m, direction, skb_len) ==
  CASE m.ether = "IPv4" ->
         << PacketEvent(FAM_INET, m.upper, Ports(m, m.upper, 4 * m.ihl, Unbounded),
                        direction, skb_len) >>
    [] m.ether = "IPv6" /\ VersionIs6(m) ->
         LET w == Walk(m, Unbounded)
         IN  << PacketEvent(FAM_INET6, w.next, Ports(m, w.next, w.cursor, Unbounded),
                            direction, skb_len) >>
    [] OTHER -> <<>>
=============================================================================
