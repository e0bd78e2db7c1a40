----------------------------- MODULE Telemetry ------------------------------
(***************************************************************************)
(* The way of one network observation to the record that /api/network      *)
(* shows: a BPF program writes an event, the main loop decodes it, looks   *)
(* for the container of its process in /proc, and NetworkStore.Add builds  *)
(* the flow.  Until then the process may exit and its tgid be used again.  *)
(* A frame is seen by xdp_ingress, a socket buffer by emit_ip_packet, and  *)
(* the socket programs see what a process does.                            *)
(***************************************************************************)
EXTENDS PacketParser, ContainerContext

CONSTANTS
  Frames,      \* the packets that XDP gets in a frame
  Buffers,     \* and those that a hook gets in a socket buffer
  Headrooms,   \* skb->network_header where emit_ip_packet is called
  Elsewhere,   \* what may lie where emit_ip_packet looks instead
  Containers   \* the cgroup files of processes; <<>> is that of no process

ASSUME TelemetryAssumption ==
  /\ \A p \in Frames \union Buffers \union Elsewhere : IsPacket(p)
  /\ Headrooms \subseteq Nat
  /\ \A file \in Containers : IsCgroupFile(file)
  /\ <<>> \in Containers

(* The programs on sockets, by the type of event that they make.            *)
HookType == [h \in {"tcp connect", "udp send", "accept", "listen", "socket"} |->
               CASE h \in {"tcp connect", "udp send"} -> "CONNECT"
                 [] h = "accept" -> "ACCEPT"
                 [] h = "listen" -> "LISTEN"
                 [] h = "socket" -> "SOCKET"]
SocketHooks == DOMAIN HookType
Families    == {FAM_INET, FAM_INET6, 17}
Nothing     == [by |-> "nobody"]
NoFlow      == [type |-> "none"]

VARIABLES
  context, \* Config.ContainerContext
  seen,    \* what happened, and which program saw it (history)
  raw,     \* the event on its way, none or one
  stage,   \* "idle", "ring", "shown"
  flow,    \* the NetworkFlow, or NoFlow
  cgroup,  \* /proc/<tgid>/cgroup now
  owners   \* the cgroup files the tgid has had since the event (history)

vars == <<context, seen, raw, stage, flow, cgroup, owners>>

Init ==
  /\ context \in BOOLEAN
  /\ seen = Nothing
  /\ raw = <<>>
  /\ stage = "idle"
  /\ flow = NoFlow
  /\ cgroup = <<>>
  /\ owners = {}

-----------------------------------------------------------------------------
Submits(what, events, file) ==
  /\ stage = "idle"
  /\ seen' = what
  /\ raw' = events
  /\ stage' = "ring"
  /\ cgroup' = file
  /\ owners' = {file}
  /\ UNCHANGED <<context, flow>>

(* XDP events carry no process. *)
XdpIngress(p) == Submits([by |-> "xdp", packet |-> p], xdp_ingress(p), <<>>)

(* network_header counts from skb->head; data, to which it is added, is     *)
(* already at the header.  So the program looks headroom bytes too far.     *)
(* fill_common also notes whatever process the hook interrupts; no property *)
(* is about that one, and it is left out.                                   *)
AtNetworkHeader(p, headroom) == IF headroom = 0 THEN {p} ELSE Elsewhere

KprobeIp(p, headroom, direction) ==
  \E m \in AtNetworkHeader(p, headroom) :
    Submits([by |-> "skb", packet |-> p, direction |-> direction],
            emit_ip_packet(m, direction, p.len), <<>>)

(* What a program reads from a socket: the peer of one that was accepted,   *)
(* or the one that a UDP message or its socket names.  tcp_v4_connect and   *)
(* tcp_v6_connect are entered before the kernel gives the socket its peer.  *)
(* Its own address and port are there if it is bound; of a listener the     *)
(* port is read only, and of a new socket, here a stream socket, neither.   *)
SocketEvent(hook, family, bound) ==
  LET peer == hook \in {"udp send", "accept"}
      own  == bound /\ hook # "listen"
      v4   == family = FAM_INET
      v6   == family = FAM_INET6
  IN  [ZeroEvent EXCEPT
         !["type"] = TypeNumber(HookType[hook]), !["family"] = family,
         !["tgid"] = 1, !["pid"] = 1,
         !["protocol"] = IF hook = "udp send" THEN PROTO_UDP ELSE PROTO_TCP,
         !["direction"] = IF hook \in {"accept", "listen"} THEN 1 ELSE 0,
         !["src_port"] = IF bound THEN SrcPort ELSE 0,
         !["dst_port"] = IF peer THEN DstPort ELSE 0,
         !["src_addr"] = IF own /\ v4 THEN SrcIP4 ELSE @,
         !["dst_addr"] = IF peer /\ v4 THEN DstIP4 ELSE @,
         !["src_addr6"] = IF own /\ v6 THEN SrcIP6 ELSE @,
         !["dst_addr6"] = IF peer /\ v6 THEN DstIP6 ELSE @]

Socket(hook, family, bound, file) ==
  /\ file # <<>>
  /\ family = 17 => hook = "socket"
  /\ hook \in {"accept", "listen"} => bound
  /\ hook = "socket" => ~bound
  /\ Submits([by |-> "socket", hook |-> hook, family |-> family, bound |-> bound],
             << SocketEvent(hook, family, bound) >>, file)

(* The process exits, or another one gets its tgid. *)
Recycle(file) ==
  /\ stage = "ring"
  /\ seen.by = "socket"
  /\ cgroup' = file
  /\ owners' = owners \union {file}
  /\ UNCHANGED <<context, seen, raw, stage, flow>>

-----------------------------------------------------------------------------
(* The flow that NetworkStore.Add makes of an event, container given. *)
Flow(ev, container) ==
  [type |-> TypeName(ev), family |-> FamilyName(ev), protocol |-> ProtocolName(ev),
   direction |-> DirectionName(ev), pid |-> ev["pid"], container |-> container,
   src |-> ipString(ev["src_addr"], ev["src_addr6"]), sport |-> ev["src_port"],
   dst |-> ipString(ev["dst_addr"], ev["dst_addr6"]), dport |-> ev["dst_port"],
   length |-> ev["packet_len"]]

(* There is no /proc/0. *)
ContainerOfTgid(tgid) ==
  IF ~context \/ tgid = 0 THEN NoContainer ELSE containerContext(cgroup)

(* readLoop and the main loop; a record that does not parse is passed over. *)
MainLoop ==
  /\ stage = "ring"
  /\ IF raw # <<>> /\ Parses /\ NetworkEvent(parseEvent(raw[1]))
     THEN LET ev == parseEvent(raw[1]) IN flow' = Flow(ev, ContainerOfTgid(ev["tgid"]))
     ELSE UNCHANGED flow
  /\ stage' = "shown"
  /\ UNCHANGED <<context, seen, raw, cgroup, owners>>

Next ==
  \/ \E p \in Frames : XdpIngress(p)
  \/ \E p \in Buffers, headroom \in Headrooms, d \in {0, 1} : KprobeIp(p, headroom, d)
  \/ \E hook \in SocketHooks, family \in Families, bound \in BOOLEAN, file \in Containers :
       Socket(hook, family, bound, file)
  \/ \E file \in Containers : Recycle(file)
  \/ MainLoop

Spec == Init /\ [][Next]_vars

-----------------------------------------------------------------------------
(* Properties *)

NameOf(protocol) ==
  CASE protocol = 1 -> "ICMP" [] protocol = 6 -> "TCP" [] protocol = 17 -> "UDP"
    [] protocol = 58 -> "ICMPv6" [] protocol = 132 -> "SCTP" [] protocol = 0 -> "UNKNOWN"
    [] OTHER -> "IP/" \o ToString(protocol)

(* A packet's headers, as far as the walk is documented to go: at most      *)
(* eight extension headers, all in the frame, none over 256 bytes.          *)
Walked(p) == IF Len(p.chain) < 8 THEN Len(p.chain) ELSE 8
Legible(p) ==
  IF p.ether = "IPv4" THEN p.ihl >= 5 /\ p.len >= 4 * p.ihl
  ELSE /\ p.len >= Start(p, Walked(p) + 1)
       /\ \A k \in 1..Walked(p) : HeaderLen(p.chain[k]) <= 256

(* The ports are shown when the transport header was reached and they are   *)
(* in the frame.                                                            *)
Upper(p)     == TypeOf(p, Walked(p) + 1)
HasPorts(p)  == Upper(p) \in PortProtocols /\ p.len >= Transport(p) + 4

PacketFlow(p, direction, length, ports) ==
  [type |-> "PACKET", family |-> p.ether, protocol |-> NameOf(Upper(p)),
   direction |-> direction, pid |-> 0, container |-> NoContainer,
   src |-> IF p.ether = "IPv4" THEN SrcIP4 ELSE SrcIP6,
   dst |-> IF p.ether = "IPv4" THEN DstIP4 ELSE DstIP6,
   sport |-> ports[1], dport |-> ports[2], length |-> length]

(* README.md, "XDP / Layer-2 telemetry": of every frame with at most one    *)
(* VLAN tag and an IP packet whose headers it holds, the agent shows        *)
(* family, protocol, addresses, ports and length as the sender wrote them,  *)
(* through the header walk, the layout of struct event and parseEvent; of   *)
(* others it shows nothing.  Fragments without a transport header are left  *)
(* out: the program takes four bytes of their payload for ports.            *)
XdpFlowIsThePacket ==
  stage = "shown" /\ seen.by = "xdp" /\ ~seen.packet.later =>
    LET p == seen.packet
    IN  flow = IF p.tags <= 1 /\ p.ether \in {"IPv4", "IPv6"} /\ Legible(p)
               THEN PacketFlow(p, "INBOUND", 14 + 4 * p.tags + p.len,
                               IF HasPorts(p) THEN <<SrcPort, DstPort>> ELSE <<0, 0>>)
               ELSE NoFlow

(* The lines of a cgroup file that name a container, and the innermost one  *)
(* that the first of them names.                                            *)
Named(file) == {line \in 1..Len(file) :
                  file[line].parts = 3 /\ \E i \in DOMAIN file[line].path : IsContainer(file[line].path[i])}
Innermost(file) ==
  IF Named(file) = {} THEN NoContainer
  ELSE LET line == CHOOSE l \in Named(file) : \A m \in Named(file) : l <= m
           path == file[line].path
           i    == CHOOSE i \in DOMAIN path :
                     /\ IsContainer(path[i])
                     /\ \A j \in DOMAIN path : j > i => ~IsContainer(path[j])
       IN  path[i].id.name

(* A flow that a socket program saw has the event's type and process, the   *)
(* socket's own address and port if it has them, and its peer's where there *)
(* is one to read.  Its container, if they are wanted, is the innermost one *)
(* named in the first line of the cgroup file that names any, of a process  *)
(* that has had the tgid since the event: its own, if it has not gone.      *)
SocketFlowIsTheProcess ==
  stage = "shown" /\ seen.by = "socket" =>
    LET v4 == seen.family = FAM_INET
    IN  /\ flow.container \in
             IF context THEN {Innermost(file) : file \in owners} ELSE {NoContainer}
        /\ flow.type = HookType[seen.hook] /\ flow.pid = 1
        /\ seen.bound /\ seen.hook # "listen" =>
             flow.src = (IF v4 THEN SrcIP4 ELSE SrcIP6) /\ flow.sport = SrcPort
        /\ seen.hook \in {"udp send", "accept"} =>
             flow.dst = (IF v4 THEN DstIP4 ELSE DstIP6) /\ flow.dport = DstPort

(* README.md, "Generic packet telemetry": "The packet path observes         *)
(* IPv4/IPv6 metadata and records" family, protocol and addresses.  A whole *)
(* packet that passes a socket buffer hook is shown with them.              *)
SkbFlowIsThePacket ==
  stage = "shown" /\ seen.by = "skb" /\ Legible(seen.packet) =>
    /\ flow # NoFlow
    /\ flow.family = seen.packet.ether
    /\ flow.protocol = NameOf(Upper(seen.packet))
=============================================================================
