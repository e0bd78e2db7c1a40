------------------------------ MODULE EventAbi ------------------------------
(***************************************************************************)
(* struct event as the C compiler lays it out (monitor.bpf.c and, for the  *)
(* XDP ring, xdp.bpf.c) and parseEvent's fixed sequence of reads from the  *)
(* record, with the names that the agent gives the numbers in it.          *)
(*                                                                         *)
(* An event is a function from the names of C's fields to their values;    *)
(* addresses are tuples of bytes in network order, everything else is a    *)
(* number.  comm, filename and argv0 keep their place and have no value.   *)
(***************************************************************************)
EXTENDS Integers, Sequences, TLC

(* Name, size and alignment of the fields. *)
CFields == <<
  <<"timestamp_ns", 8, 8>>, <<"pid", 4, 4>>, <<"tgid", 4, 4>>, <<"ppid", 4, 4>>,
  <<"uid", 4, 4>>, <<"type", 4, 4>>, <<"alert_flags", 4, 4>>,
  <<"comm", 16, 1>>, <<"filename", 256, 1>>, <<"argv0", 128, 1>>,
  <<"dst_addr", 4, 4>>, <<"dst_port", 2, 2>>, <<"target_pid", 4, 4>>,
  <<"family", 1, 1>>, <<"protocol", 1, 1>>, <<"direction", 1, 1>>, <<"_pad0", 1, 1>>,
  <<"dst_addr6", 16, 1>>, <<"src_addr", 4, 4>>, <<"src_addr6", 16, 1>>,
  <<"src_port", 2, 2>>, <<"_pad1", 2, 2>>,
  <<"old_uid", 4, 4>>, <<"new_uid", 4, 4>>, <<"sock_family", 4, 4>>, <<"sock_type", 4, 4>>,
  <<"packet_len", 4, 4>> >>

AlignUp(offset, align) == ((offset + align - 1) \div align) * align

COffset[i \in DOMAIN CFields] ==
  IF i = 1 THEN 0 ELSE AlignUp(COffset[i - 1] + CFields[i - 1][2], CFields[i][3])

SizeOfEvent == AlignUp(COffset[Len(CFields)] + CFields[Len(CFields)][2], 8)

(* What parseEvent reads, in order: the C field that each Go field stands   *)
(* for ("pad" is read and thrown away) and the width of the read.          *)
HeadReads == <<
  <<"timestamp_ns", 8>>, <<"pid", 4>>, <<"tgid", 4>>, <<"ppid", 4>>, <<"uid", 4>>,
  <<"type", 4>>, <<"alert_flags", 4>>, <<"comm", 16>>, <<"filename", 256>>, <<"argv0", 128>>,
  <<"dst_addr", 4>>, <<"dst_port", 2>> >>
TailReads == <<
  <<"target_pid", 4>>, <<"family", 1>>, <<"protocol", 1>>, <<"direction", 1>>, <<"pad", 1>>,
  <<"dst_addr6", 16>>, <<"src_addr", 4>>, <<"src_addr6", 16>>, <<"src_port", 2>>, <<"pad", 2>>,
  <<"old_uid", 4>>, <<"new_uid", 4>>, <<"sock_family", 4>>, <<"sock_type", 4>>,
  <<"packet_len", 4>> >>

(* Slip: the padding that C leaves after dst_port is not skipped.           *)
GoReads_unpadded == HeadReads \o TailReads
GoReads == HeadReads \o << <<"pad", 2>> >> \o TailReads

GoOffset[i \in DOMAIN GoReads] ==
  IF i = 1 THEN 0 ELSE GoOffset[i - 1] + GoReads[i - 1][2]

ExpectedSize == 512

(* The read of a field finds exactly the bytes that C has put there. *)
Finds(name) ==
  \E i \in DOMAIN GoReads, j \in DOMAIN CFields :
    /\ GoReads[i][1] = name /\ CFields[j][1] = name
    /\ GoOffset[i] = COffset[j] /\ GoReads[i][2] = CFields[j][2]

Found == {name \in {CFields[j][1] : j \in DOMAIN CFields} : Finds(name)}

-----------------------------------------------------------------------------
FAM_INET  == 2
FAM_INET6 == 10
PROTO_ICMP == 1
PROTO_TCP == 6
PROTO_UDP == 17
PROTO_ICMPV6 == 58
PROTO_SCTP == 132

NilIP == <<>>
Zeros(n) == [i \in 1..n |-> 0]

Addresses == [dst_addr |-> 4, src_addr |-> 4, dst_addr6 |-> 16, src_addr6 |-> 16]

(* A record whose bytes are all zero, as memset leaves it. *)
ZeroEvent ==
  [name \in {CFields[j][1] : j \in DOMAIN CFields} |->
     IF name \in DOMAIN Addresses THEN Zeros(Addresses[name]) ELSE 0]

(* Other bytes than those of the field. *)
Stray(name) ==
  IF name \in DOMAIN Addresses THEN [i \in 1..Addresses[name] |-> 255] ELSE -1

Read(raw, name) == IF name \in Found THEN raw[name] ELSE Stray(name)

(* A little-endian load of four bytes, and the address taken apart again.   *)
LoadLE(b) == b[1] + 256 * (b[2] + 256 * (b[3] + 256 * b[4]))
ipv4FromRaw(v) ==
  <<v % 256, (v \div 256) % 256, (v \div 65536) % 256, (v \div 16777216) % 256>>

(* A record shorter than ExpectedSize is an error, and readLoop goes on     *)
(* with the next.  Addresses of another family than the event's are nil.    *)
Parses == SizeOfEvent >= ExpectedSize

(* Slip: every event keeps the addresses of both families.                  *)
parseEvent_keeping(raw) ==
  [name \in DOMAIN ZeroEvent |-> Read(raw, name)]

parseEvent(raw) ==
  [name \in DOMAIN ZeroEvent |->
     CASE name \in {"dst_addr", "src_addr"} ->
            IF Read(raw, "family") = FAM_INET THEN ipv4FromRaw(LoadLE(Read(raw, name)))
            ELSE NilIP
       [] name \in {"dst_addr6", "src_addr6"} ->
            IF Read(raw, "family") = FAM_INET6 THEN Read(raw, name) ELSE NilIP
       [] OTHER -> Read(raw, name)]

-----------------------------------------------------------------------------
EventTypes == <<"EXEC", "OPEN", "CONNECT", "PTRACE", "MPROTECT", "VM_WRITEV", "ACCEPT",
                "LISTEN", "MODULE_LOAD", "BPF_LOAD", "PRIVESC", "MEMFD", "SOCKET",
                "UNLINK", "SETNS", "PACKET">>

TypeNumber(name) == CHOOSE i \in DOMAIN EventTypes : EventTypes[i] = name
TypeName(ev) == IF ev["type"] \in DOMAIN EventTypes THEN EventTypes[ev["type"]] ELSE "UNKNOWN"

NetworkEvent(ev) == TypeName(ev) \in {"CONNECT", "ACCEPT", "LISTEN", "PACKET", "SOCKET"}

ProtocolName(ev) ==
  CASE ev["protocol"] = PROTO_ICMP -> "ICMP"
    [] ev["protocol"] = PROTO_TCP -> "TCP"
    [] ev["protocol"] = PROTO_UDP -> "UDP"
    [] ev["protocol"] = PROTO_ICMPV6 -> "ICMPv6"
    [] ev["protocol"] = PROTO_SCTP -> "SCTP"
    [] ev["protocol"] = 0 -> "UNKNOWN"
    [] OTHER -> "IP/" \o ToString(ev["protocol"])

FamilyName(ev) ==
  CASE ev["family"] = FAM_INET -> "IPv4"
    [] ev["family"] = FAM_INET6 -> "IPv6"
    [] OTHER -> "AF_UNKNOWN"

DirectionName(ev) == IF ev["direction"] = 1 THEN "INBOUND" ELSE "OUTBOUND"

(* detect.go: the IPv6 address goes first, if there is one.                 *)
ipString(v4, v6) == IF v6 # NilIP THEN v6 ELSE v4
=============================================================================
